-------------------------- MODULE CommandLineProofs --------------------------
(* Theorems about CommandLine.                                             *)
EXTENDS CommandLine, TLAPS, WellFoundedInduction, SequenceTheorems

\* While the options are checked, those already passed are as they must be; after
\* main's own check nothing changes them any more.
CheckInv ==
    /\ o \in 1..7
    /\ 1 < o => exist["-version"]
    /\ 2 < o => exist["-port"] /\ ~Negative(value["-port"])
                /\ port \in Scanned(value["-port"])
    /\ port <= MaxPort
    /\ pc = "args" => o = 1
    /\ Accepted => o = 7 /\ (exist["-mirror"] => exist["-rdip"])

\* The options, one by one.
LEMMA OptionFacts ==
    /\ Len(Options) = 6
    /\ Options[1].name = "-version" /\ Options[1].required /\ ~Options[1].number
    /\ Options[2].name = "-port" /\ Options[2].required /\ Options[2].number
    /\ \A k \in 3..6 : ~Options[k].number
BY DEF Options

\* Every step of the parser, of main and of the server keeps CheckInv.
LEMMA CheckNext == CheckInv /\ [Next]_vars => CheckInv'
<1> SUFFICES ASSUME CheckInv, [Next]_vars PROVE CheckInv'
  OBVIOUS
<1> USE DEF parserVars, versionVars
<1>k. ASSUME UNCHANGED <<o, exist, value, port>>, pc' = "args" => pc = "args",
             Accepted' => Accepted
      PROVE  CheckInv'
  <2>1. value' = value /\ exist' = exist /\ port' = port /\ o' = o
    BY <1>k
  <2>2. Negative(value'["-port"]) <=> Negative(value["-port"])
    BY <2>1 DEF Negative
  <2> QED BY <1>k, <2>1, <2>2 DEF CheckInv
<1>1. CASE ParseArg
  <2>1. pc = "args" /\ pc' \in {"args", "exit"} /\ UNCHANGED <<o, port>>
    BY <1>1 DEF ParseArg, NotAnOption, Flag, TakeValue, LackValue
  <2> QED BY <2>1 DEF CheckInv, Accepted
<1>2. CASE ArgsEnd
  BY <1>2, <1>k DEF ArgsEnd, Accepted
<1>3. CASE CheckOption
  <2>1. pc = "check" /\ o \in 1..6 /\ UNCHANGED <<exist, value>>
    BY <1>3, OptionFacts DEF CheckOption, CheckInv
  <2>2. CASE pc' = "exit" /\ UNCHANGED <<o, port>>
    BY <1>k, <2>1, <2>2 DEF Accepted
  <2>3. CASE pc' = pc /\ o' = o + 1 /\ (Options[o].required => exist[Options[o].name])
             /\ ~Options[o].number /\ UNCHANGED port
    BY <2>1, <2>3, OptionFacts DEF CheckInv, Accepted
  <2>4. CASE pc' = pc /\ o' = o + 1 /\ Options[o].number /\ exist[Options[o].name]
             /\ ~Negative(value[Options[o].name]) /\ port' <= MaxPort
             /\ port' \in Scanned(value[Options[o].name])
    <3>1. o = 2
      BY <2>1, <2>4, OptionFacts
    <3>2. /\ exist["-port"] /\ ~Negative(value["-port"])
          /\ port' \in Scanned(value["-port"])
      BY <2>4, <3>1, OptionFacts
    <3> QED BY <2>1, <2>4, <3>1, <3>2 DEF CheckInv, Accepted
  <2> QED BY <1>3, <2>2, <2>3, <2>4 DEF CheckOption
<1>4. CASE CheckMain
  <2>1. o = 7 /\ UNCHANGED <<o, exist, value, port>> /\ pc = "check"
    BY <1>4, OptionFacts DEF CheckMain, CheckInv
  <2>2. pc' = "exit" \/ (pc' = "version" /\ (exist["-mirror"] => exist["-rdip"]))
    BY <1>4 DEF CheckMain
  <2> QED BY <2>1, <2>2 DEF CheckInv, Accepted
<1>5. CASE ReadVersion
  BY <1>5, <1>k DEF ReadVersion, Accepted
<1>6. CASE InitializeServer
  BY <1>6, <1>k DEF InitializeServer, Accepted
<1>7. CASE PrepareListenServer
  BY <1>7, <1>k DEF PrepareListenServer, Accepted
<1>8. CASE UNCHANGED vars
  BY <1>8, <1>k DEF vars, Accepted
<1> QED BY <1>1, <1>2, <1>3, <1>4, <1>5, <1>6, <1>7, <1>8 DEF Next

(***************************************************************************)
(* Whatever the command line, a server that starts has a version, a port   *)
(* that fits and is the one given, or the uninitialized local's if none    *)
(* can be read, and an address if it mirrors (ArgParser::ParseArgument,    *)
(* main).                                                                  *)
(***************************************************************************)
THEOREM OptionsComplete == Spec => []AcceptedComplete
<1>1. Init => CheckInv
  BY DEF Init, CheckInv, Accepted, MaxPort
<1>2. CheckInv => AcceptedComplete
  BY DEF CheckInv, AcceptedComplete
<1> QED BY <1>1, <1>2, CheckNext, PTL DEF Spec
-----------------------------------------------------------------------------
(* Induction: the least number, and what it gives of sets of numbers.      *)

\* A set of numbers that is not empty has a least one.
LEMMA LeastNatural ==
    ASSUME NEW T, T \subseteq Nat, T # {}
    PROVE  \E x \in T : \A y \in T : x <= y
<1>1. IsWellFoundedOn(OpToRel(<, Nat), Nat)
  BY NatLessThanWellFounded
<1>2. PICK x \in T : \A y \in T : ~(<<y, x>> \in OpToRel(<, Nat))
  BY <1>1, WFMin
<1>3. \A y \in T : ~(<<y, x>> \in OpToRel(<, Nat)) => x <= y
  BY DEF OpToRel
<1> QED BY <1>2, <1>3

\* What holds of 0 and with k of k + 1 holds up to n.
LEMMA UpToN ==
    ASSUME NEW n \in Nat, NEW S, 0 \in S, \A k \in 0..(n - 1) : k \in S => k + 1 \in S
    PROVE  \A k \in 0..n : k \in S
<1> DEFINE T == {k \in 0..n : k \notin S}
<1>1. T = {}
  <2>1. ASSUME T # {} PROVE FALSE
    <3>1. T \subseteq Nat
      OBVIOUS
    <3>2. PICK x \in T : \A y \in T : x <= y
      BY <2>1, <3>1, LeastNatural
    <3>3. x \in 0..n /\ x \notin S /\ x # 0
      BY <3>2
    <3>4. x - 1 \in 0..(n - 1) /\ ~(x <= x - 1) /\ x - 1 \in 0..n
      BY <3>3
    <3>5. x - 1 \in S
      BY <3>2, <3>4
    <3>6. (x - 1) + 1 \in S /\ (x - 1) + 1 = x
      BY <3>3, <3>4, <3>5
    <3> QED BY <3>3, <3>6
  <2> QED BY <2>1
<1> QED BY <1>1

-----------------------------------------------------------------------------
(* Which words are options.                                                *)

\* What IsOption says of word k, from what g says of the word before.
OptionAt(g, k) ==
    /\ k > 0 /\ FindOption(argv[k]) # {}
    /\ ~(g[k - 1] /\ \E f \in FindOption(argv[k - 1]) : Options[f].hasValue)

\* The recursion of IsOption has a solution up to every word.
LEMMA IsOptionExists ==
    ASSUME NEW n \in Nat
    PROVE  \E g : g = [k \in 0..n |-> OptionAt(g, k)]
<1> DEFINE S == {m \in Nat : \E g : g = [k \in 0..m |-> OptionAt(g, k)]}
<1>1. 0 \in S
  <2> DEFINE g == [k \in 0..0 |-> FALSE]
  <2>1. ASSUME NEW k \in 0..0 PROVE OptionAt(g, k) = FALSE
    <3>1. ~(k > 0)
      OBVIOUS
    <3> QED BY <3>1 DEF OptionAt
  <2>2. g = [k \in 0..0 |-> OptionAt(g, k)]
    BY <2>1
  <2> HIDE DEF g
  <2> QED BY <2>2
<1>2. ASSUME NEW m \in 0..(n - 1), m \in S PROVE m + 1 \in S
  <2>1. PICK g : g = [k \in 0..m |-> OptionAt(g, k)]
    BY <1>2
  <2> DEFINE h == [k \in 0..(m + 1) |-> IF k = m + 1 THEN OptionAt(g, m + 1) ELSE g[k]]
  <2>2. ASSUME NEW k \in 0..m PROVE h[k] = g[k] /\ g[k] = OptionAt(g, k)
    <3>1. k \in 0..(m + 1) /\ k # m + 1
      BY <1>2
    <3> QED BY <2>1, <3>1
  <2>3. h[m + 1] = OptionAt(g, m + 1)
    <3>1. m + 1 \in 0..(m + 1)
      BY <1>2
    <3> QED BY <3>1
  <2>d. DOMAIN h = 0..(m + 1) /\ h = [k \in 0..(m + 1) |-> h[k]]
    OBVIOUS
  <2> HIDE DEF h
  <2>4. ASSUME NEW k \in 0..(m + 1) PROVE h[k] = OptionAt(h, k)
    <3>1. OptionAt(h, k) = OptionAt(g, k)
      <4>1. CASE k > 0
        <5>1. k - 1 \in 0..m
          BY <1>2, <4>1
        <5>2. h[k - 1] = g[k - 1]
          BY <2>2, <5>1
        <5> QED BY <5>2 DEF OptionAt
      <4>2. CASE ~(k > 0)
        BY <4>2 DEF OptionAt
      <4> QED BY <4>1, <4>2
    <3>2. k \in 0..m \/ k = m + 1
      BY <1>2
    <3> QED BY <2>2, <2>3, <3>1, <3>2
  <2>5. h = [k \in 0..(m + 1) |-> OptionAt(h, k)]
    BY <2>d, <2>4
  <2> QED BY <1>2, <2>5
<1> HIDE DEF S
<1>3. n \in S
  <2>1. \A k \in 0..n : k \in S
    BY <1>1, <1>2, UpToN
  <2> QED BY <2>1
<1> QED BY <1>3 DEF S

\* What IsOption is.
LEMMA IsOptionIs ==
    ASSUME argv \in Seq(Words)
    PROVE  \A k \in 0..Len(argv) : IsOption[k] = OptionAt(IsOption, k)
<1> DEFINE P(g) == g = [k \in 0..Len(argv) |-> OptionAt(g, k)]
<1>1. IsOption = CHOOSE g : P(g)
  BY Zenon DEF IsOption, OptionAt
<1>2. \E g : P(g)
  BY IsOptionExists
<1> HIDE DEF P
<1>3. P(IsOption)
  BY <1>1, <1>2, Zenon
<1> QED BY <1>3 DEF P
-----------------------------------------------------------------------------
(* Numbers.                                                                *)

Digits(base) == {DigitChars[k] : k \in 1..base}
DigitValue(base, c) == (CHOOSE k \in 1..base : DigitChars[k] = c) - 1
\* n is where the digits of w end.
DigitsEnd(w, base, n) == /\ \A k \in 1..n : w[k] \in Digits(base)
                         /\ n < Len(w) => w[n + 1] \notin Digits(base)

\* The digits end somewhere, and at one place only.
LEMMA LeadingIs ==
    ASSUME NEW w, Len(w) \in Nat, NEW base
    PROVE  /\ Leading(w, base) \in 0..Len(w) /\ DigitsEnd(w, base, Leading(w, base))
           /\ \A n \in 0..Len(w) : DigitsEnd(w, base, n) => n = Leading(w, base)
<1> DEFINE T == {n \in 0..Len(w) : n < Len(w) => w[n + 1] \notin Digits(base)}
<1>1. T \subseteq Nat /\ T # {}
  <2>1. Len(w) \in T
    OBVIOUS
  <2> QED BY <2>1
<1>2. PICK x \in T : \A y \in T : x <= y
  BY <1>1, LeastNatural
<1>3. x \in 0..Len(w) /\ DigitsEnd(w, base, x)
  <2>1. ASSUME NEW k \in 1..x PROVE w[k] \in Digits(base)
    <3>1. k - 1 \in 0..Len(w) /\ ~(x <= k - 1) /\ (k - 1) + 1 = k
      BY <1>2
    <3>2. k - 1 \notin T
      BY <1>2, <3>1
    <3> QED BY <3>1, <3>2
  <2> QED BY <1>2, <2>1 DEF DigitsEnd
<1>4. Leading(w, base) = CHOOSE n \in 0..Len(w) : DigitsEnd(w, base, n)
  BY Zenon DEF Leading, DigitsEnd, Digits
<1>5. Leading(w, base) \in 0..Len(w) /\ DigitsEnd(w, base, Leading(w, base))
  BY <1>3, <1>4, Zenon
<1>6. ASSUME NEW n \in 0..Len(w), NEW m \in 0..Len(w), n < m,
             DigitsEnd(w, base, n), DigitsEnd(w, base, m)
      PROVE  FALSE
  <2>1. n < Len(w) /\ n + 1 \in 1..m
    BY <1>6
  <2> QED BY <1>6, <2>1 DEF DigitsEnd
<1>7. \A n \in 0..Len(w) : n < Leading(w, base) \/ Leading(w, base) < n \/ n = Leading(w, base)
  BY <1>5
<1> QED BY <1>5, <1>6, <1>7

\* The number of the first n characters, from g, the numbers of fewer.
Read(g, w, base, n) == IF n = 0 THEN 0 ELSE base * g[n - 1] + DigitValue(base, w[n])

\* The recursion of Number has a solution up to every character.
LEMMA ReadExists ==
    ASSUME NEW n \in Nat, NEW w, NEW base
    PROVE  \E g : g = [k \in 0..n |-> Read(g, w, base, k)]
<1> DEFINE S == {m \in Nat : \E g : g = [k \in 0..m |-> Read(g, w, base, k)]}
<1>1. 0 \in S
  <2> DEFINE g == [k \in 0..0 |-> 0]
  <2>1. ASSUME NEW k \in 0..0 PROVE Read(g, w, base, k) = 0
    <3>1. k = 0
      OBVIOUS
    <3> QED BY <3>1 DEF Read
  <2>2. g = [k \in 0..0 |-> Read(g, w, base, k)]
    BY <2>1
  <2> HIDE DEF g
  <2> QED BY <2>2
<1>2. ASSUME NEW m \in 0..(n - 1), m \in S PROVE m + 1 \in S
  <2>1. PICK g : g = [k \in 0..m |-> Read(g, w, base, k)]
    BY <1>2
  <2> DEFINE h == [k \in 0..(m + 1) |->
                      IF k = m + 1 THEN Read(g, w, base, m + 1) ELSE g[k]]
  <2>2. ASSUME NEW k \in 0..m PROVE h[k] = g[k] /\ g[k] = Read(g, w, base, k)
    <3>1. k \in 0..(m + 1) /\ k # m + 1
      BY <1>2
    <3> QED BY <2>1, <3>1
  <2>3. h[m + 1] = Read(g, w, base, m + 1)
    <3>1. m + 1 \in 0..(m + 1)
      BY <1>2
    <3> QED BY <3>1
  <2>d. h = [k \in 0..(m + 1) |-> h[k]]
    OBVIOUS
  <2> HIDE DEF h
  <2>4. ASSUME NEW k \in 0..(m + 1) PROVE h[k] = Read(h, w, base, k)
    <3>1. Read(h, w, base, k) = Read(g, w, base, k)
      <4>1. CASE k > 0
        <5>1. k - 1 \in 0..m
          BY <1>2, <4>1
        <5>2. h[k - 1] = g[k - 1]
          BY <2>2, <5>1
        <5> QED BY <5>2 DEF Read
      <4>2. CASE k = 0
        BY <4>2 DEF Read
      <4> QED BY <4>1, <4>2
    <3>2. k \in 0..m \/ k = m + 1
      BY <1>2
    <3> QED BY <2>2, <2>3, <3>1, <3>2
  <2>5. h = [k \in 0..(m + 1) |-> Read(h, w, base, k)]
    BY <2>d, <2>4
  <2> QED BY <1>2, <2>5
<1> HIDE DEF S
<1>3. n \in S
  <2>1. \A k \in 0..n : k \in S
    BY <1>1, <1>2, UpToN
  <2> QED BY <2>1
<1> QED BY <1>3 DEF S

\* What Number is: the number of the digits a word begins with.
LEMMA NumberIs ==
    ASSUME NEW w, Len(w) \in Nat, NEW base
    PROVE  \E g : /\ \A k \in 0..Len(w) : g[k] = Read(g, w, base, k)
                  /\ Number(w, base) = g[Leading(w, base)]
<1> DEFINE P(f) == f = [k \in 0..Len(w) |-> Read(f, w, base, k)]
<1>1. Number(w, base) = (CHOOSE f : P(f))[Leading(w, base)]
  BY Zenon DEF Number, Read, DigitValue
<1>2. \A n \in Nat : \E f : f = [k \in 0..n |-> Read(f, w, base, k)]
  BY ReadExists
<1>3. \E f : P(f)
  BY <1>2
<1> HIDE DEF P
<1>4. PICK g : g = CHOOSE f : P(f)
  OBVIOUS
<1>5. P(g)
  BY <1>3, <1>4, Zenon
<1>6. \A k \in 0..Len(w) : g[k] = Read(g, w, base, k)
  BY <1>5 DEF P
<1> QED BY <1>1, <1>4, <1>6

\* It is a number.
LEMMA NumberNat ==
    ASSUME NEW w, Len(w) \in Nat, NEW base \in Nat
    PROVE  Number(w, base) \in Nat
<1>1. PICK g : /\ \A k \in 0..Len(w) : g[k] = Read(g, w, base, k)
               /\ Number(w, base) = g[Leading(w, base)]
  BY NumberIs
<1> DEFINE L == Leading(w, base)
<1>2. L \in 0..Len(w) /\ \A k \in 1..L : w[k] \in Digits(base)
  BY LeadingIs DEF DigitsEnd
<1>3. \A c \in Digits(base) : DigitValue(base, c) \in Nat
  <2> SUFFICES ASSUME NEW c \in Digits(base) PROVE DigitValue(base, c) \in Nat
    OBVIOUS
  <2>1. \E k \in 1..base : DigitChars[k] = c
    BY DEF Digits
  <2> DEFINE v == CHOOSE k \in 1..base : DigitChars[k] = c
  <2>2. v \in 1..base
    BY <2>1
  <2>3. DigitValue(base, c) = v - 1
    BY DEF DigitValue
  <2> HIDE DEF v
  <2> QED BY <2>2, <2>3
<1> HIDE DEF L
<1> DEFINE S == {k \in 0..L : g[k] \in Nat}
<1>4. 0 \in S
  <2>1. g[0] = Read(g, w, base, 0) /\ 0 \in 0..L
    BY <1>1, <1>2
  <2> QED BY <2>1 DEF Read
<1>5. ASSUME NEW k \in 0..(L - 1), k \in S PROVE k + 1 \in S
  <2>1. k + 1 \in 0..Len(w) /\ k + 1 \in 1..L /\ k + 1 # 0 /\ (k + 1) - 1 = k
        /\ k + 1 \in 0..L
    BY <1>2
  <2>2. g[k + 1] = base * g[k] + DigitValue(base, w[k + 1])
    BY <1>1, <2>1 DEF Read
  <2>3. DigitValue(base, w[k + 1]) \in Nat /\ g[k] \in Nat
    BY <1>2, <1>3, <1>5, <2>1
  <2>4. base * g[k] \in Nat
    BY <2>3
  <2> QED BY <2>1, <2>2, <2>3, <2>4
<1> HIDE DEF S
<1>6. L \in S
  <2>1. L \in Nat
    BY <1>2
  <2>2. \A k \in 0..L : k \in S
    BY <1>4, <1>5, <2>1, UpToN
  <2> QED BY <2>1, <2>2
<1> QED BY <1>1, <1>6 DEF S, L

\* Words that are the same up to a zero byte, or to the end, are the same number.
SameUpTo(u, w, n) ==
    /\ Len(u) \in Nat /\ Len(w) \in Nat /\ n \in Nat /\ n <= Len(u) /\ n <= Len(w)
    /\ \A k \in 1..n : u[k] = w[k]
    /\ n < Len(u) => u[n + 1] = NUL
    /\ n < Len(w) => w[n + 1] = NUL
LEMMA NumberCut ==
    ASSUME NEW u, NEW w, NEW n, SameUpTo(u, w, n), NEW base, NUL \notin Digits(base)
    PROVE  Number(u, base) = Number(w, base)
<1>0. /\ Len(u) \in Nat /\ Len(w) \in Nat /\ n \in Nat /\ n <= Len(u) /\ n <= Len(w)
      /\ \A k \in 1..n : u[k] = w[k]
      /\ n < Len(u) => u[n + 1] = NUL
      /\ n < Len(w) => w[n + 1] = NUL
  BY DEF SameUpTo
<1> USE <1>0
<1> DEFINE L == Leading(u, base)
<1>1. L \in 0..Len(u) /\ DigitsEnd(u, base, L)
  BY LeadingIs
<1> HIDE DEF L
<1>2. L <= n
  <2>1. ASSUME L > n PROVE FALSE
    <3>1. n + 1 \in 1..L /\ n < Len(u)
      BY <1>1, <2>1
    <3> QED BY <1>1, <3>1 DEF DigitsEnd
  <2> QED BY <1>1, <2>1
<1>3. L = Leading(w, base)
  <2>1. L \in 0..Len(w)
    BY <1>1, <1>2
  <2>2. \A k \in 1..L : k \in 1..n
    BY <1>1, <1>2
  <2>3. L < Len(w) => w[L + 1] \notin Digits(base)
    <3>1. CASE L < n
      <4>1. L + 1 \in 1..n /\ L < Len(u)
        BY <1>1, <3>1
      <4> QED BY <1>1, <4>1 DEF DigitsEnd
    <3>2. CASE L = n
      BY <3>2
    <3> QED BY <1>1, <1>2, <3>1, <3>2
  <2>4. DigitsEnd(w, base, L)
    BY <1>1, <2>2, <2>3 DEF DigitsEnd
  <2> QED BY <2>1, <2>4, LeadingIs
<1>4. PICK g : /\ \A k \in 0..Len(u) : g[k] = Read(g, u, base, k)
               /\ Number(u, base) = g[L]
  BY NumberIs DEF L
<1>5. PICK h : /\ \A k \in 0..Len(w) : h[k] = Read(h, w, base, k)
               /\ Number(w, base) = h[L]
  BY <1>3, NumberIs
<1> DEFINE S == {k \in 0..L : g[k] = h[k]}
<1>6. 0 \in S
  <2>1. 0 \in 0..Len(u) /\ 0 \in 0..Len(w) /\ 0 \in 0..L
    BY <1>1
  <2>2. g[0] = 0 /\ h[0] = 0
    BY <1>4, <1>5, <2>1 DEF Read
  <2> QED BY <2>1, <2>2
<1>7. ASSUME NEW k \in 0..(L - 1), k \in S PROVE k + 1 \in S
  <2>1. /\ k + 1 \in 0..Len(u) /\ k + 1 \in 0..Len(w) /\ k + 1 \in 1..n
        /\ k + 1 \in 0..L /\ k + 1 # 0 /\ (k + 1) - 1 = k
    BY <1>1, <1>2
  <2>2. /\ g[k + 1] = base * g[k] + DigitValue(base, u[k + 1])
        /\ h[k + 1] = base * h[k] + DigitValue(base, w[k + 1])
    BY <1>4, <1>5, <2>1 DEF Read
  <2>3. u[k + 1] = w[k + 1] /\ g[k] = h[k]
    BY <1>7, <2>1
  <2> QED BY <2>1, <2>2, <2>3
<1> HIDE DEF S
<1>8. L \in S
  <2>1. L \in Nat /\ L \in 0..L
    BY <1>1
  <2>2. \A k \in 0..(L - 1) : k \in S => k + 1 \in S
    BY <1>7
  <2>3. \A k \in 0..L : k \in S
    BY <1>6, <2>1, <2>2, UpToN
  <2> QED BY <2>1, <2>3
<1> QED BY <1>4, <1>5, <1>8 DEF S
-----------------------------------------------------------------------------
(* Types.                                                                  *)

\* The names are six, and all different.
LEMMA NamesFacts ==
    /\ "-version" \in Names /\ "-port" \in Names /\ "-rdip" \in Names /\ "-mirror" \in Names
    /\ \A k \in 1..6 : Options[k].name \in Names
    /\ \A k, l \in 1..6 : Options[k].name = Options[l].name => k = l
    /\ \A w : FindOption(w) \subseteq 1..6
    /\ \A w : \A k \in 1..6 : k \in FindOption(w) <=> w = <<Options[k].name>>
    /\ \A w : \A k, l \in FindOption(w) : k = l
<1>1. Len(Options) = 6 /\ \A k, l \in 1..6 : Options[k].name = Options[l].name => k = l
  BY DEF Options
<1>2. \A k \in 1..6 : Options[k].name \in Names
  BY <1>1 DEF Names
<1>3. /\ Options[1].name = "-version" /\ Options[2].name = "-port"
      /\ Options[4].name = "-rdip" /\ Options[6].name = "-mirror"
  BY DEF Options
<1>4. \A w : \A k : k \in FindOption(w) <=> k \in 1..6 /\ w = <<Options[k].name>>
  BY <1>1 DEF FindOption
<1>5. \A x, y : <<x>> = <<y>> => x = y
  OBVIOUS
<1>6. \A w : \A k, l \in FindOption(w) : k = l
  <2> SUFFICES ASSUME NEW w, NEW k \in FindOption(w), NEW l \in FindOption(w)
               PROVE  k = l
    OBVIOUS
  <2>1. /\ k \in 1..6 /\ w = <<Options[k].name>>
        /\ l \in 1..6 /\ w = <<Options[l].name>>
    BY <1>4
  <2>2. Options[k].name = Options[l].name
    BY <1>5, <2>1, Zenon
  <2> QED BY <1>1, <2>1, <2>2
<1> QED BY <1>1, <1>2, <1>3, <1>4, <1>6

\* A sequence of one.
LEMMA OneElement == \A S : \A x \in S : <<x>> \in Seq(S)
<1> SUFFICES ASSUME NEW S, NEW x \in S PROVE <<x>> \in Seq(S)
  OBVIOUS
<1> QED OBVIOUS

\* A part of a word is one, and so has a length.
LEMMA PartsAreWords ==
    ASSUME NEW w \in Seq(STRING), NEW a \in 1..(Len(w) + 3), NEW b \in 0..Len(w)
    PROVE  SubSeq(w, a, b) \in Seq(STRING) /\ Len(SubSeq(w, a, b)) \in Nat
<1>1. \A k \in a..b : w[k] \in STRING
  <2> SUFFICES ASSUME NEW k \in a..b PROVE w[k] \in STRING
    OBVIOUS
  <2>1. k \in 1..Len(w)
    OBVIOUS
  <2> QED BY <2>1, ElementOfSeq
<1>2. a \in Int /\ b \in Int
  OBVIOUS
<1>3. SubSeq(w, a, b) \in Seq(STRING)
  BY <1>1, <1>2, SubSeqProperties
<1> QED BY <1>3, LenProperties

\* What sscanf gives is a number.
LEMMA ScannedNat == ASSUME NEW w \in Seq(STRING) PROVE Scanned(w) \subseteq Nat
<1>1. ASSUME NEW u \in Seq(STRING)
      PROVE  /\ NoPrefix(u) \in Seq(STRING) /\ NoSign(u) \in Seq(STRING)
  <2>1. Len(u) \in Nat
    BY LenProperties
  <2>2. SubSeq(u, 3, Len(u)) \in Seq(STRING) /\ SubSeq(u, 2, Len(u)) \in Seq(STRING)
    BY <2>1, PartsAreWords
  <2> QED BY <2>2 DEF NoPrefix, NoSign
<1>2. Figures(w) \in Seq(STRING) /\ Len(Figures(w)) \in Nat
  <2>1. Figures(w) \in Seq(STRING)
    BY <1>1 DEF Figures
  <2> QED BY <2>1, LenProperties
<1>3. Base(w) \in Nat
  BY DEF Base
<1>4. Number(Figures(w), Base(w)) \in Nat
  BY <1>2, <1>3, NumberNat
<1>5. MaxPort + 1 \in Nat
  BY DEF MaxPort
<1> QED BY <1>4, <1>5, LeftoverAssumption DEF Scanned

\* What the redirect address is taken apart to.
LEMMA ResolvedType ==
    ASSUME NEW w \in Seq(STRING)
    PROVE  ResolveRedirectSocket(w) \subseteq [ip : Seq(STRING), port : 0..MaxPort]
<1>0. Len(w) \in Nat /\ MaxPort + 1 = 65536 /\ MaxPort = 65535
  BY LenProperties DEF MaxPort
<1>m. \A n \in Nat : n % (MaxPort + 1) \in 0..MaxPort
  <2> DEFINE M == MaxPort
  <2>1. M \in Nat
    BY <1>0
  <2> HIDE DEF M
  <2>2. \A n \in Nat : n % (M + 1) \in 0..M
    BY <2>1
  <2> QED BY <2>2 DEF M
<1>1. CASE Colon(w) = {}
  BY <1>1, <1>m, LeftoverAssumption DEF ResolveRedirectSocket
<1>2. CASE Colon(w) # {}
  <2> DEFINE k == CHOOSE k \in Colon(w) : \A l \in Colon(w) : k <= l
  <2>1. Colon(w) \subseteq Nat /\ Colon(w) \subseteq 1..Len(w)
    BY <1>0 DEF Colon
  <2>2. \E x \in Colon(w) : \A y \in Colon(w) : x <= y
    BY <1>2, <2>1, LeastNatural
  <2>3. k \in Colon(w)
    BY <2>2, Zenon
  <2>4. ResolveRedirectSocket(w) =
           {[ip |-> SubSeq(w, 1, k - 1),
             port |-> Number(SubSeq(w, k + 1, Len(w)), 10) % (MaxPort + 1)]}
    BY <1>2 DEF ResolveRedirectSocket
  <2> HIDE DEF k
  <2>5. k - 1 \in 0..Len(w) /\ k + 1 \in 1..(Len(w) + 3) /\ 1 \in 1..(Len(w) + 3)
        /\ Len(w) \in 0..Len(w)
    BY <1>0, <2>1, <2>3
  <2>6. /\ SubSeq(w, 1, k - 1) \in Seq(STRING)
        /\ Len(SubSeq(w, k + 1, Len(w))) \in Nat
    BY <2>5, PartsAreWords
  <2>7. Number(SubSeq(w, k + 1, Len(w)), 10) \in Nat
    BY <2>6, NumberNat
  <2>8. Number(SubSeq(w, k + 1, Len(w)), 10) % (MaxPort + 1) \in 0..MaxPort
    BY <1>m, <2>7
  <2> QED BY <2>4, <2>6, <2>8
<1> QED BY <1>1, <1>2

\* What lies in memory from the version on.
LEMMA BehindType ==
    ASSUME TypeOK
    PROVE  /\ value["-version"] \in Seq(STRING) /\ memory \in Seq(STRING)
           /\ Behind \in Seq(STRING) /\ Len(value["-version"]) \in Nat
           /\ Len(Behind) = Len(value["-version"]) + 1 + Len(memory)
           /\ \A k \in 1..Len(value["-version"]) : Behind[k] = value["-version"][k]
           /\ Behind[Len(value["-version"]) + 1] = NUL
<1>1. value["-version"] \in Seq(STRING) /\ memory \in Seq(STRING)
  BY NamesFacts, WordAssumption, MemoryAssumption DEF TypeOK
<1> DEFINE v == value["-version"]
<1>2. <<NUL>> \in Seq(STRING) /\ Len(<<NUL>>) = 1 /\ <<NUL>>[1] = NUL
  <2>1. memory \in Seq(STRING) /\ Len(memory) \in 1..Len(memory) /\ memory[Len(memory)] = NUL
    <3>1. memory \in Seq(STRING) /\ Len(memory) > 1 /\ memory[Len(memory)] = NUL
      BY MemoryAssumption DEF TypeOK
    <3>2. Len(memory) \in Nat
      BY <3>1, LenProperties
    <3> QED BY <3>1, <3>2
  <2>2. NUL \in STRING
    BY <2>1, ElementOfSeq
  <2>3. <<NUL>> \in Seq(STRING)
    BY <2>2, OneElement, Zenon
  <2> QED BY <2>3
<1> HIDE DEF v
<1>3. /\ v \o <<NUL>> \in Seq(STRING) /\ Len(v \o <<NUL>>) = Len(v) + 1
      /\ \A k \in 1..(Len(v) + 1) :
            (v \o <<NUL>>)[k] = IF k <= Len(v) THEN v[k] ELSE <<NUL>>[k - Len(v)]
  BY <1>1, <1>2, ConcatProperties DEF v
<1>4. Len(v) \in Nat /\ Len(memory) \in Nat
  BY <1>1, LenProperties DEF v
<1> DEFINE u == v \o <<NUL>>
<1>5. /\ \A k \in 1..Len(v) : u[k] = v[k]
      /\ u[Len(v) + 1] = NUL
  <2>1. ASSUME NEW k \in 1..Len(v) PROVE u[k] = v[k]
    BY <1>3, <1>4
  <2>2. u[Len(v) + 1] = <<NUL>>[Len(v) + 1 - Len(v)]
    BY <1>3, <1>4
  <2>3. Len(v) + 1 - Len(v) = 1
    BY <1>4
  <2> QED BY <1>2, <2>1, <2>2, <2>3
<1>6. Behind = u \o memory
  BY DEF Behind, v
<1>7. u \in Seq(STRING) /\ Len(u) = Len(v) + 1
  BY <1>3
<1> HIDE DEF u
<1>8. /\ Behind \in Seq(STRING) /\ Len(Behind) = Len(u) + Len(memory)
      /\ \A k \in 1..(Len(u) + Len(memory)) :
            Behind[k] = IF k <= Len(u) THEN u[k] ELSE memory[k - Len(u)]
  BY <1>1, <1>6, <1>7, ConcatProperties
<1>9. \A k \in 1..(Len(v) + 1) : Behind[k] = u[k]
  BY <1>4, <1>7, <1>8
<1>10. /\ \A k \in 1..Len(v) : Behind[k] = v[k]
       /\ Behind[Len(v) + 1] = NUL
  BY <1>4, <1>5, <1>9
<1> QED BY <1>1, <1>4, <1>7, <1>8, <1>10 DEF v

\* The types are kept.
LEMMA TypeNext == TypeOK /\ [Next]_vars => TypeOK'
<1> SUFFICES ASSUME TypeOK, [Next]_vars PROVE TypeOK'
  OBVIOUS
<1> USE DEF parserVars, versionVars
<1>0. /\ Len(Options) = 6 /\ argv \in Seq(Words) /\ Len(argv) \in Nat
      /\ \A j \in 1..Len(argv) : argv[j] \in Words
      /\ \A n \in Names : value[n] \in Seq(STRING)
  BY OptionFacts, WordAssumption DEF TypeOK
<1>1. CASE ParseArg
  <2>1. i \in 1..Len(argv) /\ pc = "args"
        /\ UNCHANGED <<o, port, argv, memory, versionVars, redirect>>
    BY <1>0, <1>1 DEF ParseArg, TypeOK
  <2>2. CASE NotAnOption
    BY <2>1, <2>2 DEF NotAnOption, TypeOK
  <2>3. CASE \E k \in FindOption(argv[i]) : Flag(k) \/ TakeValue(k) \/ LackValue(k)
    <3>1. PICK k \in FindOption(argv[i]) : Flag(k) \/ TakeValue(k) \/ LackValue(k)
      BY <2>3
    <3>2. Options[k].name \in Names
      BY NamesFacts
    <3>3. exist' \in [Names -> BOOLEAN]
      BY <3>1 DEF Flag, TakeValue, LackValue, Given, TypeOK
    <3>4. value' \in [Names -> Words]
      <4>1. CASE TakeValue(k)
        <5>1. i + 1 \in 1..Len(argv)
          BY <2>1, <1>0, <4>1 DEF TakeValue
        <5> QED BY <1>0, <3>2, <4>1, <5>1 DEF TakeValue, TypeOK
      <4> QED BY <3>1, <4>1 DEF Flag, LackValue, TypeOK
    <3>5. i' \in 1..(Len(argv) + 1) /\ pc' \in {"args", "exit"}
      BY <1>0, <2>1, <3>1 DEF Flag, TakeValue, LackValue
    <3> QED BY <2>1, <3>3, <3>4, <3>5 DEF TypeOK
  <2> QED BY <1>1, <2>2, <2>3 DEF ParseArg
<1>2. CASE ArgsEnd
  BY <1>2 DEF ArgsEnd, TypeOK
<1>3. CASE CheckOption
  <2>1. o \in 1..6 /\ pc = "check"
        /\ UNCHANGED <<i, exist, value, argv, memory, versionVars, redirect>>
    BY <1>0, <1>3 DEF CheckOption, TypeOK
  <2>2. Scanned(value[Options[o].name]) \subseteq Nat
    BY <1>0, <2>1, NamesFacts, ScannedNat
  <2>3. /\ port' = port \/ port' \in {n \in Scanned(value[Options[o].name]) : n <= MaxPort}
        /\ o' \in {o, o + 1} /\ pc' \in {pc, "exit"}
    BY <1>3 DEF CheckOption
  <2>4. port' \in 0..MaxPort
    <3>1. port \in 0..MaxPort
      BY DEF TypeOK
    <3>2. port' \in 0..MaxPort \/ (port' \in Nat /\ port' <= MaxPort)
      BY <2>2, <2>3, <3>1
    <3>3. MaxPort \in Nat
      BY DEF MaxPort
    <3> QED BY <3>2, <3>3
  <2> QED BY <1>0, <2>1, <2>3, <2>4 DEF TypeOK
<1>4. CASE CheckMain
  BY <1>4 DEF CheckMain, TypeOK
<1>5. CASE ReadVersion
  <2>1. /\ source + 2 <= Len(Behind) /\ source' = source + 1
        /\ UNCHANGED <<argv, memory, parserVars, redirect>>
        /\ \/ UNCHANGED <<pc, temp, versionInt>>
           \/ /\ temp' = Append(temp, Behind[source + 1])
              /\ \/ pc' = "startup" /\ versionInt' = Number(temp', 10)
                 \/ UNCHANGED <<pc, versionInt>>
    BY <1>5 DEF ReadVersion
  <2>2. Behind \in Seq(STRING) /\ source \in Nat /\ temp \in Seq(STRING)
    BY BehindType DEF TypeOK
  <2>3. source + 1 \in 1..Len(Behind)
    BY <2>1, <2>2
  <2>4. Append(temp, Behind[source + 1]) \in Seq(STRING)
    BY <2>2, <2>3
  <2>5. temp' \in Seq(STRING) /\ Len(temp') \in Nat
    BY <2>1, <2>2, <2>4
  <2>6. Number(temp', 10) \in Nat
    BY <2>5, NumberNat
  <2>7. versionInt' \in Nat /\ pc' \in {pc, "startup"} /\ source' \in Nat
    BY <2>1, <2>2, <2>6 DEF TypeOK
  <2> QED BY <2>1, <2>5, <2>7 DEF TypeOK
<1>6. CASE InitializeServer
  BY <1>6 DEF InitializeServer, TypeOK
<1>7. CASE PrepareListenServer
  <2>1. /\ redirect' = redirect \/ redirect' \in ResolveRedirectSocket(value["-rdip"])
        /\ pc' \in {"ended", "listening"}
        /\ UNCHANGED <<argv, memory, parserVars, versionVars>>
    BY <1>7 DEF PrepareListenServer
  <2>2. ResolveRedirectSocket(value["-rdip"]) \subseteq [ip : Seq(STRING), port : 0..MaxPort]
    BY <1>0, NamesFacts, ResolvedType
  <2> QED BY <2>1, <2>2 DEF TypeOK
<1>8. CASE UNCHANGED vars
  BY <1>8 DEF vars, TypeOK
<1> QED BY <1>1, <1>2, <1>3, <1>4, <1>5, <1>6, <1>7, <1>8 DEF Next

\* They are right at first.
LEMMA TypeInit == Init => TypeOK
<1> SUFFICES ASSUME Init PROVE TypeOK
  OBVIOUS
<1>1. Len(argv) \in Nat
  BY WordAssumption DEF Init
<1>2. NoRedirect \in [ip : Seq(STRING), port : 0..MaxPort]
  BY EmptySeq DEF NoRedirect, MaxPort
<1>3. /\ Len(Options) = 6 /\ 0 \in 0..MaxPort
      /\ 1 \in 1..(Len(argv) + 1) /\ 1 \in 1..(Len(Options) + 1)
  BY <1>1, OptionFacts DEF MaxPort
<1>4. <<>> \in Seq(STRING) /\ <<>> \in Words
  BY EmptySeq, WordAssumption
<1> QED BY <1>2, <1>3, <1>4 DEF Init, TypeOK

(***************************************************************************)
(* The types and bounds: the parser's index stays in the command line, and *)
(* the ports are ports (ArgParser::ParseArgument, ResolveRedirectSocket).  *)
(***************************************************************************)
THEOREM TypeCorrect == Spec => []TypeOK
  BY TypeInit, TypeNext, PTL DEF Spec
-----------------------------------------------------------------------------
(* The options of the command line.                                        *)

\* Word at is an occurrence of option k; up to word n, e says of each option if it
\* occurs, and v has the word behind its last occurrence.
Occurs(k, at) == IsOption[at] /\ argv[at] = <<Options[k].name>>
LastOf(k, n, at) == Occurs(k, at) /\ \A l \in 1..n : Occurs(k, l) => l <= at
ParsedTo(e, v, n) ==
    \A k \in 1..6 :
       /\ e[Options[k].name] <=> \E at \in 1..n : Occurs(k, at)
       /\ e[Options[k].name] /\ Options[k].hasValue =>
             \E at \in 1..n : LastOf(k, n, at) /\ v[Options[k].name] = argv[at + 1]
\* Word n takes the word behind it.
TakesNext(n) == IsOption[n] /\ \E f \in FindOption(argv[n]) : Options[f].hasValue

\* The parser has parsed what is before its index, which is at no value.
ParseInv ==
    pc # "exit" =>
       /\ ParsedTo(exist, value, i - 1) /\ ~TakesNext(i - 1)
       /\ pc # "args" => i = Len(argv) + 1

\* Nothing has been parsed yet.
LEMMA ParseInit == Init => ParseInv
<1> SUFFICES ASSUME Init PROVE ParseInv
  OBVIOUS
<1>0. /\ argv \in Seq(Words) /\ Len(argv) \in Nat /\ i = 1 /\ pc = "args"
      /\ exist = [n \in Names |-> FALSE]
  BY WordAssumption, LenProperties DEF Init
<1>1. ~IsOption[0]
  <2>1. IsOption[0] = OptionAt(IsOption, 0)
    BY <1>0, IsOptionIs
  <2> QED BY <2>1 DEF OptionAt
<1>2. \A k \in 1..6 : ~exist[Options[k].name]
  BY <1>0, NamesFacts
<1>3. i - 1 = 0 /\ \A at \in 1..0 : FALSE
  BY <1>0
<1>4. ParsedTo(exist, value, i - 1)
  BY <1>2, <1>3 DEF ParsedTo
<1>5. ~TakesNext(i - 1)
  BY <1>1, <1>3 DEF TakesNext
<1> QED BY <1>0, <1>4, <1>5 DEF ParseInv

\* A word that follows no option with a value is an option if it is the name of one.
LEMMA IsOptionHere ==
    ASSUME argv \in Seq(Words), NEW n \in 1..Len(argv)
    PROVE  /\ IsOption[n] <=> FindOption(argv[n]) # {} /\ ~TakesNext(n - 1)
           /\ IsOption[n] \in BOOLEAN
<1>1. n \in 0..Len(argv) /\ n > 0
  BY LenProperties
<1>2. IsOption[n] = OptionAt(IsOption, n)
  BY <1>1, IsOptionIs
<1> QED BY <1>1, <1>2 DEF OptionAt, TakesNext

\* Words that are not options change nothing.
LEMMA ParsedMore ==
    ASSUME NEW e, NEW v, NEW n \in Nat, NEW m \in Nat, n <= m, ParsedTo(e, v, n),
           \A at \in (n + 1)..m : ~IsOption[at]
    PROVE  ParsedTo(e, v, m)
<1> SUFFICES ASSUME NEW k \in 1..6
             PROVE  /\ e[Options[k].name] <=> \E at \in 1..m : Occurs(k, at)
                    /\ e[Options[k].name] /\ Options[k].hasValue =>
                          \E at \in 1..m : LastOf(k, m, at)
                                           /\ v[Options[k].name] = argv[at + 1]
  BY DEF ParsedTo
<1>1. \A at \in 1..m : Occurs(k, at) => at \in 1..n
  <2> SUFFICES ASSUME NEW at \in 1..m, Occurs(k, at) PROVE at \in 1..n
    OBVIOUS
  <2>1. at \notin (n + 1)..m
    BY DEF Occurs
  <2> QED BY <2>1
<1>2. \A at \in 1..n : at \in 1..m
  OBVIOUS
<1>3. /\ e[Options[k].name] <=> \E at \in 1..n : Occurs(k, at)
      /\ e[Options[k].name] /\ Options[k].hasValue =>
            \E at \in 1..n : LastOf(k, n, at) /\ v[Options[k].name] = argv[at + 1]
  BY DEF ParsedTo
<1>4. \A at : LastOf(k, n, at) => LastOf(k, m, at)
  BY <1>1, Zenon DEF LastOf
<1> QED BY <1>1, <1>2, <1>3, <1>4, Zenon

\* An option that is found is given, and its value is the word behind it.
LEMMA ParsedOption ==
    ASSUME TypeOK, i \in 1..Len(argv), ParsedTo(exist, value, i - 1), IsOption[i],
           NEW k \in FindOption(argv[i]), NEW v,
           \/ ~Options[k].hasValue /\ v = value
           \/ v = [value EXCEPT ![Options[k].name] = argv[i + 1]]
    PROVE  ParsedTo([exist EXCEPT ![Options[k].name] = TRUE], v, i)
<1> DEFINE e == [exist EXCEPT ![Options[k].name] = TRUE]
<1>0. /\ exist \in [Names -> BOOLEAN] /\ value \in [Names -> Words] /\ i \in Nat
      /\ k \in 1..6 /\ argv[i] = <<Options[k].name>> /\ Options[k].name \in Names
  <2>1. k \in 1..6
    BY NamesFacts
  <2>2. Len(argv) \in Nat
    BY WordAssumption, LenProperties DEF TypeOK
  <2>3. exist \in [Names -> BOOLEAN] /\ value \in [Names -> Words]
    BY DEF TypeOK
  <2>4. i \in Nat
    BY <2>2
  <2>5. argv[i] = <<Options[k].name>> /\ Options[k].name \in Names
    BY <2>1, NamesFacts, Zenon DEF FindOption
  <2> QED BY <2>1, <2>3, <2>4, <2>5, Zenon
<1> SUFFICES ASSUME NEW l \in 1..6
             PROVE  /\ e[Options[l].name] <=> \E at \in 1..i : Occurs(l, at)
                    /\ e[Options[l].name] /\ Options[l].hasValue =>
                          \E at \in 1..i : LastOf(l, i, at)
                                           /\ v[Options[l].name] = argv[at + 1]
  BY DEF ParsedTo
<1>1. \A at \in 1..i : at \in 1..(i - 1) \/ at = i
  BY <1>0
<1>2. i \in 1..i /\ \A at \in 1..(i - 1) : at \in 1..i
  BY <1>0
<1>3. CASE l = k
  <2>1. e[Options[l].name]
    BY <1>0, <1>3
  <2>2. Occurs(l, i)
    BY <1>0, <1>3, Zenon DEF Occurs
  <2>3. LastOf(l, i, i)
    BY <2>2 DEF LastOf
  <2>4. Options[l].hasValue => v[Options[l].name] = argv[i + 1]
    BY <1>0, <1>3
  <2> QED BY <1>2, <2>1, <2>2, <2>3, <2>4, Zenon
<1>4. CASE l # k
  <2>1. Options[l].name # Options[k].name /\ Options[l].name \in Names
    BY <1>0, <1>4, NamesFacts
  <2>2. e[Options[l].name] = exist[Options[l].name] /\ v[Options[l].name] = value[Options[l].name]
    BY <1>0, <2>1
  <2>3. ~Occurs(l, i)
    <3>1. \A x, y : <<x>> = <<y>> => x = y
      OBVIOUS
    <3> QED BY <1>0, <2>1, <3>1, Zenon DEF Occurs
  <2>4. \A at \in 1..i : Occurs(l, at) => at \in 1..(i - 1)
    BY <1>1, <2>3, Zenon
  <2>5. \A at : LastOf(l, i - 1, at) => LastOf(l, i, at)
    BY <2>4, Zenon DEF LastOf
  <2>6. /\ exist[Options[l].name] <=> \E at \in 1..(i - 1) : Occurs(l, at)
        /\ exist[Options[l].name] /\ Options[l].hasValue =>
              \E at \in 1..(i - 1) : LastOf(l, i - 1, at)
                                     /\ value[Options[l].name] = argv[at + 1]
    BY DEF ParsedTo
  <2> HIDE DEF e
  <2>7. e[Options[l].name] <=> \E at \in 1..i : Occurs(l, at)
    BY <1>2, <2>2, <2>4, <2>6, Zenon
  <2>8. e[Options[l].name] /\ Options[l].hasValue =>
           \E at \in 1..i : LastOf(l, i, at) /\ v[Options[l].name] = argv[at + 1]
    BY <1>2, <2>2, <2>5, <2>6, Zenon
  <2> QED BY <2>7, <2>8
<1> QED BY <1>3, <1>4

\* The parser keeps ParseInv; when it is through, its result stays.
LEMMA ParseNext == TypeOK /\ ParseInv /\ [Next]_vars => ParseInv'
<1> SUFFICES ASSUME TypeOK, ParseInv, [Next]_vars, pc' # "exit"
             PROVE  /\ ParsedTo(exist, value, i - 1)' /\ ~TakesNext(i - 1)'
                    /\ pc' # "args" => i' = Len(argv') + 1
  BY DEF ParseInv
<1>0. argv \in Seq(Words) /\ Len(argv) \in Nat /\ i \in 1..(Len(argv) + 1)
  BY WordAssumption, LenProperties DEF TypeOK
<1>k. ASSUME argv' = argv, pc # "exit", i' \in 1..(Len(argv) + 1),
             ParsedTo(exist', value', i' - 1), ~TakesNext(i' - 1),
             pc' # "args" => i' = Len(argv) + 1
      PROVE  /\ ParsedTo(exist, value, i - 1)' /\ ~TakesNext(i - 1)'
             /\ pc' # "args" => i' = Len(argv') + 1
  <2>1. IsOption' = IsOption
    BY <1>k DEF IsOption
  <2> QED BY <1>k, <2>1 DEF ParsedTo, LastOf, Occurs, TakesNext
<1>1. CASE ParseArg
  <2>1. /\ pc = "args" /\ i \in 1..Len(argv) /\ argv' = argv /\ i - 1 \in Nat
    BY <1>0, <1>1 DEF ParseArg
  <2>2. ParsedTo(exist, value, i - 1) /\ ~TakesNext(i - 1)
    BY <2>1 DEF ParseInv
  <2>3. IsOption[i] <=> FindOption(argv[i]) # {}
    BY <1>0, <2>1, <2>2, IsOptionHere
  <2>4. CASE NotAnOption
    <3>1. /\ ~IsOption[i] /\ i' = i + 1 /\ pc' = "args"
          /\ exist' = exist /\ value' = value
      BY <2>1, <2>3, <2>4 DEF NotAnOption
    <3>2. \A at \in ((i - 1) + 1)..i : at = i
      BY <2>1
    <3>3. ParsedTo(exist, value, i)
      <4>1. \A at \in ((i - 1) + 1)..i : ~IsOption[at]
        BY <3>1, <3>2
      <4>2. i \in Nat /\ i - 1 <= i
        BY <2>1
      <4> QED BY <2>1, <2>2, <4>1, <4>2, ParsedMore
    <3>4. i' - 1 = i /\ i' \in 1..(Len(argv) + 1)
      BY <1>0, <2>1, <3>1
    <3>5. ~TakesNext(i)
      BY <3>1 DEF TakesNext
    <3> QED BY <1>k, <2>1, <3>1, <3>3, <3>4, <3>5
  <2>5. CASE \E k \in FindOption(argv[i]) : Flag(k) \/ TakeValue(k) \/ LackValue(k)
    <3>1. PICK k \in FindOption(argv[i]) : Flag(k) \/ TakeValue(k) \/ LackValue(k)
      BY <2>5
    <3>2. IsOption[i] /\ exist' = [exist EXCEPT ![Options[k].name] = TRUE]
      BY <2>3, <3>1 DEF Flag, TakeValue, LackValue, Given
    <3>3. ~LackValue(k)
      BY DEF LackValue
    <3>4. CASE Flag(k)
      <4>1. ~Options[k].hasValue /\ value' = value /\ i' = i + 1 /\ pc' = "args"
        BY <2>1, <3>4 DEF Flag
      <4>2. ParsedTo(exist', value', i)
        BY <2>1, <2>2, <3>2, <4>1, ParsedOption
      <4>3. ~TakesNext(i)
        <5>1. \A f \in FindOption(argv[i]) : f = k
          BY NamesFacts
        <5> QED BY <4>1, <5>1 DEF TakesNext
      <4>4. i' - 1 = i /\ i' \in 1..(Len(argv) + 1)
        BY <1>0, <2>1, <4>1
      <4> QED BY <1>k, <2>1, <4>1, <4>2, <4>3, <4>4
    <3>5. CASE TakeValue(k)
      <4>1. /\ Options[k].hasValue /\ i' = i + 2 /\ pc' = "args" /\ i < Len(argv)
            /\ value' = [value EXCEPT ![Options[k].name] = argv[i + 1]]
        BY <2>1, <3>5 DEF TakeValue
      <4>2. ParsedTo(exist', value', i)
        BY <2>1, <2>2, <3>2, <4>1, ParsedOption
      <4>3. TakesNext(i)
        BY <3>2, <4>1 DEF TakesNext
      <4>4. /\ i + 1 \in 1..Len(argv) /\ (i + 1) - 1 = i /\ i' - 1 = i + 1
            /\ i' \in 1..(Len(argv) + 1) /\ i \in Nat /\ i + 1 \in Nat /\ i <= i + 1
            /\ \A at \in (i + 1)..(i + 1) : at = i + 1
        BY <1>0, <2>1, <4>1
      <4>5. ~IsOption[i + 1]
        <5>1. IsOption[i + 1] <=> FindOption(argv[i + 1]) # {} /\ ~TakesNext((i + 1) - 1)
          BY <1>0, <4>4, IsOptionHere
        <5> QED BY <4>3, <4>4, <5>1
      <4>6. ParsedTo(exist', value', i + 1)
        <5>1. \A at \in (i + 1)..(i + 1) : ~IsOption[at]
          BY <4>4, <4>5
        <5> QED BY <4>2, <4>4, <5>1, ParsedMore
      <4>7. ~TakesNext(i + 1)
        BY <4>5 DEF TakesNext
      <4> QED BY <1>k, <2>1, <4>1, <4>4, <4>6, <4>7
    <3> QED BY <3>1, <3>3, <3>4, <3>5
  <2> QED BY <1>1, <2>4, <2>5 DEF ParseArg
<1>2. CASE ArgsEnd
  <2>1. /\ pc = "args" /\ i = Len(argv) + 1 /\ argv' = argv /\ i' = i
        /\ exist' = exist /\ value' = value
    BY <1>0, <1>2 DEF ArgsEnd, parserVars
  <2>2. ParsedTo(exist, value, i - 1) /\ ~TakesNext(i - 1)
    BY <2>1 DEF ParseInv
  <2> QED BY <1>0, <1>k, <2>1, <2>2
<1>3. CASE \/ CheckOption \/ CheckMain \/ ReadVersion \/ InitializeServer
           \/ PrepareListenServer \/ UNCHANGED vars
  <2>1. /\ argv' = argv /\ i' = i /\ exist' = exist /\ value' = value
        /\ pc # "exit" /\ (pc = "args" => pc' = "args")
    BY <1>3 DEF CheckOption, CheckMain, ReadVersion, InitializeServer,
                PrepareListenServer, vars, parserVars
  <2>2. /\ ParsedTo(exist, value, i - 1) /\ ~TakesNext(i - 1)
        /\ pc # "args" => i = Len(argv) + 1
    BY <2>1 DEF ParseInv
  <2>3. pc' # "args" => pc # "args"
    BY <2>1
  <2> QED BY <1>0, <1>k, <2>1, <2>2, <2>3
<1> QED BY <1>1, <1>2, <1>3 DEF Next

(***************************************************************************)
(* ParsedRight for every command line: each option has the word behind its *)
(* last occurrence, and is given exactly if it occurs, where a word that   *)
(* is the value of an option is no occurrence (ArgParser::ParseArgument).  *)
(***************************************************************************)
THEOREM OptionsParsed == Spec => []ParsedRight
<1>1. TypeOK /\ ParseInv => ParsedRight
  <2> SUFFICES ASSUME TypeOK, ParseInv, pc \notin {"args", "exit"}, NEW k \in 1..6
               PROVE  LET name == Options[k].name IN
                      /\ exist[name] <=> Occurrences(name) # {}
                      /\ exist[name] /\ Options[k].hasValue =>
                            \E at \in Occurrences(name) :
                               /\ \A l \in Occurrences(name) : l <= at
                               /\ value[name] = argv[at + 1]
    BY OptionFacts DEF ParsedRight
  <2>1. Len(argv) \in Nat /\ i = Len(argv) + 1 /\ ParsedTo(exist, value, i - 1)
    BY WordAssumption, LenProperties DEF TypeOK, ParseInv
  <2>2. i - 1 = Len(argv)
    BY <2>1
  <2>3. \A at : at \in Occurrences(Options[k].name) <=> at \in 1..Len(argv) /\ Occurs(k, at)
    BY DEF Occurrences, Occurs
  <2>4. /\ exist[Options[k].name] <=> \E at \in 1..Len(argv) : Occurs(k, at)
        /\ exist[Options[k].name] /\ Options[k].hasValue =>
              \E at \in 1..Len(argv) : LastOf(k, Len(argv), at)
                                       /\ value[Options[k].name] = argv[at + 1]
    BY <2>1, <2>2 DEF ParsedTo
  <2>5. exist[Options[k].name] <=> Occurrences(Options[k].name) # {}
    BY <2>3, <2>4
  <2>6. ASSUME exist[Options[k].name], Options[k].hasValue
        PROVE  \E at \in Occurrences(Options[k].name) :
                  /\ \A l \in Occurrences(Options[k].name) : l <= at
                  /\ value[Options[k].name] = argv[at + 1]
    <3>1. PICK at \in 1..Len(argv) : LastOf(k, Len(argv), at)
                                     /\ value[Options[k].name] = argv[at + 1]
      BY <2>4, <2>6
    <3>2. at \in Occurrences(Options[k].name)
      BY <2>3, <3>1 DEF LastOf
    <3>3. \A l \in Occurrences(Options[k].name) : l <= at
      BY <2>3, <3>1 DEF LastOf
    <3> QED BY <3>1, <3>2, <3>3
  <2> QED BY <2>5, <2>6
<1> QED BY <1>1, TypeInit, TypeNext, ParseInit, ParseNext, PTL DEF Spec
-----------------------------------------------------------------------------
(* The version without its dots.                                           *)

\* What is kept of the first n characters, from g, what is kept of fewer.
Drop(g, w, n) ==
    IF n = 0 THEN <<>> ELSE IF w[n] = "." THEN g[n - 1] ELSE Append(g[n - 1], w[n])

\* The recursion of Dotless has a solution up to every character.
LEMMA DropExists ==
    ASSUME NEW n \in Nat, NEW w
    PROVE  \E g : g = [k \in 0..n |-> Drop(g, w, k)]
<1> DEFINE S == {m \in Nat : \E g : g = [k \in 0..m |-> Drop(g, w, k)]}
<1>1. 0 \in S
  <2> DEFINE g == [k \in 0..0 |-> <<>>]
  <2>1. ASSUME NEW k \in 0..0 PROVE Drop(g, w, k) = <<>>
    <3>1. k = 0
      OBVIOUS
    <3> QED BY <3>1 DEF Drop
  <2>2. g = [k \in 0..0 |-> Drop(g, w, k)]
    BY <2>1
  <2> HIDE DEF g
  <2> QED BY <2>2
<1>2. ASSUME NEW m \in 0..(n - 1), m \in S PROVE m + 1 \in S
  <2>1. PICK g : g = [k \in 0..m |-> Drop(g, w, k)]
    BY <1>2
  <2> DEFINE h == [k \in 0..(m + 1) |-> IF k = m + 1 THEN Drop(g, w, m + 1) ELSE g[k]]
  <2>2. ASSUME NEW k \in 0..m PROVE h[k] = g[k] /\ g[k] = Drop(g, w, k)
    <3>1. k \in 0..(m + 1) /\ k # m + 1
      BY <1>2
    <3> QED BY <2>1, <3>1
  <2>3. h[m + 1] = Drop(g, w, m + 1)
    <3>1. m + 1 \in 0..(m + 1)
      BY <1>2
    <3> QED BY <3>1
  <2>d. h = [k \in 0..(m + 1) |-> h[k]]
    OBVIOUS
  <2> HIDE DEF h
  <2>4. ASSUME NEW k \in 0..(m + 1) PROVE h[k] = Drop(h, w, k)
    <3>1. Drop(h, w, k) = Drop(g, w, k)
      <4>1. CASE k > 0
        <5>1. k - 1 \in 0..m
          BY <1>2, <4>1
        <5>2. h[k - 1] = g[k - 1]
          BY <2>2, <5>1
        <5> QED BY <5>2 DEF Drop
      <4>2. CASE k = 0
        BY <4>2 DEF Drop
      <4> QED BY <4>1, <4>2
    <3>2. k \in 0..m \/ k = m + 1
      BY <1>2
    <3> QED BY <2>2, <2>3, <3>1, <3>2
  <2>5. h = [k \in 0..(m + 1) |-> Drop(h, w, k)]
    BY <2>d, <2>4
  <2> QED BY <1>2, <2>5
<1> HIDE DEF S
<1>3. n \in S
  <2>1. \A k \in 0..n : k \in S
    BY <1>1, <1>2, UpToN
  <2> QED BY <2>1
<1> QED BY <1>3 DEF S

\* g is what is kept of every beginning of w.
Keeps(g, w) == \A k \in 0..Len(w) : g[k] = Drop(g, w, k)

LEMMA KeepsExists == ASSUME NEW w \in Seq(STRING) PROVE \E g : Keeps(g, w)
<1>1. Len(w) \in Nat
  BY LenProperties
<1>2. PICK g : g = [k \in 0..Len(w) |-> Drop(g, w, k)]
  BY <1>1, DropExists
<1>3. ASSUME NEW k \in 0..Len(w) PROVE g[k] = Drop(g, w, k)
  BY <1>2
<1> QED BY <1>3 DEF Keeps

\* What Dotless is.
LEMMA DotlessIs ==
    ASSUME NEW w \in Seq(STRING)
    PROVE  \E g : Keeps(g, w) /\ Dotless(w) = g[Len(w)]
<1> DEFINE P(f) == f = [k \in 0..Len(w) |-> Drop(f, w, k)]
<1>1. Dotless(w) = (CHOOSE f : P(f))[Len(w)]
  BY Zenon DEF Dotless, Drop
<1>2. \E f : P(f)
  <2>1. \A n \in Nat : \E f : f = [k \in 0..n |-> Drop(f, w, k)]
    BY DropExists
  <2>2. Len(w) \in Nat
    BY LenProperties
  <2> QED BY <2>1, <2>2
<1> HIDE DEF P
<1>3. PICK g : g = CHOOSE f : P(f)
  OBVIOUS
<1>4. P(g)
  BY <1>2, <1>3, Zenon
<1>5. Keeps(g, w)
  <2>1. ASSUME NEW k \in 0..Len(w) PROVE g[k] = Drop(g, w, k)
    BY <1>4 DEF P
  <2> QED BY <2>1 DEF Keeps
<1> QED BY <1>1, <1>3, <1>5

\* What is kept is a sequence of characters.
LEMMA KeptType ==
    ASSUME NEW w \in Seq(STRING), NEW g, Keeps(g, w)
    PROVE  \A k \in 0..Len(w) : g[k] \in Seq(STRING) /\ Len(g[k]) \in Nat
<1> DEFINE S == {k \in 0..Len(w) : g[k] \in Seq(STRING)}
<1>0. Len(w) \in Nat
  BY LenProperties
<1>1. 0 \in S
  <2>1. 0 \in 0..Len(w)
    BY <1>0
  <2>2. g[0] = <<>>
    BY <2>1 DEF Keeps, Drop
  <2> QED BY <2>1, <2>2, EmptySeq
<1>2. ASSUME NEW k \in 0..(Len(w) - 1), k \in S PROVE k + 1 \in S
  <2>1. /\ k + 1 \in 1..Len(w) /\ k + 1 \in 0..Len(w) /\ k + 1 # 0
        /\ (k + 1) - 1 = k
    BY <1>0
  <2>2. g[k + 1] = IF w[k + 1] = "." THEN g[k] ELSE Append(g[k], w[k + 1])
    BY <2>1 DEF Keeps, Drop
  <2>3. w[k + 1] \in STRING /\ g[k] \in Seq(STRING)
    BY <1>2, <2>1, ElementOfSeq
  <2>4. Append(g[k], w[k + 1]) \in Seq(STRING)
    BY <2>3, AppendProperties
  <2> QED BY <2>1, <2>2, <2>3, <2>4
<1> HIDE DEF S
<1>3. \A k \in 0..Len(w) : k \in S
  BY <1>0, <1>1, <1>2, UpToN
<1>4. \A k \in 0..Len(w) : g[k] \in Seq(STRING)
  BY <1>3 DEF S
<1> QED BY <1>4, LenProperties

\* Of two words that begin alike, the same is kept of that beginning.
BeginAlike(u, w, n) == n <= Len(u) /\ n <= Len(w) /\ \A k \in 1..n : u[k] = w[k]
LEMMA KeptSame ==
    ASSUME NEW u \in Seq(STRING), NEW w \in Seq(STRING), NEW g, NEW h,
           Keeps(g, u), Keeps(h, w), NEW n \in Nat, BeginAlike(u, w, n)
    PROVE  g[n] = h[n]
<1> DEFINE S == {k \in 0..n : g[k] = h[k]}
<1>0. /\ Len(u) \in Nat /\ Len(w) \in Nat /\ n <= Len(u) /\ n <= Len(w)
      /\ \A k \in 1..n : u[k] = w[k]
  BY LenProperties DEF BeginAlike
<1>1. 0 \in S
  <2>1. 0 \in 0..Len(u) /\ 0 \in 0..Len(w) /\ 0 \in 0..n
    BY <1>0
  <2>2. g[0] = <<>> /\ h[0] = <<>>
    BY <2>1 DEF Keeps, Drop
  <2> QED BY <2>1, <2>2
<1>2. ASSUME NEW k \in 0..(n - 1), k \in S PROVE k + 1 \in S
  <2>1. /\ k + 1 \in 0..Len(u) /\ k + 1 \in 0..Len(w) /\ k + 1 \in 0..n
        /\ k + 1 \in 1..n /\ k + 1 # 0 /\ (k + 1) - 1 = k
    BY <1>0
  <2>2. /\ g[k + 1] = IF u[k + 1] = "." THEN g[k] ELSE Append(g[k], u[k + 1])
        /\ h[k + 1] = IF w[k + 1] = "." THEN h[k] ELSE Append(h[k], w[k + 1])
    BY <2>1 DEF Keeps, Drop
  <2>3. u[k + 1] = w[k + 1] /\ g[k] = h[k]
    BY <1>0, <1>2, <2>1
  <2>4. g[k + 1] = h[k + 1]
    BY <2>2, <2>3, Zenon
  <2> QED BY <2>1, <2>4
<1> HIDE DEF S
<1>3. n \in S
  <2>1. \A k \in 0..n : k \in S
    BY <1>0, <1>1, <1>2, UpToN
  <2> QED BY <1>0, <2>1
<1> QED BY <1>3 DEF S

\* A character appended is the last.
LEMMA OneMoreChar ==
    ASSUME NEW s \in Seq(STRING), NEW c \in STRING, NEW u, u = Append(s, c)
    PROVE  /\ Len(u) = Len(s) + 1
           /\ \A m \in 1..Len(s) : u[m] = s[m]
           /\ u[Len(s) + 1] = c
<1>1. /\ Len(u) = Len(s) + 1
      /\ \A m \in 1..Len(s) : u[m] = s[m]
      /\ u[Len(s) + 1] = c
  BY AppendProperties
<1> QED BY <1>1

\* What is kept past a zero byte begins with what was kept before it, and the byte.
LEMMA KeptPastNul ==
    ASSUME NEW w \in Seq(STRING), NEW g, Keeps(g, w),
           NEW j \in 0..Len(w), NEW k \in 0..Len(w), j < k, w[j + 1] = NUL
    PROVE  /\ Len(g[j]) < Len(g[k])
           /\ \A m \in 1..Len(g[j]) : g[k][m] = g[j][m]
           /\ g[k][Len(g[j]) + 1] = NUL
<1> DEFINE Past(n) == /\ Len(g[j]) < Len(g[n])
                      /\ \A m \in 1..Len(g[j]) : g[n][m] = g[j][m]
                      /\ g[n][Len(g[j]) + 1] = NUL
           T == {n \in Nat : Past(j + 1 + n)}
<1>0. Len(w) \in Nat /\ j \in Nat /\ k \in Nat /\ Len(g[j]) \in Nat
  BY LenProperties, KeptType
<1>1. ASSUME NEW n \in 0..(Len(w) - 1)
      PROVE  /\ g[n] \in Seq(STRING) /\ Len(g[n]) \in Nat /\ w[n + 1] \in STRING
             /\ g[n + 1] = IF w[n + 1] = "." THEN g[n] ELSE Append(g[n], w[n + 1])
  <2>1. n \in 0..Len(w) /\ n + 1 \in 1..Len(w) /\ n + 1 \in 0..Len(w) /\ n + 1 # 0
        /\ (n + 1) - 1 = n
    BY <1>0
  <2>2. g[n] \in Seq(STRING) /\ Len(g[n]) \in Nat
    BY <2>1, KeptType
  <2>3. w[n + 1] \in STRING
    BY <2>1, ElementOfSeq
  <2>4. g[n + 1] = IF w[n + 1] = "." THEN g[n] ELSE Append(g[n], w[n + 1])
    BY <2>1 DEF Keeps, Drop
  <2> QED BY <2>2, <2>3, <2>4
<1>3. Past(j + 1)
  <2>1. j \in 0..(Len(w) - 1)
    BY <1>0
  <2>2. /\ g[j] \in Seq(STRING) /\ w[j + 1] \in STRING
        /\ g[j + 1] = Append(g[j], w[j + 1])
    <3>1. NUL # "."
      BY DEF NUL
    <3> QED BY <1>1, <2>1, <3>1, Zenon
  <2>3. /\ Len(g[j + 1]) = Len(g[j]) + 1
        /\ \A m \in 1..Len(g[j]) : g[j + 1][m] = g[j][m]
        /\ g[j + 1][Len(g[j]) + 1] = w[j + 1]
    BY <2>2, OneMoreChar
  <2> QED BY <1>0, <2>3
<1>4. ASSUME NEW n \in 0..(Len(w) - 1), Past(n) PROVE Past(n + 1)
  <2>1. CASE w[n + 1] = "."
    BY <1>1, <1>4, <2>1
  <2>2. CASE w[n + 1] # "."
    <3>1. /\ g[n + 1] = Append(g[n], w[n + 1]) /\ g[n] \in Seq(STRING)
          /\ Len(g[n]) \in Nat /\ w[n + 1] \in STRING
      BY <1>1, <2>2
    <3>2. /\ Len(g[n + 1]) = Len(g[n]) + 1
          /\ \A m \in 1..Len(g[n]) : g[n + 1][m] = g[n][m]
      BY <3>1, OneMoreChar
    <3>3. \A m \in 1..(Len(g[j]) + 1) : m \in 1..Len(g[n])
      BY <1>0, <1>4, <3>1
    <3>4. Len(g[j]) + 1 \in 1..(Len(g[j]) + 1)
          /\ \A m \in 1..Len(g[j]) : m \in 1..(Len(g[j]) + 1)
      BY <1>0
    <3>5. Len(g[j]) < Len(g[n + 1])
      BY <1>0, <1>4, <3>1, <3>2
    <3>6. \A m \in 1..Len(g[j]) : g[n + 1][m] = g[j][m]
      BY <1>4, <3>2, <3>3, <3>4
    <3>7. g[n + 1][Len(g[j]) + 1] = NUL
      BY <1>4, <3>2, <3>3, <3>4
    <3> QED BY <3>5, <3>6, <3>7
  <2> QED BY <2>1, <2>2
<1> HIDE DEF Past
<1>5. 0 \in T
  <2>1. j + 1 + 0 = j + 1
    BY <1>0
  <2> QED BY <1>3, <2>1
<1>6. ASSUME NEW n \in 0..((k - j - 1) - 1), n \in T PROVE n + 1 \in T
  <2>1. /\ j + 1 + n \in 0..(Len(w) - 1) /\ n + 1 \in Nat
        /\ (j + 1 + n) + 1 = j + 1 + (n + 1)
    BY <1>0
  <2> QED BY <1>4, <1>6, <2>1
<1>7. k - j - 1 \in Nat /\ k - j - 1 \in 0..(k - j - 1) /\ j + 1 + (k - j - 1) = k
  BY <1>0
<1> HIDE DEF T
<1>8. k - j - 1 \in T
  <2>1. \A n \in 0..(k - j - 1) : n \in T
    BY <1>5, <1>6, <1>7, UpToN
  <2> QED BY <1>7, <2>1
<1>9. Past(k)
  BY <1>7, <1>8 DEF T
<1> QED BY <1>9 DEF Past

\* The zero byte is no digit, and neither is what comes behind it read.
LEMMA NulIsNoDigit == NUL \notin Digits(10)
BY DEF NUL, Digits, DigitChars

\* What is kept up to one zero byte and up to another are the same number.
LEMMA SameNumber ==
    ASSUME NEW w \in Seq(STRING), NEW g, Keeps(g, w),
           NEW j \in 0..Len(w), NEW k \in 0..Len(w), j < k, w[j + 1] = NUL
    PROVE  Number(g[j], 10) = Number(g[k], 10)
<1> DEFINE n == Len(g[j])
<1>1. Len(g[j]) \in Nat /\ Len(g[k]) \in Nat
  BY KeptType
<1>2. /\ n < Len(g[k]) /\ \A m \in 1..n : g[k][m] = g[j][m]
      /\ g[k][n + 1] = NUL
  BY KeptPastNul
<1>3. /\ n \in Nat /\ n <= Len(g[j]) /\ n <= Len(g[k]) /\ ~(n < Len(g[j]))
      /\ \A m \in 1..n : g[j][m] = g[k][m]
  BY <1>1, <1>2
<1> HIDE DEF n
<1>4. SameUpTo(g[j], g[k], n)
  BY <1>1, <1>2, <1>3 DEF SameUpTo
<1> QED BY <1>4, NulIsNoDigit, NumberCut

\* Where the loop ends, what it has kept is the number of the version.
LEMMA VersionRead ==
    ASSUME TypeOK, NEW g, Keeps(g, Behind), NEW s \in 0..Len(Behind),
           Behind[s + 1] = NUL
    PROVE  Number(g[s], 10) = Number(Dotless(value["-version"]), 10)
<1> DEFINE v == value["-version"]
           L == Len(v)
<1>1. /\ v \in Seq(STRING) /\ Behind \in Seq(STRING) /\ L \in Nat /\ L <= Len(v)
      /\ Len(memory) \in Nat
      /\ Len(Behind) = L + 1 + Len(memory)
      /\ \A k \in 1..L : Behind[k] = v[k]
      /\ Behind[L + 1] = NUL
  BY BehindType, LenProperties
<1>2. PICK h : Keeps(h, v) /\ Dotless(v) = h[L]
  BY <1>1, DotlessIs
<1> HIDE DEF v, L
<1>3. L \in 0..Len(Behind)
  BY <1>1
<1>4. g[L] = h[L]
  <2>1. BeginAlike(Behind, v, L)
    BY <1>1 DEF BeginAlike
  <2>2. Behind \in Seq(STRING) /\ v \in Seq(STRING) /\ L \in Nat
    BY <1>1
  <2>3. Keeps(h, v)
    BY <1>2
  <2> QED BY <2>1, <2>2, <2>3, KeptSame
<1>5. Number(g[s], 10) = Number(g[L], 10)
  <2>1. s < L \/ s = L \/ L < s
    BY <1>1
  <2>2. CASE s < L
    BY <1>1, <1>3, <2>2, SameNumber
  <2>3. CASE s = L
    BY <2>3
  <2>4. CASE L < s
    BY <1>1, <1>3, <2>4, SameNumber
  <2> QED BY <2>1, <2>2, <2>3, <2>4
<1> QED BY <1>2, <1>4, <1>5 DEF v

\* While the version is read, the buffer holds what was kept of the characters
\* passed; before that it is empty.
VersionInv ==
    /\ pc \in {"args", "check"} => source = 0 /\ temp = <<>>
    /\ pc = "version" => /\ source \in 0..Len(Behind)
                         /\ \E g : Keeps(g, Behind) /\ temp = g[source]
    /\ VersionDigits

\* Every step keeps it.
LEMMA VersionNext == TypeOK /\ VersionInv /\ [Next]_vars => VersionInv'
<1> SUFFICES ASSUME TypeOK, VersionInv, [Next]_vars PROVE VersionInv'
  OBVIOUS
<1> USE DEF parserVars, versionVars
<1>a. ASSUME pc \in {"args", "check"}, pc' \in {"args", "check", "exit"},
             UNCHANGED versionVars
      PROVE  VersionInv'
  BY <1>a DEF VersionInv, VersionDigits
<1>1. CASE ParseArg
  BY <1>1, <1>a DEF ParseArg, NotAnOption, Flag, TakeValue, LackValue
<1>2. CASE ArgsEnd
  BY <1>2, <1>a DEF ArgsEnd
<1>3. CASE CheckOption
  BY <1>3, <1>a DEF CheckOption
<1>4. CASE CheckMain
  <2>1. pc = "check" /\ UNCHANGED <<memory, value, source, temp, versionInt>>
        /\ pc' \in {"exit", "version"} /\ Behind' = Behind
    BY <1>4 DEF CheckMain, Behind
  <2>2. Behind \in Seq(STRING) /\ Len(Behind) \in Nat
    BY BehindType, LenProperties
  <2>3. PICK g : Keeps(g, Behind)
    BY <2>2, KeepsExists
  <2>4. source = 0 /\ temp = <<>> /\ 0 \in 0..Len(Behind)
    BY <2>1, <2>2 DEF VersionInv
  <2>5. temp = g[0]
    BY <2>3, <2>4 DEF Keeps, Drop
  <2>6. \E f : Keeps(f, Behind') /\ temp' = f[source']
    BY <2>1, <2>3, <2>4, <2>5
  <2>7. source' \in 0..Len(Behind')
    BY <2>1, <2>4
  <2>8. pc' \notin {"args", "check", "startup", "prepare", "listening", "ended"}
    BY <2>1
  <2> QED BY <2>6, <2>7, <2>8 DEF VersionInv, VersionDigits
<1>5. CASE ReadVersion
  <2>1. pc = "version" /\ source + 2 <= Len(Behind) /\ source' = source + 1
        /\ UNCHANGED <<memory, value>> /\ Behind' = Behind
    BY <1>5 DEF ReadVersion, Behind
  <2>2. Behind \in Seq(STRING) /\ Len(Behind) \in Nat /\ source \in 0..Len(Behind)
    BY <2>1, BehindType, LenProperties DEF VersionInv
  <2>3. PICK g : Keeps(g, Behind) /\ temp = g[source]
    BY <2>1 DEF VersionInv
  <2>4. /\ source + 1 \in 0..Len(Behind) /\ source + 1 # 0 /\ (source + 1) - 1 = source
        /\ (source + 1) + 1 = source + 2
    BY <2>1, <2>2
  <2>5. g[source + 1] = IF Behind[source + 1] = "." THEN g[source]
                        ELSE Append(g[source], Behind[source + 1])
    BY <2>3, <2>4 DEF Keeps, Drop
  <2>6. temp' = g[source']
    BY <1>5, <2>1, <2>3, <2>5 DEF ReadVersion
  <2>7. source' \in 0..Len(Behind') /\ \E f : Keeps(f, Behind') /\ temp' = f[source']
    BY <2>1, <2>3, <2>4, <2>6
  <2>8. CASE UNCHANGED <<pc, versionInt>>
    BY <2>1, <2>7, <2>8 DEF VersionInv, VersionDigits
  <2>9. CASE /\ Behind[source + 2] = NUL /\ pc' = "startup"
             /\ versionInt' = Number(temp', 10)
    <3>1. Number(g[source + 1], 10) = Number(Dotless(value["-version"]), 10)
      BY <2>3, <2>4, <2>9, VersionRead
    <3>2. versionInt' = Number(Dotless(value'["-version"]), 10)
      BY <2>1, <2>6, <2>9, <3>1
    <3> QED BY <2>9, <3>2 DEF VersionInv, VersionDigits
  <2> QED BY <1>5, <2>8, <2>9 DEF ReadVersion
<1>6. CASE InitializeServer
  BY <1>6 DEF InitializeServer, VersionInv, VersionDigits
<1>7. CASE PrepareListenServer
  BY <1>7 DEF PrepareListenServer, VersionInv, VersionDigits
<1>8. CASE UNCHANGED vars
  BY <1>8 DEF vars, VersionInv, VersionDigits, Behind
<1> QED BY <1>1, <1>2, <1>3, <1>4, <1>5, <1>6, <1>7, <1>8 DEF Next

(***************************************************************************)
(* The version number is that of the version without its dots, whatever    *)
(* the version and whatever lies behind it                                 *)
(* (Server::GetIntVersionFromString).                                      *)
(***************************************************************************)
THEOREM VersionIsRight == Spec => []VersionDigits
<1>1. Init => VersionInv
  BY DEF Init, VersionInv, VersionDigits
<1>2. VersionInv => VersionDigits
  BY DEF VersionInv
<1> QED BY <1>1, <1>2, VersionNext, TypeCorrect, PTL DEF Spec
=============================================================================
