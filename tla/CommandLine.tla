----------------------------- MODULE CommandLine -----------------------------
(***************************************************************************)
(* From the command line to the listener's options: main (src/sv-main.cpp),*)
(* ArgParser (src/src/argparser.hpp), and the two functions of Server      *)
(* (src/src/server.hpp) that read option values further: the version, read *)
(* by the constructor, and the redirect address, read when the listener    *)
(* starts.  A word of the command line is a sequence of characters, in     *)
(* lower case, without blanks; the name of an option counts as one         *)
(* character, and begins with a minus.                                     *)
(***************************************************************************)
EXTENDS Integers, Sequences

CONSTANTS
    Words,          \* the words a command line may hold
    CommandLines,   \* argv, without the program's name
    Addresses,      \* the words make_address_v4 accepts
    Leftovers,      \* what an uninitialized integer may hold
    Memories        \* what may lie behind the version string

Options == <<
    [name |-> "-version", required |-> TRUE,  hasValue |-> TRUE,  number |-> FALSE],
    [name |-> "-port",    required |-> TRUE,  hasValue |-> TRUE,  number |-> TRUE],
    [name |-> "-gslt",    required |-> FALSE, hasValue |-> TRUE,  number |-> FALSE],
    [name |-> "-rdip",    required |-> FALSE, hasValue |-> TRUE,  number |-> FALSE],
    [name |-> "-vac",     required |-> FALSE, hasValue |-> FALSE, number |-> FALSE],
    [name |-> "-mirror",  required |-> FALSE, hasValue |-> FALSE, number |-> FALSE]>>
Names == {Options[k].name : k \in 1..Len(Options)}
FindOption(w) == {k \in 1..Len(Options) : w = <<Options[k].name>>}

NUL == "NUL"
DigitChars == <<"0", "1", "2", "3", "4", "5", "6", "7", "8", "9",
                "a", "b", "c", "d", "e", "f">>
MaxPort == 65535

ASSUME WordAssumption ==
    /\ Words \subseteq Seq(STRING) /\ <<>> \in Words
    /\ CommandLines \subseteq Seq(Words)
ASSUME LeftoverAssumption == Leftovers \subseteq Nat /\ Leftovers # {}
\* Somewhere a character other than a dot comes before a zero byte.
ASSUME MemoryAssumption ==
    Memories \subseteq Seq(STRING) /\ \A m \in Memories : Len(m) > 1
                                        /\ m[Len(m) - 1] # "." /\ m[Len(m)] = NUL

VARIABLES
    pc,             \* where the main thread, and later the listener, is
    argv,
    i,              \* ParseArgument's index into argv
    o,              \* the option it checks
    exist, value,   \* of each option
    port,           \* the int_value of -port
    memory,         \* what lies behind the version
    source,         \* GetIntVersionFromString's source_idx
    temp,           \* and its buffer
    versionInt,     \* m_VersionInt
    redirect        \* m_RedirectIP and m_RedirectPort

\* A definition named X_Y is X with the slip Y in it; the specification uses none
\* of them, and the properties must tell each from the real X.

parserVars == <<i, o, exist, value, port>>
versionVars == <<source, temp, versionInt>>
vars == <<pc, argv, memory, parserVars, versionVars, redirect>>

NoRedirect == [ip |-> <<>>, port |-> 0]

Init ==
    /\ pc = "args" /\ argv \in CommandLines /\ i = 1 /\ o = 1
    /\ exist = [n \in Names |-> FALSE] /\ value = [n \in Names |-> <<>>]
    /\ port = 0
    /\ memory \in Memories
    /\ source = 0 /\ temp = <<>> /\ versionInt = 0
    /\ redirect = NoRedirect

-----------------------------------------------------------------------------
(* Numbers.                                                                *)

\* How many of a word's first characters are digits, and the number they make:
\* what sscanf and atoi read.
Leading(w, base) ==
    LET digits == {DigitChars[k] : k \in 1..base} IN
    CHOOSE n \in 0..Len(w) : /\ \A k \in 1..n : w[k] \in digits
                             /\ n < Len(w) => w[n + 1] \notin digits
Number(w, base) ==
    LET digit(c) == (CHOOSE k \in 1..base : DigitChars[k] = c) - 1
        upTo[n \in 0..Len(w)] ==
            IF n = 0 THEN 0 ELSE base * upTo[n - 1] + digit(w[n])
    IN  upTo[Leading(w, base)]

Hex(w) == Len(w) >= 2 /\ w[1] = "0" /\ w[2] = "x"
Base(w) == IF Hex(w) THEN 16 ELSE 10
NoPrefix(w) == IF Hex(w) THEN SubSeq(w, 3, Len(w)) ELSE w
NoSign(w) == IF w # <<>> /\ w[1] \in {"+", "-"} THEN SubSeq(w, 2, Len(w)) ELSE w
\* Behind the 0x of its format, sscanf takes a sign and an 0x of the number's own.
Figures(w) == IF Hex(w) THEN NoPrefix(NoSign(NoPrefix(w))) ELSE NoSign(w)
Written(w) == Leading(Figures(w), Base(w)) > 0
Minus(w) == LET number == NoPrefix(w) IN number # <<>> /\ number[1] = "-"
\* A conversion that fails leaves the local uninitialized, and a minus wraps the
\* number around to one too wide.
Scanned(w) ==
    IF ~Written(w) THEN Leftovers
    ELSE LET number == Number(Figures(w), Base(w)) IN
         IF Minus(w) /\ number > 0 THEN {MaxPort + 1} ELSE {number}
Negative(w) == w # <<>> /\ w[1] \in {"-"} \cup Names

-----------------------------------------------------------------------------
(* ArgParser::ParseArgument.                                               *)

\* What the next word may be: no option, an option without a value, one with the
\* word that follows it, or one at the end that lacks its value.
NotAnOption_Stays ==
    /\ FindOption(argv[i]) = {}
    /\ UNCHANGED <<pc, i, exist, value>>
NotAnOption ==
    /\ FindOption(argv[i]) = {} /\ i' = i + 1
    /\ UNCHANGED <<pc, exist, value>>
Given(k) == exist' = [exist EXCEPT ![Options[k].name] = TRUE]
Flag(k) ==
    /\ ~Options[k].hasValue /\ Given(k) /\ i' = i + 1
    /\ UNCHANGED <<pc, value>>
TakeValue_Reread(k) ==
    /\ Options[k].hasValue /\ i < Len(argv) /\ Given(k) /\ i' = i + 1
    /\ value' = [value EXCEPT ![Options[k].name] = argv[i + 1]]
    /\ UNCHANGED pc
TakeValue(k) ==
    /\ Options[k].hasValue /\ i < Len(argv) /\ Given(k) /\ i' = i + 2
    /\ value' = [value EXCEPT ![Options[k].name] = argv[i + 1]]
    /\ UNCHANGED pc
LackValue(k) ==
    /\ Options[k].hasValue /\ i = Len(argv) /\ Given(k) /\ pc' = "exit"
    /\ UNCHANGED <<i, value>>

ParseArg ==
    /\ pc = "args" /\ i <= Len(argv)
    /\ \/ NotAnOption
       \/ \E k \in FindOption(argv[i]) : Flag(k) \/ TakeValue(k) \/ LackValue(k)
    /\ UNCHANGED <<o, port, argv, memory, versionVars, redirect>>
ArgsEnd ==
    /\ pc = "args" /\ i > Len(argv)
    /\ pc' = IF argv = <<>> THEN "exit" ELSE "check"
    /\ UNCHANGED <<argv, memory, parserVars, versionVars, redirect>>

\* One option: a required one that is missing and a number that is signed or too
\* large end the program.
CheckOption_NoLimit ==
    /\ pc = "check" /\ o <= Len(Options)
    /\ o' = o + 1
    /\ IF Options[o].number THEN port' \in Scanned(value[Options[o].name])
                            ELSE UNCHANGED port
    /\ UNCHANGED <<pc, i, exist, value, argv, memory, versionVars, redirect>>
CheckOption ==
    /\ pc = "check" /\ o <= Len(Options)
    /\ LET name == Options[o].name IN
       \/ /\ Options[o].required /\ ~exist[name]
          /\ pc' = "exit" /\ UNCHANGED <<o, port>>
       \/ /\ Options[o].required => exist[name]
          /\ ~Options[o].number
          /\ o' = o + 1 /\ UNCHANGED <<pc, port>>
       \/ /\ Options[o].number /\ exist[name]
          /\ ~Negative(value[name])
          /\ port' \in {n \in Scanned(value[name]) : n <= MaxPort}
          /\ o' = o + 1 /\ UNCHANGED pc
       \/ /\ Options[o].number /\ exist[name]
          /\ \/ Negative(value[name])
             \/ \E n \in Scanned(value[name]) : n > MaxPort
          /\ pc' = "exit" /\ UNCHANGED <<o, port>>
    /\ UNCHANGED <<i, exist, value, argv, memory, versionVars, redirect>>

-----------------------------------------------------------------------------
(* main and Server.                                                        *)

CheckMain_Dropped ==
    /\ pc = "check" /\ o > Len(Options)
    /\ pc' = "version"
    /\ UNCHANGED <<argv, memory, parserVars, versionVars, redirect>>
CheckMain ==
    /\ pc = "check" /\ o > Len(Options)
    /\ pc' = IF exist["-mirror"] /\ ~exist["-rdip"] THEN "exit" ELSE "version"
    /\ UNCHANGED <<argv, memory, parserVars, versionVars, redirect>>

\* A turn of GetIntVersionFromString's loop.  The end of the string is only seen
\* after a character that is not a dot.
Behind == value["-version"] \o <<NUL>> \o memory
ReadVersion_SkipsNul ==
    /\ pc = "version" /\ source + 2 <= Len(Behind)
    /\ source' = source + 1
    /\ \/ /\ Behind[source + 1] \in {".", NUL}
          /\ UNCHANGED <<pc, temp, versionInt>>
       \/ /\ Behind[source + 1] \notin {".", NUL}
          /\ temp' = Append(temp, Behind[source + 1])
          /\ IF Behind[source + 2] = NUL
             THEN pc' = "startup" /\ versionInt' = Number(temp', 10)
             ELSE UNCHANGED <<pc, versionInt>>
    /\ UNCHANGED <<argv, memory, parserVars, redirect>>
ReadVersion ==
    /\ pc = "version" /\ source + 2 <= Len(Behind)
    /\ source' = source + 1
    /\ \/ /\ Behind[source + 1] = "."
          /\ UNCHANGED <<pc, temp, versionInt>>
       \/ /\ Behind[source + 1] # "."
          /\ temp' = Append(temp, Behind[source + 1])
          /\ IF Behind[source + 2] = NUL
             THEN pc' = "startup" /\ versionInt' = Number(temp', 10)
             ELSE UNCHANGED <<pc, versionInt>>
    /\ UNCHANGED <<argv, memory, parserVars, redirect>>

\* InitializeServer: the logon (SteamLogon) and the handshake (GCClient).
InitializeServer ==
    /\ pc = "startup"
    /\ pc' \in {"prepare", "exit"}
    /\ UNCHANGED <<argv, memory, parserVars, versionVars, redirect>>

\* ResolveRedirectSocket: the address ends at the first colon, or, without one,
\* at the end, and the port is then read from behind the copy of the word.
Colon(w) == {k \in 1..Len(w) : w[k] = ":"}
ResolveRedirectSocket(w) ==
    IF Colon(w) = {}
    THEN {[ip |-> w, port |-> n % (MaxPort + 1)] : n \in Leftovers}
    ELSE LET k == CHOOSE k \in Colon(w) : \A l \in Colon(w) : k <= l IN
         {[ip |-> SubSeq(w, 1, k - 1),
           port |-> Number(SubSeq(w, k + 1, Len(w)), 10) % (MaxPort + 1)]}

\* PrepareListenServer; a port that is taken and an address that is none throw, and
\* end the coroutine.
PrepareListenServer ==
    /\ pc = "prepare"
    /\ \/ pc' = "ended" /\ UNCHANGED redirect
       \/ /\ ~exist["-mirror"]
          /\ pc' = "listening" /\ UNCHANGED redirect
       \/ /\ exist["-mirror"]
          /\ redirect' \in ResolveRedirectSocket(value["-rdip"])
          /\ pc' = IF redirect'.ip \in Addresses THEN "listening" ELSE "ended"
    /\ UNCHANGED <<argv, memory, parserVars, versionVars>>

-----------------------------------------------------------------------------
Next ==
    \/ ParseArg \/ ArgsEnd \/ CheckOption \/ CheckMain
    \/ ReadVersion \/ InitializeServer \/ PrepareListenServer

Spec == Init /\ [][Next]_vars
\* One thread, which never waits for good.
FairSpec == Spec /\ WF_vars(Next)

-----------------------------------------------------------------------------
(* Properties.                                                             *)

TypeOK ==
    /\ pc \in {"args", "check", "version", "startup", "prepare", "listening",
               "ended", "exit"}
    /\ argv \in CommandLines /\ memory \in Memories
    /\ i \in 1..(Len(argv) + 1) /\ o \in 1..(Len(Options) + 1)
    /\ exist \in [Names -> BOOLEAN] /\ value \in [Names -> Words]
    /\ port \in 0..MaxPort
    /\ source \in Nat /\ temp \in Seq(STRING) /\ versionInt \in Nat
    /\ redirect \in [ip : Seq(STRING), port : 0..MaxPort]

(***************************************************************************)
(* Each option gets the word behind its last occurrence, where a word that *)
(* is itself such a value is no occurrence of an option; and it counts as  *)
(* given exactly if it occurs.  ArgParser::ParseArgument.                  *)
(***************************************************************************)
IsOption[k \in 0..Len(argv)] ==
    /\ k > 0 /\ FindOption(argv[k]) # {}
    /\ ~(IsOption[k - 1] /\ \E f \in FindOption(argv[k - 1]) : Options[f].hasValue)
Occurrences(name) == {k \in 1..Len(argv) : IsOption[k] /\ argv[k] = <<name>>}
ParsedRight ==
    pc \notin {"args", "exit"} =>
        \A k \in 1..Len(Options) :
            LET name == Options[k].name IN
            /\ exist[name] <=> Occurrences(name) # {}
            /\ exist[name] /\ Options[k].hasValue =>
                  \E at \in Occurrences(name) :
                     /\ \A l \in Occurrences(name) : l <= at
                     /\ value[name] = argv[at + 1]

(***************************************************************************)
(* A server that starts has a version and a port, and -mirror with an      *)
(* address to mirror; the port fits the socket's and is the one the last   *)
(* -port names or, if sscanf found no number there, what the uninitialized *)
(* local held.  This is all the listener can assume of its options.        *)
(* ParseArgument and main.                                                 *)
(***************************************************************************)
Accepted == pc \in {"version", "startup", "prepare", "listening", "ended"}
AcceptedComplete ==
    Accepted => /\ exist["-version"] /\ exist["-port"] /\ port <= MaxPort
                /\ ~Negative(value["-port"]) /\ port \in Scanned(value["-port"])
                /\ exist["-mirror"] => exist["-rdip"]

(***************************************************************************)
(* The version number is that of the version without its dots, also if it  *)
(* is empty or ends in a dot, where the loop runs past the end: the zero   *)
(* byte is copied on the way, whatever lies behind.                        *)
(* Server::GetIntVersionFromString.                                        *)
(***************************************************************************)
Dotless(w) ==
    LET upTo[n \in 0..Len(w)] ==
            IF n = 0 THEN <<>>
            ELSE IF w[n] = "." THEN upTo[n - 1] ELSE Append(upTo[n - 1], w[n])
    IN  upTo[Len(w)]
VersionDigits ==
    pc \in {"startup", "prepare", "listening", "ended"} =>
        versionInt = Number(Dotless(value["-version"]), 10)

(***************************************************************************)
(* Every command line leads to a listener or to an end: no word keeps the  *)
(* parser, and no version the constructor, for ever.                       *)
(***************************************************************************)
StartsOrExits == <>(pc \in {"listening", "ended", "exit"})

(***************************************************************************)
(* The parser has a "strict option type check" (argparser.hpp): a server   *)
(* only starts on a port that is a number, never on a word that is none.   *)
(* ArgParser::ParseArgument.                                               *)
(***************************************************************************)
PortIsNumber == Accepted => Written(value["-port"])
=============================================================================
