---------------------------- MODULE MCCommandLine ----------------------------
(* Instances of CommandLine for TLC.                                       *)
EXTENDS CommandLine, SequencesExt

MCVersion == <<"1", ".", "3">>
DottedEnd == <<"1", ".">>
MCPort == <<"2", "7">>
HexPort == <<"0", "x", "1", "f">>
PlusPort == <<"+", "2", "7">>
MinusPort == <<"0", "x", "-", "1">>
TwicePort == <<"0", "x", "0", "x", "1", "f">>
LargePort == <<"7", "0", "0", "0", "0">>
MCAddress == <<"ip", ":", "8", "0">>
NoColon == <<"ip">>
Text == <<"t">>

Opt(name) == <<name>>
MCWords == {<<>>, MCVersion, DottedEnd, MCPort, HexPort, LargePort, MCAddress,
            NoColon, Text, PlusPort, MinusPort, TwicePort, <<"-", "1">>, <<"1", "t">>, <<"0", "x">>}
             \cup {Opt(n) : n \in Names}
\* Every command line of at most four words, of which most lack an option.
FewWords == {<<>>, MCPort, Opt("-version"), Opt("-port"), Opt("-rdip"),
             Opt("-mirror"), Opt("-gslt")}
ShortLines == UNION {[1..n -> FewWords] : n \in 0..4}
\* Lines that begin with a version and a port.
LongLines ==
    {<<Opt("-version"), v, Opt("-port"), p>> \o rest :
        v \in {<<>>, MCVersion, DottedEnd, Opt("-vac")},
        p \in {MCPort, HexPort, LargePort, PlusPort, MinusPort, TwicePort, Text, <<"-", "1">>, <<"0", "x">>,
               Opt("-vac")},
        rest \in {<<>>, <<Opt("-mirror")>>, <<Opt("-rdip"), MCAddress>>,
                  <<Opt("-port"), <<"1", "t">>>>,
                  <<Opt("-mirror"), Opt("-rdip"), MCAddress>>,
                  <<Opt("-rdip"), Opt("-mirror")>>,
                  <<Opt("-rdip"), Text, Opt("-rdip"), MCAddress, Opt("-mirror")>>,
                  <<Opt("-rdip"), NoColon, Opt("-mirror")>>}}
MCLines == ShortLines \cup LongLines
MCMemories == {<<"7", NUL>>, <<".", "5", "t", NUL>>}
MCAddresses == {<<"ip">>}
=============================================================================
