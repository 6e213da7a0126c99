----------------------------- MODULE ServerInfo -----------------------------
(***************************************************************************)
(* What the server tells others about itself: ServerInfoHolder in          *)
(* serverinfo.hpp, its update by the redirect server's S2A_INFO_SRC and    *)
(* S2A_PLAYER in HandleA2sMessage, the replies made of it in               *)
(* ProcessConnectionlessPacket, and the details that every frame reports to*)
(* Steam and to the GC.  All run on one thread and none waits in between.  *)
(* How datagrams come and go is Listener's; here a reply of the redirect   *)
(* server may be lost or overtaken by another, and a client may at any time*)
(* put up the overflow flag of the one reader, m_ReadBuf, as it can there. *)
(*                                                                         *)
(* A message is the sequence of its fields: a number, a string or, for the *)
(* extra data flags, the set of what they announce.                        *)
(***************************************************************************)
EXTENDS Integers, Sequences

CONSTANTS
    FirstInfo,      \* info_const.hpp
    AppId,          \* SERVER_APPID
    VacStates,      \* SERVER_VAC_STATES
    Version,        \* the option -version
    Port,           \* the option -port
    SteamId,        \* the id Steam has given the server
    Strings,        \* names, maps, tags and so on, none longer than a read takes
    Straddling,     \* <<name, map, folder, description>> of such lengths that the
                    \* app id behind them lies in two words of the reader
    Garbage,        \* what a string read out of its place gives
    TheirInfos,     \* what the redirect server may say of itself
    Lists,          \* player lists of the redirect server
    Lengths,        \* how long its S2A_PLAYER datagrams may be
    BufSize,        \* bytes of m_Buf, 10240
    ListMax,        \* bytes of m_A2sPlayerResponse, 20480
    None,           \* no message, no list, no details
    MaxChanges      \* bound: changes of the redirect server's information

Extras == {"port", "steamid", "spectator", "tag", "gameid"}
HeaderLen == 5          \* the header and the operation
Pow15 == 32768
Bytes == 0..255
Flag(b) == IF b THEN 1 ELSE 0
InfoRecords ==
    [protocol : Bytes, name : Strings, map : Strings, folder : Strings,
     description : Strings, max : Bytes, fake : Bytes, type : Bytes, os : Bytes,
     password : BOOLEAN, vac : BOOLEAN, tag : Strings]

ASSUME OptionAssumption ==
    /\ Port \in 0..65535 /\ VacStates \in {0, 1}
    /\ VacStates = Flag(FirstInfo.vac)
ASSUME GarbageAssumption == Garbage \in Strings
ASSUME InfoAssumption ==
    /\ FirstInfo \in InfoRecords /\ FirstInfo.max # 0
    /\ \A t \in TheirInfos :
          /\ {t.name, t.map, t.folder} \subseteq Strings
          /\ {t.protocol, t.max, t.fake, t.type, t.os} \subseteq Bytes
          /\ {t.password, t.vac} \subseteq {0, 1}
          /\ DOMAIN t.extra \subseteq Extras
          /\ \A x \in DOMAIN t.extra :
                t.extra[x] = IF x = "spectator"
                             THEN <<t.extra[x][1], t.extra[x][2]>>
                             ELSE <<t.extra[x][1]>>
          /\ "tag" \in DOMAIN t.extra => t.extra["tag"][1] \in Strings
ASSUME SizeAssumption ==
    /\ BufSize \in Nat /\ BufSize > HeaderLen /\ ListMax \in Nat
    /\ Lengths \subseteq Nat /\ MaxChanges \in Nat

VARIABLES
    options,        \* the command line: has it -rdip, and -mirror
    theirs,     \* the redirect server's information
    wire,       \* its S2A_INFO_SRC replies under way
    overflow,   \* m_ReadBuf's m_bOverflow
    info,       \* ServerInfoHolder's fields
    players,    \* its saved S2A_PLAYER response: the length and whose it is
    steam,      \* the details Steam was told last
    gcMap,      \* the map the GC was told last
    idValid,    \* GetGSSteamID().IsValid()
    source,     \* history: the reply that info was last updated by
    tagSource,  \* history: the last of them that had a tag
    clean,      \* history: source was read with the flag down
    changes

vars == <<options, theirs, wire, overflow, info, players, steam, gcMap, idValid,
          source, tagSource, clean, changes>>
theirVars == <<theirs, wire, changes>>
infoVars == <<overflow, info, source, tagSource, clean>>
frameVars == <<steam, gcMap>>

-----------------------------------------------------------------------------
(* S2A_INFO_SRC.                                                           *)

\* WriteShort of a number that is not negative: 15 bits, then the sign.
AsShort(n) == n % Pow15
\* ServerNumClients, a uint8_t.
NumClients_Max(i) == i.max
NumClients(i) == (i.max - 1) % 256

InfoReply(i) ==
    <<i.protocol, i.name, i.map, i.folder, i.description, AsShort(AppId),
      NumClients(i), i.max, i.fake, i.type, i.os, Flag(i.password), Flag(i.vac),
      Version, {"port", "steamid", "gameid", "tag"},
      AsShort(Port), SteamId, i.tag, AppId>>

\* The redirect server's reply: some of the extra data, in the order of A2S_INFO.
TheirReply(t) ==
    LET Extra(x) == IF x \in DOMAIN t.extra THEN t.extra[x] ELSE <<>> IN
    <<t.protocol, t.name, t.map, t.folder, t.description, t.appid, t.players,
      t.max, t.fake, t.type, t.os, t.password, t.vac, t.version, DOMAIN t.extra>>
    \o Extra("port") \o Extra("steamid") \o Extra("spectator") \o Extra("tag")
    \o Extra("gameid")
ASSUME NoneAssumption == \A t \in TheirInfos : TheirReply(t) # None

\* Where the tag is, behind the port, the Steam id and the spectator's port and
\* name, as far as they are there.
TagAt_NoName(m) ==
    16 + (IF "port" \in m[15] THEN 1 ELSE 0)
       + (IF "steamid" \in m[15] THEN 1 ELSE 0)
       + (IF "spectator" \in m[15] THEN 1 ELSE 0)
TagAt(m) ==
    16 + (IF "port" \in m[15] THEN 1 ELSE 0)
       + (IF "steamid" \in m[15] THEN 1 ELSE 0)
       + (IF "spectator" \in m[15] THEN 2 ELSE 0)

\* What HandleA2sMessage makes of a reply, which leaves the description alone, and
\* the tag when there is none.
Updated_Shifted(i, m) ==
    [i EXCEPT !.protocol = m[1], !.name = m[2], !.map = m[3], !.folder = m[4],
              !.max = m[8] - 1, !.fake = m[9], !.type = m[10], !.os = m[11],
              !.password = (m[12] # 0), !.vac = (m[13] # 0),
              !.tag = IF "tag" \in m[15] THEN m[TagAt(m)] ELSE @]
Updated(i, m) ==
    [i EXCEPT !.protocol = m[1], !.name = m[2], !.map = m[3], !.folder = m[4],
              !.max = m[8], !.fake = m[9], !.type = m[10], !.os = m[11],
              !.password = (m[12] # 0), !.vac = (m[13] # 0),
              !.tag = IF "tag" \in m[15] THEN m[TagAt(m)] ELSE @]

\* The same with the overflow flag up: a number that lies in two words is read as
\* 0 and loses the place of what follows.  An app id there moves the next fields
\* on, up to the version, whose first two characters are taken for the password
\* and VAC (it has two: 1.38.5.5); the string after it is read to its end, and the
\* flags are in place again.  A port, a Steam id or a spectator's port, as it lies,
\* leaves the tag in its place or not.
Straddles(m) == <<m[2], m[3], m[4], m[5]>> \in Straddling
Misread(i, m) ==
    LET moved == [Updated(i, m) EXCEPT !.max = m[10], !.fake = m[11],
                                       !.type = m[12], !.os = m[13],
                                       !.password = TRUE, !.vac = TRUE]
        read == IF Straddles(m) THEN moved ELSE Updated(i, m) IN
    {read} \cup
    IF "tag" \in m[15] /\ m[15] \cap {"port", "steamid", "spectator"} # {}
    THEN {[read EXCEPT !.tag = Garbage]} ELSE {}
Read(i, m) == IF overflow THEN Misread(i, m) ELSE {Updated(i, m)}

-----------------------------------------------------------------------------
(* The other replies.                                                      *)

\* The length that is saved of a datagram: m_Buf takes no more than its size, and
\* a datagram shorter than the header makes the difference, which is unsigned, larger
\* than any array.
SavedLength_Whole(len) == IF len < BufSize THEN len ELSE BufSize
SavedLength(len) == (IF len < BufSize THEN len ELSE BufSize) - HeaderLen
Saved(len, l) ==
    IF SavedLength(len) < 0 \/ SavedLength(len) > ListMax THEN players
    ELSE [len |-> SavedLength(len), of |-> l]

\* WriteBytes writes nothing of a list that does not fit.
PlayerReply ==
    IF players.len < 1 THEN <<1, 0, "MaxPlayers", info.max, 3600>>
    ELSE IF HeaderLen + players.len > BufSize THEN <<>>
    ELSE <<players.of>>

\* S2C_CHALLENGE, of what a server without -rdip says of itself.
ChallengeReplies_AlsoRdip ==
    {[vac |-> VacStates, password |-> Flag(info.password),
      lobby |-> IF info.password THEN "friends" ELSE "public"]}
ChallengeReplies ==
    IF options.rdip THEN {}
    ELSE {[vac |-> VacStates, password |-> Flag(info.password),
           lobby |-> IF info.password THEN "friends" ELSE "public"]}

-----------------------------------------------------------------------------
\* main refuses -mirror without -rdip.
Init ==
    /\ options \in [rdip : BOOLEAN, mirror : BOOLEAN]
    /\ options.mirror => options.rdip
    /\ theirs \in TheirInfos /\ wire = {}
    /\ info = FirstInfo /\ players = [len |-> 0, of |-> None]
    /\ steam = None /\ gcMap = None /\ idValid = FALSE
    /\ overflow = FALSE /\ source = None /\ tagSource = None /\ clean = TRUE
    /\ changes = 0

HandleInfo_Once(m) ==
    /\ options.mirror /\ m \in wire /\ source = None
    /\ wire' = wire \ {m}
    /\ info' \in Read(info, m)
    /\ source' = m /\ clean' = ~overflow
    /\ tagSource' = IF "tag" \in m[15] THEN m ELSE tagSource
    /\ UNCHANGED <<options, theirs, changes, overflow, players, frameVars, idValid>>
HandleInfo(m) ==
    /\ options.mirror /\ m \in wire
    /\ wire' = wire \ {m}
    /\ info' \in Read(info, m)
    /\ source' = m /\ clean' = ~overflow
    /\ tagSource' = IF "tag" \in m[15] THEN m ELSE tagSource
    /\ UNCHANGED <<options, theirs, changes, overflow, players, frameVars, idValid>>

\* A client's query or challenge request fills m_Buf, and its string has no end:
\* ReadString puts the flag up, and no Seek(0) takes it down.
ClientOverflows ==
    /\ ~overflow /\ overflow' = TRUE
    /\ UNCHANGED <<options, theirVars, info, source, tagSource, clean, players,
                   frameVars, idValid>>

HandlePlayer ==
    /\ options.mirror
    /\ \E len \in Lengths, l \in Lists : players' = Saved(len, l)
    /\ UNCHANGED <<options, theirVars, infoVars, frameVars, idValid>>

\* What SendUpdatedServerDetails reports.
Details(i) ==
    [folder |-> i.folder, name |-> i.name, description |-> i.description,
     tag |-> i.tag, map |-> i.map, password |-> i.password, max |-> i.max,
     fake |-> i.fake]
\* SendUpdatedServerDetails and UpdateGCInformation, once in a frame.
RunFrame_DetailsOnce ==
    /\ steam' = IF steam = None THEN Details(info) ELSE steam
    /\ gcMap' = IF idValid THEN info.map ELSE gcMap
    /\ UNCHANGED <<options, theirVars, infoVars, players, idValid>>
RunFrame ==
    /\ steam' = Details(info)
    /\ gcMap' = IF idValid THEN info.map ELSE gcMap
    /\ UNCHANGED <<options, theirVars, infoVars, players, idValid>>

\* OnLogonSuccess.
IdArrives ==
    /\ ~idValid /\ idValid' = TRUE
    /\ UNCHANGED <<options, theirVars, infoVars, players, frameVars>>

\* The redirect server answers a poll; its information changes; a reply is lost.
RedirectAnswers ==
    /\ options.mirror
    /\ wire' = wire \cup {TheirReply(theirs)}
    /\ UNCHANGED <<options, theirs, changes, infoVars, players, frameVars, idValid>>
RedirectChanges ==
    /\ changes < MaxChanges /\ changes' = changes + 1
    /\ theirs' \in TheirInfos
    /\ UNCHANGED <<options, wire, infoVars, players, frameVars, idValid>>
ReplyLost ==
    /\ \E m \in wire : wire' = wire \ {m}
    /\ UNCHANGED <<options, theirs, changes, infoVars, players, frameVars, idValid>>

Next ==
    \/ \E m \in wire : HandleInfo(m)
    \/ ClientOverflows \/ HandlePlayer \/ RunFrame \/ IdArrives
    \/ RedirectAnswers \/ RedirectChanges \/ ReplyLost

Spec == Init /\ [][Next]_vars

\* The frames and the polls go on, polls are answered, and an answer that is sent
\* again and again arrives.
FairSpec ==
    /\ Spec /\ WF_vars(RunFrame) /\ WF_vars(IdArrives) /\ WF_vars(RedirectAnswers)
    /\ \A m \in {TheirReply(t) : t \in TheirInfos} : SF_vars(HandleInfo(m))

-----------------------------------------------------------------------------
(* Properties.                                                             *)

TypeOK ==
    /\ options \in [rdip : BOOLEAN, mirror : BOOLEAN]
    /\ theirs \in TheirInfos
    /\ wire \subseteq {TheirReply(t) : t \in TheirInfos}
    /\ overflow \in BOOLEAN /\ clean \in BOOLEAN
    /\ info \in InfoRecords
    /\ players.len \in 0..BufSize /\ players.of \in Lists \cup {None}
    /\ steam = None \/ DOMAIN steam = DOMAIN Details(info)
    /\ gcMap \in Strings \cup {None}
    /\ idValid \in BOOLEAN
    /\ {source, tagSource} \subseteq {TheirReply(t) : t \in TheirInfos} \cup {None}
    /\ changes \in 0..MaxChanges

\* What someone who reads an S2A_INFO_SRC learns from it.
AsRead(m) ==
    [protocol |-> m[1], name |-> m[2], map |-> m[3], folder |-> m[4], max |-> m[8],
     fake |-> m[9], type |-> m[10], os |-> m[11], password |-> m[12], vac |-> m[13]]
\* The tag is the last field but the game id.
TagRead(m) == m[Len(m) - (IF "gameid" \in m[15] THEN 1 ELSE 0)]

(***************************************************************************)
(* Whoever asks a mirroring server is told what one reply of the redirect  *)
(* server said, never a mixture of several, whatever extra data there was; *)
(* only the tag may be that of an earlier reply, the last that had one.    *)
(* With the reader's overflow flag up that is still so of the fields in    *)
(* front of the app id, and of those behind it too unless the app id lies  *)
(* in two words; but not of the tag.                                       *)
(* server.hpp, HandleA2sMessage and ProcessConnectionlessPacket.           *)
(***************************************************************************)
InFront(m) == <<m[1], m[2], m[3], m[4]>>
OneSnapshot ==
    /\ source # None =>
          /\ InFront(InfoReply(info)) = InFront(source)
          /\ clean \/ ~Straddles(source) =>
                AsRead(InfoReply(info)) = AsRead(source)
    /\ clean => info.tag = IF tagSource = None THEN FirstInfo.tag
                           ELSE TagRead(tagSource)

(***************************************************************************)
(* A list that was saved goes out whole: with the header it fits m_Buf,    *)
(* from a datagram of any length, cut or shorter than the header itself.   *)
(* server.hpp, S2A_PLAYER and A2S_PLAYER; SaveA2sPlayerResponse.           *)
(***************************************************************************)
ListWhole == players.len > 0 => PlayerReply = <<players.of>>

(***************************************************************************)
(* The number of players told is below the number of places told, so that  *)
(* there is always one left, unless the redirect server has none at all.   *)
(* serverinfo.hpp, ServerNumClients.                                       *)
(***************************************************************************)
PlayersBelowMax ==
    info.max # 0 => InfoReply(info)[7] < InfoReply(info)[8]

(***************************************************************************)
(* S2C_CHALLENGE, made of constants, and S2A_INFO_SRC, made of the mirrored*)
(* information, never contradict each other about VAC and the password: a  *)
(* server that mirrors has -rdip, and sends no challenge.  server.hpp,     *)
(* A2S_GETCHALLENGE.                                                       *)
(***************************************************************************)
ChallengeAgrees ==
    \A c \in ChallengeReplies : /\ c.password = InfoReply(info)[12]
                                /\ c.vac = InfoReply(info)[13]

(***************************************************************************)
(* Once the redirect server's information stops changing, clients, Steam   *)
(* and the GC are told the same of it for good, although replies are lost  *)
(* or overtake each other, as long as no client's endless text has put up  *)
(* the reader's overflow flag.  The tag is only among it if the redirect   *)
(* server sends one.  server.hpp, HandleA2sMessage and RunFrame.           *)
(***************************************************************************)
ShowsTheirs ==
    LET m == TheirReply(theirs)  r == InfoReply(info) IN
    /\ steam # None
    /\ AsRead(r) = AsRead(m)
    /\ "tag" \in m[15] => TagRead(r) = TagRead(m)
    /\ \A f \in {"name", "map", "folder", "max", "fake"} : steam[f] = AsRead(m)[f]
    /\ steam.tag = TagRead(r) /\ Flag(steam.password) = AsRead(m).password
    /\ gcMap = AsRead(m).map
CatchesUp == options.mirror => <>[]ShowsTheirs \/ <>overflow

(***************************************************************************)
(* The same whatever the clients send: "The duplicated information is      *)
(* updated every 10 seconds", README.md.  server.hpp, HandleA2sMessage;    *)
(* newbitbuf.cpp, CBitRead::Seek.                                          *)
(***************************************************************************)
KeepsUpdated == options.mirror => <>[]ShowsTheirs
=============================================================================
