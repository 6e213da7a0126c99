---------------------------- MODULE MCServerInfo ----------------------------
EXTENDS ServerInfo

\* info_const.hpp; the characters of the type and the system are their codes.
MCFirst ==
    [protocol |-> 17, name |-> "Tiny csgo server", map |-> "de_tinycsgomap",
     folder |-> "csgo", description |-> "Counter-Strike: Global Offensive",
     max |-> 12, fake |-> 0, type |-> 100, os |-> 119, password |-> FALSE,
     vac |-> TRUE, tag |-> "pure, vac, tiny-csgo-server"]

\* Three servers, with all, with the usual and with no extra data.
AllExtra ==
    [x \in Extras |-> CASE x = "port" -> <<27016>>
                        [] x = "steamid" -> <<"id2">>
                        [] x = "spectator" -> <<27020, "GOTV">>
                        [] x = "tag" -> <<"empty,secure">>
                        [] x = "gameid" -> <<730>>]
Full ==
    [protocol |-> 17, name |-> "crowded", map |-> "de_dust2", folder |-> "csgo",
     description |-> "Counter-Strike", appid |-> 730, players |-> 3, max |-> 255,
     fake |-> 2, type |-> 108, os |-> 108, password |-> 1, vac |-> 0,
     version |-> "1.38.5.5", extra |-> AllExtra]
Usual ==
    [Full EXCEPT !.name = "usual", !.map = "de_nuke", !.max = 1, !.fake = 0,
                 !.password = 0, !.vac = 1,
                 !.extra = [x \in Extras \ {"spectator"} |->
                               IF x = "tag" THEN <<"insecure">> ELSE AllExtra[x]]]
Bare ==
    [Full EXCEPT !.protocol = 48, !.name = "bare", !.max = 0, !.os = 119,
                 !.extra = [x \in {} |-> <<>>]]
MCInfos == {Full, Usual, Bare}
MCStrings == {MCFirst[f] : f \in {"name", "map", "folder", "description", "tag"}}
             \cup UNION {{t.name, t.map, t.folder} : t \in MCInfos}
             \cup {"empty,secure", "insecure", "rubbish"}
\* Behind the header, the operation, the protocol and four strings with their NULs.
MCStraddling ==
    {<<t.name, t.map, t.folder, t.description>> :
        t \in {t \in MCInfos : (6 + Len(t.name) + Len(t.map) + Len(t.folder)
                                  + Len(t.description) + 4) % 4 = 3}}
=============================================================================
