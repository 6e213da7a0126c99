----------------------------- MODULE MCListener -----------------------------
(* Instances of Listener for TLC.                                          *)
EXTENDS Listener

CONSTANTS c1, c2, r, x, ch, i1, i2, l1

MCCells == {CONN, KEY, TINY, ENDLESS, ZERO, MISREAD, i1, i2, l1, x, ch}
             \cup ReplyOps \cup RequestOps
             \cup ReplyTexts \cup {"A2A_PING"}

Whole == {<<CONN, "A2S_INFO", KEY>>, <<CONN, "A2S_PLAYER", ch>>,
          <<CONN, "A2S_GETCHALLENGE", TINY>>, <<CONN, "C2S_CONNECT">>}
\* Every kind of request, connectionless.
PlainRequests == Whole \cup {<<CONN, "A2S_GETCHALLENGE", x>>,
                             <<CONN, "A2S_INFO", x>>, <<CONN, "A2A_PING">>}
\* Also packets of an established connection, and datagrams cut short.
MixedRequests == {<<CONN, "A2S_INFO", KEY>>, <<CONN, "C2S_CONNECT">>,
                  <<x, "A2S_PLAYER">>, <<CONN>>, <<>>,
                  <<CONN, "A2S_GETCHALLENGE", x>>}
\* With a text that fills m_Buf to its end.
FewRequests == {<<CONN, "A2S_INFO", KEY>>, <<CONN, "C2S_CONNECT">>, <<CONN>>,
                <<CONN, "A2S_INFO", ENDLESS, ENDLESS>>}
ConnectRequests == {<<CONN, "C2S_CONNECT">>}
ConnectOrOther == {<<CONN, "C2S_CONNECT">>, <<x, "A2A_PING">>}

RedirectReplies == {<<CONN, "S2C_CHALLENGE", ch>>,
                    <<CONN, "S2A_INFO_SRC", i2, x>>, <<CONN, "S2A_PLAYER", l1>>,
                    <<CONN, "S2A_PLAYER">>, <<x, "A2A_PING">>}
None == {}
OnePacket == {<<CONN, "A2S_PLAYER", x>>}
ZeroBuf == {[i \in 1..4 |-> x]}
AnyBuf == {[i \in 1..4 |-> x], <<CONN, "A2S_INFO", KEY, x>>}
ConnBuf == {<<CONN, x, x, x>>}
=============================================================================
