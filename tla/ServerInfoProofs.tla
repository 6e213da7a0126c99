-------------------------- MODULE ServerInfoProofs --------------------------
(* Theorems about ServerInfo.                                              *)
EXTENDS ServerInfo, SequenceTheorems, TLAPS

-----------------------------------------------------------------------------
(* The redirect server's reply, field by field.                            *)

\* One more part of a message: where the fields are afterwards.
LEMMA PartAdded ==
    ASSUME NEW S, NEW a \in Seq(S), NEW b \in Seq(S)
    PROVE  /\ a \o b \in Seq(S) /\ Len(a \o b) = Len(a) + Len(b)
           /\ \A i \in 1..Len(a) : (a \o b)[i] = a[i]
           /\ \A i \in 1..Len(b) : (a \o b)[Len(a) + i] = b[i]
  BY ConcatProperties, LenProperties

Joined(f, p, q, r, s, u) == f \o p \o q \o r \o s \o u
\* Where the fields of the first and of the fourth of five more parts end up.
InPlace(f, p, q, r, s, u) ==
    LET m == Joined(f, p, q, r, s, u) IN
    /\ Len(m) = Len(f) + Len(p) + Len(q) + Len(r) + Len(s) + Len(u)
    /\ \A i \in 1..Len(f) : m[i] = f[i]
    /\ \A i \in 1..Len(s) : m[Len(f) + Len(p) + Len(q) + Len(r) + i] = s[i]
LEMMA PartsJoined ==
    ASSUME NEW S, NEW f \in Seq(S), NEW p \in Seq(S), NEW q \in Seq(S),
           NEW r \in Seq(S), NEW s \in Seq(S), NEW u \in Seq(S)
    PROVE  InPlace(f, p, q, r, s, u)
<1> DEFINE a == f \o p
           b == a \o q
           c == b \o r
           d == c \o s
           m == d \o u
<1>0. /\ Len(f) \in Nat /\ Len(p) \in Nat /\ Len(q) \in Nat
      /\ Len(r) \in Nat /\ Len(s) \in Nat /\ Len(u) \in Nat
  BY LenProperties
<1>1. a \in Seq(S) /\ Len(a) = Len(f) + Len(p) /\ \A i \in 1..Len(f) : a[i] = f[i]
  BY PartAdded
<1> HIDE DEF a
<1>2. b \in Seq(S) /\ Len(b) = Len(a) + Len(q) /\ \A i \in 1..Len(a) : b[i] = a[i]
  BY <1>1, PartAdded
<1> HIDE DEF b
<1>3. c \in Seq(S) /\ Len(c) = Len(b) + Len(r) /\ \A i \in 1..Len(b) : c[i] = b[i]
  BY <1>2, PartAdded
<1> HIDE DEF c
<1>c. c \in Seq(S)
  BY <1>3
<1>4. /\ d \in Seq(S) /\ Len(d) = Len(c) + Len(s)
      /\ \A i \in 1..Len(c) : d[i] = c[i]
      /\ \A i \in 1..Len(s) : d[Len(c) + i] = s[i]
  <2> HIDE DEF c
  <2>1. /\ c \o s \in Seq(S) /\ Len(c \o s) = Len(c) + Len(s)
        /\ \A i \in 1..Len(c) : (c \o s)[i] = c[i]
        /\ \A i \in 1..Len(s) : (c \o s)[Len(c) + i] = s[i]
    BY <1>c, PartAdded
  <2> QED BY <2>1
<1> HIDE DEF d
<1>d. d \in Seq(S)
  BY <1>4
<1>5. Len(m) = Len(d) + Len(u) /\ \A i \in 1..Len(d) : m[i] = d[i]
  <2>1. Len(d \o u) = Len(d) + Len(u) /\ \A i \in 1..Len(d) : (d \o u)[i] = d[i]
    BY <1>d, PartAdded
  <2> QED BY <2>1
<1> HIDE DEF m
<1>6. Len(m) = Len(f) + Len(p) + Len(q) + Len(r) + Len(s) + Len(u)
  BY <1>0, <1>1, <1>2, <1>3, <1>4, <1>5
<1>7. \A i \in 1..Len(f) : m[i] = f[i]
  BY <1>0, <1>1, <1>2, <1>3, <1>4, <1>5
<1>8. \A i \in 1..Len(s) : m[Len(c) + i] = s[i]
  <2> SUFFICES ASSUME NEW i \in 1..Len(s) PROVE m[Len(c) + i] = s[i]
    OBVIOUS
  <2>1. Len(c) + i \in 1..Len(d)
    BY <1>0, <1>1, <1>2, <1>3, <1>4
  <2> QED BY <2>1, <1>4, <1>5
<1>9. Len(c) = Len(f) + Len(p) + Len(q) + Len(r)
  BY <1>1, <1>2, <1>3
<1> QED BY <1>6, <1>7, <1>8, <1>9 DEF m, d, c, b, a, Joined, InPlace

\* Extra data that is announced takes one place, the spectator's two, and none takes
\* no place.
Part(t, x) == IF x \in DOMAIN t.extra THEN t.extra[x] ELSE <<>>
LEMMA PartFacts ==
    ASSUME NEW t \in TheirInfos, NEW x \in Extras, NEW S,
           x \in DOMAIN t.extra =>
               t.extra[x][1] \in S /\ (x = "spectator" => t.extra[x][2] \in S)
    PROVE  /\ Part(t, x) \in Seq(S)
           /\ x \notin DOMAIN t.extra => Len(Part(t, x)) = 0
           /\ x \in DOMAIN t.extra =>
                 /\ Len(Part(t, x)) = IF x = "spectator" THEN 2 ELSE 1
                 /\ Part(t, x)[1] = t.extra[x][1]
<1>1. CASE x \notin DOMAIN t.extra
  BY <1>1 DEF Part
<1>2. CASE x \in DOMAIN t.extra /\ x = "spectator"
  <2>1. t.extra[x] = <<t.extra[x][1], t.extra[x][2]>>
    BY <1>2, InfoAssumption
  <2> DEFINE a == t.extra[x][1]  b == t.extra[x][2]
  <2>2. a \in S /\ b \in S /\ Part(t, x) = <<a, b>>
    BY <1>2, <2>1 DEF Part
  <2> HIDE DEF a, b
  <2>3. Part(t, x) \in Seq(S) /\ Len(Part(t, x)) = 2 /\ Part(t, x)[1] = a
    BY <2>2
  <2> QED BY <2>3, <1>2 DEF a
<1>3. CASE x \in DOMAIN t.extra /\ x # "spectator"
  <2>1. t.extra[x] = <<t.extra[x][1]>>
    BY <1>3, InfoAssumption
  <2> DEFINE a == t.extra[x][1]
  <2>2. a \in S /\ Part(t, x) = <<a>>
    BY <1>3, <2>1 DEF Part
  <2> HIDE DEF a
  <2>3. Part(t, x) \in Seq(S) /\ Len(Part(t, x)) = 1 /\ Part(t, x)[1] = a
    BY <2>2
  <2> QED BY <2>3, <1>3 DEF a
<1> QED BY <1>1, <1>2, <1>3

\* The fields that come first in every reply.
Fixed(t) ==
    <<t.protocol, t.name, t.map, t.folder, t.description, t.appid, t.players,
      t.max, t.fake, t.type, t.os, t.password, t.vac, t.version, DOMAIN t.extra>>

\* A field is found where HandleA2sMessage reads it, the tag included, whatever
\* other extra data there is.
LEMMA ReplyFacts ==
    ASSUME NEW t \in TheirInfos
    PROVE  LET m == TheirReply(t) IN
           /\ \A i \in 1..15 : m[i] = Fixed(t)[i]
           /\ "tag" \in DOMAIN t.extra => /\ m[TagAt(m)] = t.extra["tag"][1]
                                          /\ TagRead(m) = t.extra["tag"][1]
<1> DEFINE X(x) == {t.extra[x][1], t.extra[x][2]}
           S == {Fixed(t)[i] : i \in 1..15} \cup UNION {X(x) : x \in Extras}
           f == Fixed(t)
           p == Part(t, "port")
           q == Part(t, "steamid")
           r == Part(t, "spectator")
           s == Part(t, "tag")
           u == Part(t, "gameid")
           m == Joined(f, p, q, r, s, u)
<1>1. \A x \in Extras : t.extra[x][1] \in S /\ t.extra[x][2] \in S
  OBVIOUS
<1>2. f \in Seq(S) /\ Len(f) = 15
  <2>1. Len(f) = 15 /\ f = [i \in 1..15 |-> f[i]]
    BY DEF Fixed
  <2>2. \A i \in 1..15 : f[i] \in S
    OBVIOUS
  <2> HIDE DEF f, S
  <2> QED BY <2>1, <2>2
<1>3. ASSUME NEW x \in Extras
      PROVE  /\ Part(t, x) \in Seq(S)
             /\ x \notin DOMAIN t.extra => Len(Part(t, x)) = 0
             /\ x \in DOMAIN t.extra =>
                   /\ Len(Part(t, x)) = IF x = "spectator" THEN 2 ELSE 1
                   /\ Part(t, x)[1] = t.extra[x][1]
  <2> HIDE DEF S
  <2> QED BY <1>1, PartFacts
<1>4. m = TheirReply(t)
  BY DEF TheirReply, Part, Fixed, Joined
<1>5. f[15] = DOMAIN t.extra
  BY DEF Fixed
<1>6. /\ "port" \in Extras /\ "steamid" \in Extras /\ "spectator" \in Extras
      /\ "tag" \in Extras /\ "gameid" \in Extras
  BY DEF Extras
<1>p. p \in Seq(S) /\ Len(p) = IF "port" \in DOMAIN t.extra THEN 1 ELSE 0
  BY <1>3, <1>6
<1>q. q \in Seq(S) /\ Len(q) = IF "steamid" \in DOMAIN t.extra THEN 1 ELSE 0
  BY <1>3, <1>6
<1>r. r \in Seq(S) /\ Len(r) = IF "spectator" \in DOMAIN t.extra THEN 2 ELSE 0
  BY <1>3, <1>6
<1>s. /\ s \in Seq(S)
      /\ "tag" \in DOMAIN t.extra => Len(s) = 1 /\ s[1] = t.extra["tag"][1]
  BY <1>3, <1>6
<1>u. u \in Seq(S) /\ Len(u) = IF "gameid" \in DOMAIN t.extra THEN 1 ELSE 0
  BY <1>3, <1>6
<1> HIDE DEF S, f, p, q, r, s, u
<1>7. /\ Len(m) = 15 + Len(p) + Len(q) + Len(r) + Len(s) + Len(u)
      /\ \A i \in 1..15 : m[i] = f[i]
      /\ \A i \in 1..Len(s) : m[15 + Len(p) + Len(q) + Len(r) + i] = s[i]
  <2>1. /\ Len(m) = Len(f) + Len(p) + Len(q) + Len(r) + Len(s) + Len(u)
        /\ \A i \in 1..Len(f) : m[i] = f[i]
        /\ \A i \in 1..Len(s) : m[Len(f) + Len(p) + Len(q) + Len(r) + i] = s[i]
    <3>1. f \in Seq(S) /\ p \in Seq(S) /\ q \in Seq(S)
      BY <1>2, <1>p, <1>q
    <3>2. r \in Seq(S) /\ s \in Seq(S) /\ u \in Seq(S)
      BY <1>r, <1>s, <1>u
    <3>3. InPlace(f, p, q, r, s, u)
      BY <3>1, <3>2, PartsJoined
    <3> QED BY <3>3 DEF InPlace
  <2> QED BY <2>1, <1>2
<1> HIDE DEF m
<1>8. m[15] = DOMAIN t.extra
  BY <1>5, <1>7
<1>9. ASSUME "tag" \in DOMAIN t.extra
      PROVE  m[TagAt(m)] = t.extra["tag"][1] /\ TagRead(m) = t.extra["tag"][1]
  <2>1. m[16 + Len(p) + Len(q) + Len(r)] = t.extra["tag"][1]
    <3>1. Len(p) \in Nat /\ Len(q) \in Nat /\ Len(r) \in Nat
      BY <1>p, <1>q, <1>r
    <3>2. 15 + Len(p) + Len(q) + Len(r) + 1 = 16 + Len(p) + Len(q) + Len(r)
      BY <3>1
    <3>3. Len(s) = 1 /\ s[1] = t.extra["tag"][1]
      BY <1>s, <1>9
    <3>4. m[15 + Len(p) + Len(q) + Len(r) + 1] = s[1]
      BY <3>3, <1>7
    <3> QED BY <3>2, <3>3, <3>4
  <2>2. TagAt(m) = 16 + Len(p) + Len(q) + Len(r)
    BY <1>8, <1>p, <1>q, <1>r DEF TagAt
  <2>3. Len(m) - (IF "gameid" \in m[15] THEN 1 ELSE 0) = 16 + Len(p) + Len(q) + Len(r)
    <3>1. Len(m) = 16 + Len(p) + Len(q) + Len(r) + Len(u)
      <4>1. Len(p) \in Nat /\ Len(q) \in Nat /\ Len(r) \in Nat /\ Len(u) \in Nat
        BY <1>p, <1>q, <1>r, <1>u
      <4>2. Len(s) = 1
        BY <1>s, <1>9
      <4> QED BY <4>1, <4>2, <1>7
    <3>2. Len(u) = IF "gameid" \in m[15] THEN 1 ELSE 0
      BY <1>8, <1>u
    <3> QED BY <3>1, <3>2, <1>p, <1>q, <1>r
  <2> QED BY <2>1, <2>2, <2>3 DEF TagRead
<1> QED BY <1>4, <1>7, <1>9 DEF f

\* What HandleA2sMessage makes of a reply, its reads exact, is well typed and tells
\* what the reply said.
LEMMA UpdateFacts ==
    ASSUME NEW t \in TheirInfos, NEW i \in InfoRecords
    PROVE  LET m == TheirReply(t)  j == Updated(i, m) IN
           /\ j \in InfoRecords
           /\ InFront(InfoReply(j)) = InFront(m)
           /\ AsRead(InfoReply(j)) = AsRead(m)
           /\ j.tag = IF "tag" \in m[15] THEN TagRead(m) ELSE i.tag
           /\ {m[10], m[11], m[12], m[13]} \subseteq Bytes
<1> DEFINE m == TheirReply(t)
           j == Updated(i, m)
<1>1. /\ m[1] = t.protocol /\ m[2] = t.name /\ m[3] = t.map /\ m[4] = t.folder
      /\ m[8] = t.max /\ m[9] = t.fake /\ m[10] = t.type /\ m[11] = t.os
      /\ m[12] = t.password /\ m[13] = t.vac /\ m[15] = DOMAIN t.extra
  <2>1. \A n \in 1..15 : m[n] = Fixed(t)[n]
    BY ReplyFacts
  <2> HIDE DEF m
  <2>2. /\ m[1] = t.protocol /\ m[2] = t.name /\ m[3] = t.map /\ m[4] = t.folder
    BY <2>1 DEF Fixed
  <2>3. /\ m[8] = t.max /\ m[9] = t.fake /\ m[10] = t.type /\ m[11] = t.os
    BY <2>1 DEF Fixed
  <2>4. m[12] = t.password /\ m[13] = t.vac /\ m[15] = DOMAIN t.extra
    BY <2>1 DEF Fixed
  <2> QED BY <2>2, <2>3, <2>4
<1>2. "tag" \in m[15] => m[TagAt(m)] = TagRead(m) /\ TagRead(m) \in Strings
  <2>1. "tag" \in DOMAIN t.extra => t.extra["tag"][1] \in Strings
    BY InfoAssumption
  <2> QED BY <1>1, <2>1, ReplyFacts
<1> HIDE DEF m
<1>3. /\ m[1] \in Bytes /\ m[8] \in Bytes /\ m[9] \in Bytes /\ m[10] \in Bytes
      /\ m[11] \in Bytes /\ m[2] \in Strings /\ m[3] \in Strings /\ m[4] \in Strings
      /\ m[12] \in {0, 1} /\ m[13] \in {0, 1}
  BY <1>1, InfoAssumption
<1>4. /\ j.protocol = m[1] /\ j.name = m[2] /\ j.map = m[3] /\ j.folder = m[4]
      /\ j.max = m[8] /\ j.fake = m[9] /\ j.type = m[10] /\ j.os = m[11]
  BY DEF Updated, InfoRecords
<1>5. /\ j.password = (m[12] # 0) /\ j.vac = (m[13] # 0)
      /\ j.tag = IF "tag" \in m[15] THEN m[TagAt(m)] ELSE i.tag
  BY DEF Updated, InfoRecords
<1>6. j \in InfoRecords
  <2> DEFINE tag == IF "tag" \in m[15] THEN m[TagAt(m)] ELSE i.tag
             password == m[12] # 0
             vac == m[13] # 0
  <2>1. tag \in Strings
    BY <1>2 DEF InfoRecords
  <2>2. password \in BOOLEAN /\ vac \in BOOLEAN
    OBVIOUS
  <2>3. j = [i EXCEPT !.protocol = m[1], !.name = m[2], !.map = m[3],
                      !.folder = m[4], !.max = m[8], !.fake = m[9],
                      !.type = m[10], !.os = m[11], !.password = password,
                      !.vac = vac, !.tag = tag]
    BY DEF Updated
  <2> HIDE DEF tag, password, vac, j
  <2>4. [i EXCEPT !.protocol = m[1], !.name = m[2], !.map = m[3],
                  !.folder = m[4]] \in InfoRecords
    BY <1>3 DEF InfoRecords
  <2>5. \A k \in InfoRecords :
            [k EXCEPT !.max = m[8], !.fake = m[9], !.type = m[10],
                      !.os = m[11]] \in InfoRecords
    BY <1>3 DEF InfoRecords
  <2>6. \A k \in InfoRecords :
            [k EXCEPT !.password = password, !.vac = vac, !.tag = tag]
                \in InfoRecords
    BY <2>1, <2>2 DEF InfoRecords
  <2> QED BY <2>3, <2>4, <2>5, <2>6
<1>7. Flag(j.password) = m[12] /\ Flag(j.vac) = m[13]
  BY <1>3, <1>5 DEF Flag
<1> HIDE DEF j
<1>8. AsRead(InfoReply(j)) = AsRead(m)
  BY <1>4, <1>7 DEF AsRead, InfoReply
<1>9. InFront(InfoReply(j)) = InFront(m)
  BY <1>4 DEF InFront, InfoReply
<1>10. {m[10], m[11], m[12], m[13]} \subseteq Bytes
  BY <1>3 DEF Bytes
<1> QED BY <1>2, <1>5, <1>6, <1>8, <1>9, <1>10 DEF m, j

\* With the flag up what is made of a reply is still well typed, and the fields in
\* front of the app id are the reply's; the tag aside, all are if the app id lies in
\* one word.
LEMMA ReadFacts ==
    ASSUME NEW t \in TheirInfos, NEW i \in InfoRecords,
           NEW j \in Read(i, TheirReply(t))
    PROVE  LET m == TheirReply(t) IN
           /\ j \in InfoRecords
           /\ InFront(InfoReply(j)) = InFront(m)
           /\ ~overflow \/ ~Straddles(m) => AsRead(InfoReply(j)) = AsRead(m)
           /\ ~overflow => j.tag = IF "tag" \in m[15] THEN TagRead(m) ELSE i.tag
<1> DEFINE m == TheirReply(t)
           u == Updated(i, m)
           moved == [u EXCEPT !.max = m[10], !.fake = m[11], !.type = m[12],
                              !.os = m[13], !.password = TRUE, !.vac = TRUE]
           Told(k) == /\ k \in InfoRecords
                      /\ InFront(InfoReply(k)) = InFront(m)
<1>1. /\ Told(u) /\ AsRead(InfoReply(u)) = AsRead(m)
      /\ u.tag = IF "tag" \in m[15] THEN TagRead(m) ELSE i.tag
      /\ {m[10], m[11], m[12], m[13]} \subseteq Bytes
  BY UpdateFacts
<1>2. CASE j = u
  BY <1>1, <1>2
<1>3. CASE ~overflow
  <2>1. j = u
    BY <1>3 DEF Read
  <2> QED BY <2>1, <1>2
<1>4. CASE overflow
  <2>1. j \in Misread(i, m)
    BY <1>4 DEF Read
  <2>2. IF Straddles(m) THEN j \in {moved, [moved EXCEPT !.tag = Garbage]}
                        ELSE j \in {u, [u EXCEPT !.tag = Garbage]}
    BY <2>1 DEF Misread
  <2> HIDE DEF m, u
  <2>3. ASSUME NEW k \in InfoRecords
        PROVE  /\ [k EXCEPT !.tag = Garbage] \in InfoRecords
               /\ InFront(InfoReply([k EXCEPT !.tag = Garbage])) = InFront(InfoReply(k))
               /\ AsRead(InfoReply([k EXCEPT !.tag = Garbage])) = AsRead(InfoReply(k))
    <3>1. [k EXCEPT !.tag = Garbage] \in InfoRecords
      BY GarbageAssumption DEF InfoRecords
    <3> DEFINE l == [k EXCEPT !.tag = Garbage]
    <3>2. /\ l.protocol = k.protocol /\ l.name = k.name /\ l.map = k.map
          /\ l.folder = k.folder /\ l.max = k.max /\ l.fake = k.fake
          /\ l.type = k.type /\ l.os = k.os /\ l.password = k.password
          /\ l.vac = k.vac
      BY DEF InfoRecords
    <3> HIDE DEF l
    <3>3. InFront(InfoReply(l)) = InFront(InfoReply(k))
      BY <3>2 DEF InFront, InfoReply
    <3>4. AsRead(InfoReply(l)) = AsRead(InfoReply(k))
      BY <3>2 DEF AsRead, InfoReply
    <3> QED BY <3>1, <3>3, <3>4 DEF l
  <2>4. Told(moved)
    <3>1. moved \in InfoRecords
      <4> DEFINE k == [u EXCEPT !.max = m[10], !.fake = m[11], !.type = m[12],
                                !.os = m[13]]
      <4>1. k \in InfoRecords
        BY <1>1 DEF InfoRecords
      <4>2. moved = [k EXCEPT !.password = TRUE, !.vac = TRUE]
        OBVIOUS
      <4> HIDE DEF k, moved
      <4> QED BY <4>1, <4>2 DEF InfoRecords
    <3>2. /\ moved.protocol = u.protocol /\ moved.name = u.name
          /\ moved.map = u.map /\ moved.folder = u.folder
      BY <1>1 DEF InfoRecords
    <3> HIDE DEF moved
    <3>3. InFront(InfoReply(moved)) = InFront(InfoReply(u))
      BY <3>2 DEF InFront, InfoReply
    <3> QED BY <1>1, <3>1, <3>3
  <2> HIDE DEF moved
  <2>5. Told(j)
    BY <1>1, <2>2, <2>3, <2>4
  <2>6. ~Straddles(m) => AsRead(InfoReply(j)) = AsRead(m)
    BY <1>1, <2>2, <2>3
  <2> QED BY <1>4, <2>5, <2>6 DEF m
<1> QED BY <1>3, <1>4

-----------------------------------------------------------------------------
(* The information, the list and the replies.                              *)

\* A saved list has room behind the header; and without -mirror nothing changes.
SavedFits == players.len > 0 => HeaderLen + players.len <= BufSize
OptionsRight == options.mirror => options.rdip
FirstKept == ~options.mirror => info = FirstInfo
\* The flag stays up: a reply read with it up was read since.
FlagKept == ~clean => overflow
InfoInv == TypeOK /\ OneSnapshot /\ SavedFits /\ FirstKept /\ FlagKept

\* The state the server starts in satisfies InfoInv.
LEMMA InfoInit == Init => InfoInv
<1> SUFFICES ASSUME Init PROVE InfoInv
  OBVIOUS
<1>1. TypeOK
  <2>1. 0 \in 0..BufSize /\ 0 \in 0..MaxChanges
    BY SizeAssumption
  <2>2. info \in InfoRecords
    BY InfoAssumption DEF Init
  <2> QED BY <2>1, <2>2 DEF Init, TypeOK
<1>2. OneSnapshot
  BY DEF Init, OneSnapshot
<1>3. SavedFits /\ FirstKept /\ FlagKept
  BY DEF Init, SavedFits, FirstKept, FlagKept
<1> QED BY <1>1, <1>2, <1>3 DEF InfoInv

\* The length of a datagram that is saved leaves room for the header.
LEMMA SavedType ==
    ASSUME TypeOK, SavedFits, NEW len \in Lengths, NEW l \in Lists,
           players' = Saved(len, l)
    PROVE  /\ players'.len \in 0..BufSize /\ players'.of \in Lists \cup {None}
           /\ SavedFits'
<1>1. len \in Nat /\ BufSize \in Nat /\ ListMax \in Nat
  BY SizeAssumption
<1>2. CASE SavedLength(len) < 0 \/ SavedLength(len) > ListMax
  BY <1>2 DEF Saved, SavedFits, TypeOK
<1>3. CASE ~(SavedLength(len) < 0 \/ SavedLength(len) > ListMax)
  <2>1. players' = [len |-> SavedLength(len), of |-> l]
    BY <1>3 DEF Saved
  <2>2. players'.len = SavedLength(len) /\ players'.of = l
    BY <2>1
  <2>3. SavedLength(len) \in 0..BufSize /\ HeaderLen + SavedLength(len) <= BufSize
    BY <1>1, <1>3 DEF SavedLength, HeaderLen
  <2> QED BY <2>2, <2>3 DEF SavedFits
<1> QED BY <1>2, <1>3

\* No step breaks InfoInv.
LEMMA InfoNext == InfoInv /\ [Next]_vars => InfoInv'
<1> SUFFICES ASSUME InfoInv, [Next]_vars PROVE InfoInv'
  OBVIOUS
<1> USE DEF theirVars, infoVars, frameVars
<1>t. TypeOK /\ OneSnapshot /\ SavedFits /\ FirstKept /\ FlagKept
  BY DEF InfoInv
<1>1. ASSUME NEW m \in wire, HandleInfo(m) PROVE InfoInv'
  <2>1. PICK t \in TheirInfos : m = TheirReply(t)
    BY <1>t DEF TypeOK
  <2>2. /\ info \in InfoRecords /\ info' \in Read(info, m) /\ source' = m
        /\ clean' = ~overflow /\ UNCHANGED overflow
    BY <1>1, <1>t DEF HandleInfo, TypeOK
  <2>3. /\ info' \in InfoRecords
        /\ InFront(InfoReply(info')) = InFront(m)
        /\ ~overflow \/ ~Straddles(m) => AsRead(InfoReply(info')) = AsRead(m)
        /\ ~overflow => info'.tag = IF "tag" \in m[15] THEN TagRead(m) ELSE info.tag
    BY <2>1, <2>2, ReadFacts
  <2>4. TypeOK'
    <3>1. clean' \in BOOLEAN
      BY <2>2
    <3> QED BY <1>1, <1>t, <2>1, <2>3, <3>1 DEF HandleInfo, TypeOK, Details
  <2>5. OneSnapshot'
    <3>1. /\ InFront(InfoReply(info')) = InFront(source')
          /\ clean' \/ ~Straddles(source') =>
                AsRead(InfoReply(info')) = AsRead(source')
      BY <2>2, <2>3
    <3>2. CASE ~clean'
      BY <3>1, <3>2 DEF OneSnapshot
    <3>3. CASE clean' /\ "tag" \in m[15]
      <4>1. tagSource' = m /\ info'.tag = TagRead(m)
        BY <1>1, <3>3, <2>2, <2>3 DEF HandleInfo
      <4>2. m # None
        BY <2>1, NoneAssumption
      <4> QED BY <3>1, <4>1, <4>2 DEF OneSnapshot
    <3>4. CASE clean' /\ "tag" \notin m[15]
      <4>1. tagSource' = tagSource /\ info'.tag = info.tag
        BY <1>1, <3>4, <2>2, <2>3 DEF HandleInfo
      <4>2. clean
        BY <2>2, <3>4, <1>t DEF FlagKept
      <4> QED BY <3>1, <4>1, <4>2, <1>t DEF OneSnapshot
    <3> QED BY <3>2, <3>3, <3>4
  <2>6. SavedFits' /\ FirstKept' /\ FlagKept'
    <3>1. SavedFits' /\ FirstKept'
      BY <1>1, <1>t DEF HandleInfo, SavedFits, FirstKept
    <3>2. FlagKept'
      BY <2>2 DEF FlagKept
    <3> QED BY <3>1, <3>2
  <2> QED BY <2>4, <2>5, <2>6 DEF InfoInv
<1>2. CASE HandlePlayer
  <2>1. PICK len \in Lengths, l \in Lists : players' = Saved(len, l)
    BY <1>2 DEF HandlePlayer
  <2>2. /\ players'.len \in 0..BufSize /\ players'.of \in Lists \cup {None}
        /\ SavedFits'
    BY <2>1, <1>t, SavedType
  <2>3. TypeOK'
    BY <1>2, <1>t, <2>2 DEF HandlePlayer, TypeOK, Details
  <2>4. OneSnapshot' /\ FirstKept' /\ FlagKept'
    BY <1>2, <1>t DEF HandlePlayer, OneSnapshot, FirstKept, FlagKept
  <2> QED BY <2>2, <2>3, <2>4 DEF InfoInv
<1>3. CASE RunFrame
  <2>1. TypeOK'
    <3>1. steam' = Details(info) /\ info' = info
      BY <1>3 DEF RunFrame
    <3>2. info.map \in Strings
      BY <1>t DEF TypeOK, InfoRecords
    <3>3. gcMap' \in Strings \cup {None}
      BY <1>3, <1>t, <3>2 DEF RunFrame, TypeOK
    <3> QED BY <1>3, <1>t, <3>1, <3>3 DEF RunFrame, TypeOK
  <2>2. OneSnapshot' /\ SavedFits' /\ FirstKept' /\ FlagKept'
    BY <1>3, <1>t DEF RunFrame, OneSnapshot, SavedFits, FirstKept, FlagKept
  <2> QED BY <2>1, <2>2 DEF InfoInv
<1>4. CASE IdArrives \/ ClientOverflows \/ RedirectAnswers \/ RedirectChanges \/ ReplyLost
  <2>1. TypeOK'
    <3>1. CASE IdArrives
      BY <3>1, <1>t DEF IdArrives, TypeOK, Details
    <3>2. CASE RedirectAnswers
      BY <3>2, <1>t DEF RedirectAnswers, TypeOK, Details
    <3>3. CASE RedirectChanges
      <4>1. changes' \in 0..MaxChanges
        BY <3>3, <1>t, SizeAssumption DEF RedirectChanges, TypeOK
      <4> QED BY <3>3, <4>1, <1>t DEF RedirectChanges, TypeOK, Details
    <3>4. CASE ReplyLost
      BY <3>4, <1>t DEF ReplyLost, TypeOK, Details
    <3>5. CASE ClientOverflows
      BY <3>5, <1>t DEF ClientOverflows, TypeOK, Details
    <3> QED BY <1>4, <3>1, <3>2, <3>3, <3>4, <3>5
  <2>2. OneSnapshot' /\ SavedFits' /\ FirstKept' /\ FlagKept'
    BY <1>4, <1>t DEF IdArrives, ClientOverflows, RedirectAnswers, RedirectChanges,
                      ReplyLost, OneSnapshot, SavedFits, FirstKept, FlagKept
  <2> QED BY <2>1, <2>2 DEF InfoInv
<1>5. CASE UNCHANGED vars
  BY <1>5, <1>t DEF vars, InfoInv, TypeOK, OneSnapshot, SavedFits, FirstKept, FlagKept,
                          Details
<1> QED BY <1>1, <1>2, <1>3, <1>4, <1>5 DEF Next

\* InfoInv holds in every reachable state.
LEMMA InfoInvariant == Spec => []InfoInv
  BY InfoInit, InfoNext, PTL DEF Spec

(***************************************************************************)
(* Every reachable state is well typed: no reply of the redirect server    *)
(* makes a field of the information something else (TypeOK).               *)
(***************************************************************************)
THEOREM TypeCorrect == Spec => []TypeOK
<1>1. InfoInv => TypeOK
  BY DEF InfoInv
<1> QED BY <1>1, InfoInvariant, PTL

(***************************************************************************)
(* The fields in front of the app id are always told as one reply said     *)
(* them; so are the others, unless the reader's overflow flag was up when  *)
(* that reply was read and its app id lay in two words; and until the flag *)
(* is up the tag is that of the last reply with one (OneSnapshot).         *)
(***************************************************************************)
THEOREM Unmixed == Spec => []OneSnapshot
<1>1. InfoInv => OneSnapshot
  BY DEF InfoInv
<1> QED BY <1>1, InfoInvariant, PTL

(***************************************************************************)
(* A saved list goes out whole (ListWhole), whatever the sizes of m_Buf and*)
(* of m_A2sPlayerResponse.                                                 *)
(***************************************************************************)
THEOREM ListsWhole == Spec => []ListWhole
<1>1. InfoInv => ListWhole
  <2> SUFFICES ASSUME InfoInv, players.len > 0 PROVE PlayerReply = <<players.of>>
    BY DEF ListWhole
  <2>1. players.len \in 0..BufSize /\ BufSize \in Nat
    BY SizeAssumption DEF InfoInv, TypeOK
  <2>2. ~(players.len < 1) /\ ~(HeaderLen + players.len > BufSize)
    BY <2>1 DEF InfoInv, SavedFits, HeaderLen
  <2> QED BY <2>2 DEF PlayerReply
<1> QED BY <1>1, InfoInvariant, PTL

(***************************************************************************)
(* There is always a place left for one more player (PlayersBelowMax),     *)
(* whatever number of places the redirect server has, but none at all.     *)
(***************************************************************************)
THEOREM PlaceLeft == Spec => []PlayersBelowMax
<1>1. InfoInv => PlayersBelowMax
  <2> SUFFICES ASSUME InfoInv, info.max # 0
               PROVE  InfoReply(info)[7] < InfoReply(info)[8]
    BY DEF PlayersBelowMax
  <2>1. info.max \in 1..255
    BY DEF InfoInv, TypeOK, InfoRecords, Bytes
  <2>2. InfoReply(info)[7] = NumClients(info) /\ InfoReply(info)[8] = info.max
    BY DEF InfoReply
  <2>3. NumClients(info) < info.max
    BY <2>1 DEF NumClients
  <2> QED BY <2>2, <2>3
<1> QED BY <1>1, InfoInvariant, PTL

(***************************************************************************)
(* The challenge and the information never contradict each other           *)
(* (ChallengeAgrees): only a server without -mirror, whose information is  *)
(* that of info_const.hpp for good, sends challenges.                      *)
(***************************************************************************)
THEOREM NoContradiction == Spec => []ChallengeAgrees
<1>1. OptionsRight => (InfoInv => ChallengeAgrees)
  <2> SUFFICES ASSUME OptionsRight, InfoInv, NEW c \in ChallengeReplies
               PROVE  c.password = InfoReply(info)[12] /\ c.vac = InfoReply(info)[13]
    BY DEF ChallengeAgrees
  <2>1. ~options.rdip /\ c.vac = VacStates /\ c.password = Flag(info.password)
    BY DEF ChallengeReplies
  <2>2. info = FirstInfo
    BY <2>1 DEF OptionsRight, InfoInv, FirstKept
  <2>3. Flag(FirstInfo.vac) = VacStates
    BY OptionAssumption
  <2>4. /\ InfoReply(info)[12] = Flag(info.password)
        /\ InfoReply(info)[13] = Flag(info.vac)
    BY DEF InfoReply
  <2> QED BY <2>1, <2>2, <2>3, <2>4
<1>2. Init => OptionsRight
  BY DEF Init, OptionsRight
<1>3. OptionsRight /\ [Next]_vars => OptionsRight'
  BY DEF OptionsRight, Next, vars, HandleInfo, HandlePlayer, RunFrame, IdArrives,
         ClientOverflows, RedirectAnswers, RedirectChanges, ReplyLost
<1> QED BY <1>1, <1>2, <1>3, InfoInvariant, PTL DEF Spec
=============================================================================
