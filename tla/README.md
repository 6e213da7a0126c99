# tiny-csgo-server in TLA+

tiny-csgo-server shows a game server in the server browser that nobody plays on.
It logs on to Steam, shakes hands with the game coordinator (GC), answers
queries over UDP, turns every player away or redirects them, and with `-mirror`
passes off the information of another server as its own.  This directory holds
its TLA+ models, the TLC configurations that check them, and theorems about them
proved with TLAPS.  Paths below are those of the repository's own `src/`
directory (`server.hpp` is `src/src/server.hpp` here).

## 1. Inventory

| Component | State | Operations | Talks to |
|---|---|---|---|
| UDP listener, `server.hpp` | `m_Buf` (10240 bytes), `m_WriteBuf` and `m_ReadBuf` on it, `m_LastReceivedPacketLength`, the coroutine's position | `PrepareListenServer`, `HandleIncommingPacket`, `ProcessConnectionlessPacket`, `HandleA2sMessage` | clients, the redirect server, Steam (packets), `ServerInfoHolder`, the logon result |
| Mirror coroutine, `server.hpp` | shares `m_Buf` and `m_WriteBuf`; its position | `ProcessA2sRequest`, every 10 s | the redirect server |
| Steam server, `steamauth.hpp` | `m_bLogOnResult`, `m_SteamIDGS` | `InitServer`, `LogOn`, the callbacks `OnLogonSuccess`, `OnLogonFailure`, `OnLoggedOff`, `OnValidateAuthTicketResponse`, `OnGSPolicyResponse` | Steam's client library, which queues callbacks from its own thread |
| Ticket results, `AuthHolder` | `m_AuthList` | `SetAuth`, `GetAuthedPlayersCount` | the callbacks; printed every minute |
| Startup and frames, `sv-main.cpp`, `server.hpp` | - | `main`, `InitializeServer`, `RunFrame`, `PrintAuthedCount` | all the others |
| GC client, `GCClient.hpp` | `m_ReservationCookie`, `m_AsyncReceive`, `m_AsyncRecvRunning`; the thread | `Init`, `SendHello`, `SwitchToAsync`, `OnGCMessageAvailable`, `SendMessageToGC` | the GC, through Steam's message queue |
| Server information, `serverinfo.hpp` | the fields shown in the browser, the saved `A2S_PLAYER` response | accessors, `SaveA2sPlayerResponse` | written by the listener, read by listener and frames |
| Bit buffers, `bitbuf/` | position, word window, overflow flag | `Seek`, `Read*`, `Reset`, `Write*` | `m_Buf` |
| Command line, `argparser.hpp` | the options and their values | `AddOption`, `ParseArgument`, getters | `main`, `Server` |
| Address and version parsing, `server.hpp` | - | `ResolveRedirectSocket`, `GetIntVersionFromString` | the command line |
| Text of a Steam id, generated protobuf code, platform headers, build files | - | - | not modelled |

What makes the code hard:

* **One buffer, two coroutines.**  Every datagram enters and every message
  leaves through `m_Buf`.  The coroutines run on one thread, but each `co_await`
  lets the other run, also between the moment `async_receive_from` has copied a
  datagram and the moment the listener is resumed to read it.
* **Sends that are not over when they are issued.**  `async_send_to` reads
  `m_Buf` when the socket takes the datagram.  A send may also fail, which
  throws out of a coroutine that was spawned detached.
* **A reader that reads ahead.**  `CBitRead::Seek(0)` fetches a whole word at
  once, and it is called before the wait for the next datagram.  Its overflow
  flag is not cleared by it: a client's text that runs to the end of `m_Buf` puts
  the flag up for good, and from then on a number that lies in two words is read
  as 0 and loses the place of what follows.
* **Steam is another thread.**  Callbacks are queued, and run much later; what
  Steam says at once (`BLoggedOn`, `GetSteamID`) may be newer than what the
  callbacks have said so far.
* **Two threads for the GC.**  The main thread shakes hands with retries, then
  hands the queue of messages over to a thread that runs the same code.
* **Timeouts** of the logon (60 waits) and of the handshake (120 hellos).

What makes each component correct:

* listener: every request is answered at most once, in order, to its sender,
  with the right kind of answer, or passed over; what leaves is what was
  composed; Steam gets packets unchanged; connection requests are rejected; no
  datagram is left half handled;
* mirror: the information shown is that of the redirect server and stays so; the
  challenge is echoed; the polling goes on;
* Steam server: the logon result arrives; the identity is the current one; the
  wait ends; ticket results are counted once per player, the latest only;
* GC client: the cookie never goes back; the handshake ends; each status is
  answered by one hello; the session comes back; the server does not listen
  without a cookie;
* command line: each option gets its own value; a server that starts has all it
  needs, and a port that is a number; no command line and no version keeps it from starting or ending;
* server information: what is told is what one reply of the redirect server
  said, and in the end what it says now; a saved list goes out whole; the numbers
  fit together, and so do the replies;
* bit buffers: what is written stays, and nothing is written behind the array; a
  read gives the bits at its position, or is known to have failed; a string is
  read to its end, and to no more.

## 2. Modules

| Module | Models | Proofs |
|---|---|---|
| `QueryService` | abstract: what the listener promises without `-mirror` | `ListenerRefinement` |
| `Listener` | the listener and mirror coroutines, `m_Buf`, the socket, `ServerInfoHolder` as one value | `ListenerProofs` |
| `SteamLogon` | `CSteam3Server`, `AuthHolder`, `InitializeServer`, `RunFrame`; Steam as environment | `SteamLogonProofs` |
| `GCClient` | `GCClient`, the main and the receiving thread; the GC as environment | `GCClientProofs` |
| `CommandLine` | `main`, `ArgParser`, the version and the redirect address | `CommandLineProofs` |
| `ServerInfo` | the fields of `ServerInfoHolder`, the replies made of them, the reports of a frame; the redirect server as environment | `ServerInfoProofs` |
| `BitBuf` | `bf_write`, `bf_read` on `CBitRead`, over one array | `BitBufProofs` (the writer), `BitBufReaderProofs` |
| `MCListener`, `MCSteamLogon`, `MCGCClient`, `MCCommandLine`, `MCServerInfo`, `MCBitBuf` | values for TLC | |

An operator named `X_Y` is the operator `X` with the slip `Y` in it (a guard
dropped, a step swapped).  No specification uses one.  They show that each
property can tell the code from a plausible bug in it.

### Listener

*State.*  `lpc` and `mpc` say at which `co_await` each coroutine is suspended:
`wait` and `received` are the two of `HandleIncommingPacket`, `query` and
`reply` the sends of a handler, `relay` the send of a packet of Steam's.  `buf`
is `m_Buf`; `latch` is the header word `m_ReadBuf` holds since its last
`Seek(0)`, and `overflow` its overflow flag; `cur` is the datagram being handled (`edp` and
`m_LastReceivedPacketLength`); `challenge` is `HandleA2sMessage`'s local;
`sendq` holds sends that the socket has not taken yet; `failed` is the set of
coroutines whose send has ended in an error that they have not seen yet; `out`
and `steamIn` record what has left.

*Data.*  A datagram is at most four cells: header, operation, first field,
rest.  A shorter message leaves the other cells of `buf` as they were, which is
how the code reads stale bytes.  The server information is one value here; its
fields are `ServerInfo`'s.

A text cell `ENDLESS` stands for bytes without a NUL; when it
fills the field and the rest (`RunsOff`), which takes a datagram as long as
`m_Buf`, `ReadString` runs off the end and `overflow` is true from then on.  Of
the numbers the listener reads, those that lie in two words are then wrong.  The
challenge, at byte 5, always does: it is 0 (`ReadChallenge`).  Of the server
information it depends on the lengths of the names whether one does: it is
`MISREAD` or not.  The header, the operation and the player list are read as
before.

*Actions.*  One for each stretch of code between two `co_await`s:
`Start`, `Receive` (the copy by `async_receive_from`), `HandleRedirect` and
`HandleClient` (from resumption to the first send), `ResumeReply`,
`ResumeQuery`, `ResumeRelay`, `ListenerFails`, `MirrorPoll`, `MirrorResumes`;
and `Transmit`, `Arrive`, `LogonResult` for the socket, the network and the
frame that runs Steam's callback.  `Park` is the top of the listener's loop:
`Seek(0)`, then the wait.

*Choices worth knowing.*
`co_spawn` of the mirror coroutine may run it at once or post it; both are in
`Start`.  A coroutine that is left without `co_return` (`A2S_GETCHALLENGE`
before the logon result) returns a `bool` nobody wrote: both values are
possible.  When the listener ends, its socket is destroyed and the queued sends
are aborted; the mirror coroutine is then left with a dangling reference
(`orphaned`), and the model says nothing of it after that.  Errors of
`async_receive_from` are left out: the socket is not connected, and on Windows
the code turns the one that matters off.  `GetNextOutgoingPacket` returns no
empty packet, as 0 means none.

### SteamLogon

`pc` is the main thread: the waits of `LogOn` (`wait`, and `poll` while
callbacks run), the handshake with the GC, then frames (`frame`, and `idle`
between two).  `callbacks` is what Steam has queued; one is dispatched per
step, so Steam may act in between.  `session` and `steamId` are Steam's view, which
`BLoggedOn` and `GetSteamID` return.  `answers` records the last answer
delivered about each user, to compare with `authList`.

The handshake with the GC is one step here; that it ends is
`GCClient!HandshakeEnds`.  No callback runs during it, but Steam goes on, which is
the interesting part.  Without a Steam interface `InitServer` goes on to use a
null pointer: `dead`.  `OnGSPolicyResponse` only prints, and so does
`OnLoggedOff` when the account is taken over: it announces that the instance
"will now shut down", and nothing in the code does that, so in the model, too,
the server runs on.  What a frame reports to Steam and to the GC does not come
back to this state; it is in `ServerInfo`.

### GCClient

`pc[r]` is where each thread is in `SendHello` or in its polling loop; `hand[r]`
is a welcome it has retrieved and whose cookie it has yet to store, so that the
other thread can come in between; `retry[r]` is the local of its `SendHello`.
`IsMessageAvailable` and `RetrieveMessage` are one step: no two receivers ever
poll at the same time (`ThreadInv` in `GCClientProofs`). A failed retrieval may
or may not take the message off the queue. A failed retrieval also ends the
handshake with all its retries left, which is why `ListensWelcomed` excepts it.
`faults`, chosen at the start, are the calls that may fail and whether the GC
may leave hellos unanswered. Cookies are the numbers of the welcomes, so that
"older" has a meaning. `GCInit(TRUE)`, and with it the thread `init`, is code
nobody calls; it is kept as the parameter it is in the code. The reports of
`UpdateGCInformation` share no state with this (what they say is in
`ServerInfo`) and are left out, so what two concurrent calls of `SendMessage` do inside Steam is not modelled.

### CommandLine

One step per word of `argv`, per option checked, and per character of the
version; `i`, `o` and `source` are the loops' indices.  `exist` and `value` are
the fields of each option, `port` is the `int_value` of `-port`, the only
option that is a number.  A word is a sequence of characters in lower case,
without blanks; the name of an option counts as one character.  `sscanf` and
`atoi` read the digits a word begins with (`Leading`, `Number`), `sscanf` behind
a sign, and behind the `0x` of its format behind a sign and an `0x` of the
number's own (`Figures`); a minus there makes a number too wide for a port
(`Scanned`), as numbers themselves do not wrap: words are shorter than that.  A
word without a digit there is no number (`Written`), the local `value` is then not
assigned, and a local that the code does not initialize holds any of
`Leftovers`.  `Behind` is
the version with what follows it in memory: `GetIntVersionFromString` sees the
end of the string only after a character other than a dot, so an empty version
or one that ends in a dot leads it on into `memory`.  That the memory has, at
some point, a zero byte behind a character that is not a dot is assumed; that
the copy fits the 64 bytes of `temp` is not modelled.  The logon and
the handshake are one step, and what the listener then does is `Listener`'s.

### ServerInfo

`info` has the fields of `ServerInfoHolder` one by one, `players` the saved
`A2S_PLAYER` response as a length and whose list it is.  A message is the
sequence of its fields; `TheirReply` lays out an `S2A_INFO_SRC` with any of the
extra data, and `Updated` takes it apart in the order of `HandleA2sMessage`,
where the tag is found behind whatever extra data comes before it.  Numbers have
their widths, and `AsShort` is `WriteShort`, which keeps 15 bits of a number
that is not negative.

`HandleInfo` and `HandlePlayer` are the two branches of `HandleA2sMessage` that
change the information, `RunFrame` the two reports of a frame, `IdArrives` the
logon that gives the server an id.  No `co_await` is inside any of them.  The
redirect server answers, changes, and its replies are lost or overtake each
other.  `options`, chosen at the start, is whether there are `-rdip` and
`-mirror`.  `source` and `tagSource` record the replies that the information and
the tag come from, and `clean` that the former was read with the overflow flag
down.  What the buffer holds behind a truncated reply is `Listener`'s; here the
redirect server's messages are whole and its strings fit.

`ClientOverflows` is what a client's endless text does to the one reader, here at
any moment.  `Misread` is what a reply then becomes.  When the names are so long
that the app id lies in two words (`Straddles`), it is read as 0, its second byte
is taken for the number of players, and the rest of the word that holds it is
skipped: the maximum is read where the type is, and so on up to the version, of
which two characters are taken for the password and VAC; the rest of it is read
to its end, and the flags are in place again.  Versions have two characters or
more.  Among the extra data a port, a Steam id or the spectators' port in front of
the tag may do the same to the tag, which is then `Garbage`, or not.

### BitBuf

The memory is a function from numbers of bits to bits, as long as `m_Buf` and one
word more, in which a write past the end would show.  A write stores one or two
whole words, whose bits behind the value it may spoil (`Put`): the value is not
masked.  `wr` is the writer's position and flag.  `rd` is the reader: the window
(`word`, `avail`), the index of the next word and the flag; it fetches the next
word as soon as the window is empty, and past the end goes through one state in
which a single zero bit is left.  Each of the loops of `WriteString` and
`ReadString` is one step per character.

The writer writes numbers, lists and strings, is reset, or goes back over a
string's end (`SeekBack`, as for the challenge); a datagram is copied to the
start of the array only when the writer is there, as the listener waits only after
`ResetWriteBuffer`; that with `-mirror` a poll may be in the buffer all the same,
and the one overwrites the other, is `Listener`'s subject.  Reader and writer are otherwise free to take turns, as the two
coroutines are.  `want` records what the writer was asked for; `clean`, that the
window's word has not been written to since it was fetched; `lost`, that a read
has failed since the last `Seek(0)`.

### QueryService

The promise: requests are dealt with in the order of arrival; each is answered
at most once, to its sender, with an answer of a kind it asked for, or is passed
over; the service may close.  `Listener` implements it under the mapping at its
end (`Requests`, `AnswerOf`, `Phase`, `Pending`, `Answered`): a request is
pending until its answer has left the socket, and a datagram that is too short
to hold an operation may be answered by any kind, since the code reads the
operation from what the buffer held before.  `listener_plain` checks this on an
instance, `ListenerRefinement!ImplementsService` proves it.

## 3. Runs

| Run | Checks | Shows |
|---|---|---|
| `listener_plain` | `LaterConnectRejected`, `ServesQueries` | no `-mirror`, two clients, every kind of request, sends that are taken late |
| `listener_faults` | `WireIntact`, `SteamIntact`, `ServesEventually` | no `-mirror`, short and connection-oriented packets, failing binds and sends, Steam refusing packets |
| `listener_mirror` | `TypeOK`, `WireIntact`, `ChallengeEchoed`, `MirrorGenuine`, `EachHandled`, `PollsGoOn` | polls interleaved with everything else, and a client whose text has no end; no datagram stays half handled; the polls go on until a send of theirs fails |
| `steam_logon` | `TypeOK`, `ResultOnItsWay`, `IdentityCurrent`, `AuthedCount`, `StartupEnds` | the session changing at any moment |
| `gc` | `TypeOK`, `HelloPerStatus`, `ListensWelcomed`, `NeverOlder`, `Reconnects`, `HandshakeEnds` | every combination of failing sends, failing retrievals and ignored hellos; the GC loses sessions |
| `command_line` | `TypeOK`, `ParsedRight`, `AcceptedComplete`, `VersionDigits`, `StartsOrExits` | every line of up to four words, and longer ones that are nearly right |
| `server_info` | `TypeOK`, `OneSnapshot`, `ListWhole`, `PlayersBelowMax`, `ChallengeAgrees`, `CatchesUp` | a redirect server that changes, with all, the usual and no extra data; lists of every length; the overflow flag put up at any time |
| `bit_buffers` | `TypeOK`, `WrittenKept`, `NothingBehind`, `PositionRight`, `ReadsRight`, `StringRead`, `StringEnds` | five operations in any order, within a word, across words and across the end |

Four runs find the code at odds with what it says:

| Run | Violates | What happens |
|---|---|---|
| `connect_after_other` | `ConnectRejected` | the header compared is that of the previous packet, so a connection request after a packet of another kind is not rejected |
| `connect_during_poll` | `ConnectRejected` | a poll overwrites a received request before it is read; the client gets server information |
| `keeps_updated` | `KeepsUpdated` | once a client's endless text has put up the reader's overflow flag, the mirrored information is misread for good; `README.md:29` promises an update every 10 seconds |
| `port_number` | `PortIsNumber` | `-port t` starts a server at whatever an uninitialized local held; `argparser.hpp:14` speaks of a "strict option type check" |

Two more disagreements can be read off definitions and have no run of their own.
`ResolveRedirectSocket`: the loop ends with `index` at most `len - 1`, so the
check for an address that "Can't resolve" (`server.hpp:477`) never succeeds; an
address without a colon is accepted, at a port read from behind the copy.
`AsShort`: `S2A_INFO_SRC` writes the port as a signed number (`server.hpp:296`),
without its top bit, and a server on port 40000 tells 7232.

`LaterConnectRejected` is what does hold of the first one: without `-mirror`,
and as long as everybody sends connectionless packets, each connection request
but one that comes first of all is rejected.

*Bounds.*
`MaxArrivals` is 3 without `-mirror`, and 2 with it: a datagram is affected by
what the one before it left in `m_Buf` and `latch`, so the third is the first
whose predecessor had a predecessor; with `-mirror` a poll can be that
predecessor. `MaxPolls = 3` is a poll before, one during and one after the
handling of a datagram. Two ids of clients suffice to see an answer go to the
wrong one. Initially `m_Buf` holds what memory held: all else, or a whole query.
`steam_logon` has four changes of the session: connect, lose, fail or connect
again, and once more; two identities; `MaxRetry = 2` where the code has 60, as
the retries only count. Three ticket answers about two users let a user be
answered twice, and changed. `gc` has 2 retries for 120 and up to three
statuses, so that a status can be queued before, during and after the switch to
the thread, and one other message, which may come before the welcome.
`command_line` has every line of up to four words out of seven, which covers
each way an option can take another for its value, and some two hundred lines
that begin with a version and a port and then repeat, omit or mix up the others.
Ports are decimal, hexadecimal, too large, signed, with a doubled `0x`, and no
numbers; versions are
empty, dotted and ending in a dot. `server_info` has two changes between three
descriptions, so that the information can come back to what it was while an
older reply is under way; the app id of one of them lies in two words; their maxima are 0, 1 and 255, the ends of the range;
the lengths of lists are the header's, one less and one more, and around the
size of `m_Buf`. `bit_buffers` has an array of two words of four bytes of two
bits: a number can fill a word, cross into the second and run over the end; a
string of three bytes and its end crosses from one word to the next; a list that
does not fit is among those written. Five operations are enough for: write, go
back, write over, start the reader again and read.

*Deadlock* is not checked: once all bounded inputs are used up the models have
nothing left to do, and the program may stop in several ways (a failed
logon, a listener that ended).  That nothing gets stuck before is what
`EachHandled`, `PollsGoOn`, `ServesEventually`, `StartupEnds`, `HandshakeEnds`,
`Reconnects`, `StartsOrExits`, `CatchesUp` and `StringEnds` say.

*Fairness.*  `Listener`: weak fairness of each coroutine and of the socket.  One
thread runs the event loop, asio runs every handler that is ready, timers fire,
and a UDP socket whose buffer is full drains or reports an error.  Nothing makes
a datagram arrive.  `SteamLogon`: weak fairness of the main thread only; Steam
owes nothing.  `GCClient`: weak fairness of both threads, and that the GC gets
round to every hello; whether it then answers depends on `faults`.  `Reconnects`
says something only where there are none; `HandshakeEnds` holds with all of
them, and needs only that other messages do not come without end (`MaxOthers`).
`CommandLine`: weak fairness of its one thread, which never waits for good: that
the logon and the handshake end is `StartupEnds` and `HandshakeEnds`.
`ServerInfo`: weak fairness of the frames, of the logon and of the redirect
server's answers, since the polls go on (`PollsGoOn`), and strong fairness of
handling each reply: replies are lost, but one that is sent again and again
arrives.  That is about the network, and only `CatchesUp` needs it.  `BitBuf`: a
call that has begun goes on.

`CatchesUp` is about clients none of which puts the overflow flag up;
`KeepsUpdated`, without that condition, is violated under the same fairness.

`MirrorGenuine` holds for redirect servers that send whole messages (an
`S2A_INFO_SRC` with its fields); after a truncated one the code reads on in what
the buffer held before.

## 4. Proofs

All theorems are proved for every value of the constants, from the assumptions
named in the modules: the cells include the constants of the protocol, the
datagrams and packets are messages, `-mirror` implies `-rdip` (`sv-main.cpp`
refuses it otherwise), the redirect server is no client, and bounds are natural
numbers; the redirect server's fields have their widths, `info_const.hpp` has a
place for a player and says the same of VAC twice (as it does); a word has at
least as many bits as a byte and a byte more than one, and `m_Buf` a word.

| Theorem | States |
|---|---|
| `ListenerProofs!TypeCorrect` | `Listener!TypeOK` |
| `ListenerProofs!SendsIntact` | `WireIntact` |
| `ListenerProofs!PacketsIntact` | `SteamIntact` |
| `ListenerProofs!ConnectsRejected` | `LaterConnectRejected` |
| `ListenerProofs!ChallengesEchoed` | `ChallengeEchoed` |
| `ListenerProofs!MirroredTruly` | `MirrorGenuine` |
| `ListenerRefinement!ImplementsService` | `ServesQueries`: the safety of `QueryService` |
| `SteamLogonProofs!TypeCorrect` | `SteamLogon!TypeOK` |
| `SteamLogonProofs!ResultsArrive` | `ResultOnItsWay` |
| `SteamLogonProofs!IdentityKept` | `IdentityCurrent` |
| `SteamLogonProofs!CountCorrect` | `AuthedCount` |
| `GCClientProofs!TypeCorrect` | `GCClient!TypeOK` |
| `GCClientProofs!HellosOwed` | `HelloPerStatus` |
| `GCClientProofs!CookiesInOrder` | `NeverOlder` |
| `GCClientProofs!WelcomeAwaited` | `ListensWelcomed` |
| `CommandLineProofs!TypeCorrect` | `CommandLine!TypeOK` |
| `CommandLineProofs!OptionsComplete` | `AcceptedComplete` |
| `CommandLineProofs!OptionsParsed` | `ParsedRight` |
| `CommandLineProofs!VersionIsRight` | `VersionDigits` |
| `ServerInfoProofs!TypeCorrect` | `ServerInfo!TypeOK` |
| `ServerInfoProofs!Unmixed` | `OneSnapshot` |
| `ServerInfoProofs!ListsWhole` | `ListWhole` |
| `ServerInfoProofs!PlaceLeft` | `PlayersBelowMax` |
| `ServerInfoProofs!NoContradiction` | `ChallengeAgrees` |
| `BitBufProofs!StaysInside` | `NothingBehind` |
| `BitBufProofs!KeepsWritten` | `WrittenKept` |
| `BitBufReaderProofs!TypeCorrect` | `BitBuf!TypeOK` |
| `BitBufReaderProofs!PositionIsRight` | `PositionRight` |
| `BitBufReaderProofs!ReadsAreRight` | `ReadsRight` |
| `BitBufReaderProofs!StringsAreRead` | `StringRead` |

*Listener.*  `WireIntact` speaks of what has left.  It is inductive only with
what is still queued: `WireInv` adds that the listener has a send queued only
while it is suspended on one, and that `m_Buf` still holds that message, or, with
`-mirror`, what a poll left of it (`Holds`).  `SteamInv` adds to it that,
without `-mirror`, a received datagram stays in `m_Buf` until it is handled.
For `ConnectsRejected`, `HeaderInv` says that from the first datagram on
`m_Buf` begins with the connectionless header whenever `Seek(0)` is reached, so
that `latch` holds it from the second on; `ConnectInv` follows the reply of a
connection request from its composition over the queue onto the wire.
`ChallengesEchoed` and `MirroredTruly` have a hypothesis of their own,
`WholeMessages`: the redirect server's datagrams have an operation, and the
field that goes with it if it is a challenge or server information, as in
`listener_mirror`; a shorter one would be read on in what the buffer held
before, and be answered with a stale challenge or shown as information.
`EchoInv` says that a datagram of the redirect server is still in `m_Buf` when
it is handled or has a poll's operation in it, which `HandleA2sMessage` passes
over, and that the local `challenge` outlasts the first of the two sends: so each
request, when it is composed, has the challenge, or 0 if the flag was up when it
was read (`Echoes`).  `WireIntact` then says of what leaves that it is that request
or a poll's query, and `OverflowStays` that a flag once up is up for good, which
keeps the 0 of an earlier request explained.

*Listener implements QueryService.*  The theorem assumes only `~Mirror`, the
case the abstract module is about.  `ServeInv` is `SteamInv`, which keeps the
request being handled in `m_Buf` so that the answer is chosen by its operation,
and `OneSend`: without `-mirror` the listener has at most one send queued, and
none when it waits for a datagram or handles one.  Without the second part a
request could be taken from the head of the queue while the answer to the one
before has yet to leave.  Each action then maps to a step of the service: what
leaves the socket to `Answer` (`Answers`), a datagram that is not answered to
`PassOver`, an arrival to a new request (`NewRequest`), an end of the coroutine
to `Close`, and the rest, with a reply that has to wait, to a stutter.

*SteamLogon.*  `ResultOnItsWay` and `IdentityCurrent` are not inductive: what
happens before the server runs matters.  `LogonInv` says of every state with a
session that a missing result, or an identity that differs from Steam's, has a
`Connected` callback queued.  `AuthInv` says that each user is in `authList`
once, with the last answer; the count then follows by a bijection between the
entries and the users that are authenticated.

*GCClient.*  `ThreadInv` says who runs when: the receiving thread only once the
main thread has switched over, and by then `m_AsyncReceive` is set; so the
thread never enters the handshake's loop.  `HelloInv` adds the one hello that
the thread owes between taking a status and sending.  `OrderInv` says that the
welcomes in the queue are in the order of issue, and that a cookie about to be
stored lies between the one stored and those queued.  `WelcomeInv` says that a
cookie about to be stored is never 0, and that the main thread does not find
`m_AsyncReceive` set before the handshake is over, so that only a welcome, the
last retry or a failed retrieval ends it.

*CommandLine.*  `AcceptedComplete` speaks of the end of the checks; `CheckInv`
says of each point of them that the options already passed are as they must be,
and the port, once passed, one of those `Scanned` gives for its word.  It needs no
assumption about words or memory.  The other theorems are about
recursive functions over words and lines.  What they need of induction comes
from `LeastNatural` (a set of numbers that is not empty has a least one, by
`WFMin`) and `UpToN`; with it each recursion is shown to have a solution
(`IsOptionExists`, `ReadExists`, `DropExists`), and so to be what its definition
says (`IsOptionIs`, `NumberIs`, `DotlessIs`).  `ParseInv` says that the options
before the parser's index are given and have their values as `ParsedRight`
wants (`ParsedTo`), and that the index is never at a value: otherwise a value
that looks like an option would be taken for one.  `VersionInv` says that the
buffer holds what is kept of the characters passed.  The loop may end before,
at or behind the end of the version; `KeptPastNul` shows that wherever it went
past a zero byte it copied that byte, and `NumberCut` that the number ends
there, so that all three are the same number (`SameNumber`).

*ServerInfo.*  `InfoInv` is the type, `OneSnapshot`, that a saved list fits
(`SavedFits`), that without `-mirror` the information is the first, and that the
flag is up if the last reply was not read cleanly (`FlagKept`).  `ReadFacts` says
of both ways to read a reply which fields they take from it.  It
rests on `ReplyFacts`, that the fields of a reply are where `Updated` looks for
them, and this on `PartsJoined`, where the fields of five concatenated parts end
up.  `TypeOK` alone is not inductive: that a tag is a string needs `TagAt` to be
right.

*BitBuf.*  `WriterInv` is about the writer and its memory (`Good`): a write of
any width keeps it, as the two words it stores lie in the array (`WordsFit`,
`NextWordFacts`) and do not reach before its position.  It is proved for one
call (`GoodUBit`, `GoodBit`, `GoodSBit`, `GoodBytes`) and then for each action.
`ReaderInv` adds the reader: its window has at least one bit and, past the end,
exactly one (`Fits`), so that it never runs empty; until a read fails the
position is the window's (`At`), and the window shows the bits of the memory
from there to the end of its word unless that word was written to (`InStep`).
It is proved for one read of any width (`TakeStep`), which takes the window, or
the window and part of the next word.  `StringInv` says that the characters
read since the string began are none of them the end, and that the first of
them are what is stored.

*Only model-checked:* everything that rests on fairness (`EachHandled`,
`PollsGoOn`, `ServesEventually`, `StartupEnds`, `Reconnects`, `HandshakeEnds`,
`StartsOrExits`, `CatchesUp`, `StringEnds`), which is out of the prover's reach.
Every other property of a passing run is a theorem.

## 5. Hazards

`PROJECT.json` lists them with their lines.  Those with properties are covered
by the runs above, violations included.  The others have a note:

* the model says nothing, or cannot: what happens to the mirror coroutine after
  the listener's socket is gone (`server.hpp:73`, undefined behaviour); concurrent
  calls into Steam's interface (`GCClient.hpp:158`), which this code alone cannot
  decide; the shutdown that `OnLoggedOff` announces and nothing performs
  (`steamauth.hpp:312`), on which no state depends;
* the code is exposed, and a property excepts the case: one failed send ends the
  polls for good (`server.hpp:88`, `PollsGoOn`), one failed retrieval ends the
  handshake (`GCClient.hpp:110`, `ListensWelcomed`), a mirrored maximum of 0 gives
  255 players (`serverinfo.hpp:15`, `PlayersBelowMax`), and a Steam that hands out
  packets without end keeps the listener from the socket (`server.hpp:246`, which
  `MaxOutgoing` bounds);
* the disagreements without a run of section 3 (`server.hpp:296` and `477`).

What a datagram that ends before its operation is answered with (`server.hpp:220`)
is covered in part: `ServesQueries` holds the number, the order and the addressee
of the answer, not its kind.

## 6. Not modelled

* The generated protobuf code, about 143,000 of the repository's 151,000 lines of
  C++: it encodes and decodes messages and holds no logic of the server.
* The coordinate, normal, bit-float and variable-length encodings of the bit
  buffers, `CBitWrite`, `SeekRelative` and the copy between buffers, which the
  program does not call.
* How long a text of the redirect server is, other than where its app id lies.
* Lengths of local arrays other than `ReadString`'s and the saved list's: strings
  below 1024 bytes, the version in `temp[64]` and a ticket in its array are
  taken to fit.
* Text: what is printed, `CSteamID::Render`, the texts in replies.
* Platform headers and build files.
* A composition of startup and listener.  The parts share only the logon result
  and the server's id, which change at any moment in each module that reads
  them (`LogonResult`, `IdArrives`), so that composing them would only take
  behaviours away.

## 7. Plan

The modules were built in the order of importance: `Listener` and `QueryService`,
`SteamLogon`, `GCClient`, `CommandLine`, then `ServerInfo` and `BitBuf`, each
with its proofs; then the refinement, the reader of `BitBuf` and the recursive
functions of `CommandLine` were proved.  What could still be done: safety
lemmas behind the liveness properties (what enables the next step of a waiting
coroutine or thread), so that what only TLC checks becomes smaller.
