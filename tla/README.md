# Kayles over UDP: a verification project

TLA+ models of the Kayles server in `src/`, model-checked with TLC and, for the
properties that matter most, proved with TLAPS for every value of the constants.

## 1. The system

| component | source | state | operations |
|---|---|---|---|
| event loop | `kayles_server.cpp` | the socket, one datagram buffer, the template game | start up, receive, time out, sweep stale games, dispatch |
| message handlers | `message_handlers.cpp/.h` | `active_games`, the static `next_game_id` | join, move one, move two, keep alive, give up, wrong message |
| game logic | `game_logic.cpp/.h` | one `GameState`: players, status, board, `max_pawn`, `last_activity` | legality, knocking down, status after a move, packing and printing the row |
| common | `common.cpp/.h` | `AppConfig`, filled once | argument parsing and validation, the clock, 32-bit fields |
| client messages | `client_messages.cpp/.h` | none | a `-m` string becomes a datagram |
| client | `kayles_client.cpp` | a connected socket | start up, send one request, wait for one reply or a timeout, print it |
| error helpers | `err.cpp/.h` | none | `syserr`, `fatal`: print and exit |
| tests | `test_kayles.py` | - | drives a real server over a socket |

How they interact. A client process sends one datagram and waits for one answer.
The server is one thread: `recvfrom` (which returns at the latest after the
timeout of option `-t`), then `remove_timed_out_games`, then one handler, which
reads and writes `active_games` and sends its answer with `sendto`. Handlers
share the map and the id counter and nothing else; game logic works on the
`GameState` it is handed. The clock is read when a game changes (its
`last_activity`) and when games are swept. The client reads the board bytes with
the same `serialize_pawn_row` the server's format is made for, and the 14 bytes
before them by offsets of its own. Both programs parse their options with
`parse_arguments`; the server derives two timeouts from the one it is given, that
of `recvfrom` in microseconds and that of a session in milliseconds.

What is hard here is not threads. It is
* order: which requests, from whom, in which order, reach which game, with a
  sweep that runs before each of them and time that passes in between;
* time: a game at, just below and just beyond its timeout, and a sweep that runs
  only when `recvfrom` returns;
* the sentinel 0, which is at once "no player", "no game" and "waiting";
* `uint8_t` arithmetic on a row of 256 pawns;
* the command line: options in any order, each with a flag, a check and a later
  test of its own, and a timeout converted twice in floating point;
* the layout of a datagram, which client and server each write down for themselves;
* the id counter, which wraps, skips ids in use, and is bounded by a capacity;
* partial failures: a `bad_alloc` in the middle of storing a game, a `sendto`
  that fails after a game was changed.

What makes each component correct:
* start-up: a program starts on the documented command lines and on no other (but
  for a fraction in the timeout: section 6), with the row that was typed and with two timeouts that agree;
* event loop: only silence ends a session, and silence does end it; the server
  answers every request (not always: section 6);
* handlers: at most one game waits; only the player on turn changes a game; a
  correct request is answered with the state it produced, an incorrect one
  changes nothing; ids are not reused back to back; games do not interfere;
* game logic: the moves and the outcome are those of Kayles; an empty board is
  always a won one; the bytes say what the set of pawns says;
* client: what it prints is the board of the game it asked about; its request is
  the one typed, each number cut to its width; the same bytes, repeated by the
  network or sent again by another run, open or change a game once - except a JOIN,
  which may also take the free seat of the game it opened - and no two
  clients are shown contradicting states of one game.

The full list of hazards, with the line where each bites and the properties that
cover it, is in `PROJECT.json`.

## 2. The modules

| module | what it is |
|---|---|
| `GameLogic` | board and turn of one game, as operators; a board is the set of standing pawns |
| `KaylesServer` | the server: event loop, sweep, all handlers, failures; `Init`, `Next`, `Spec` |
| `KaylesServerProperties` | its type invariant, safety, action and liveness properties |
| `KaylesRules` | abstract specification: a hall of tables where Kayles is played |
| `KaylesServerRefinement` | the refinement mapping from the server to `KaylesRules` |
| `KaylesServerClaims` | statements of the documentation the code does not meet |
| `KaylesSilence` | the server with a history variable: how long a game has had no correct message |
| `PawnRow` | the packed board as `initialize_pawn_row` builds it, the server changes it and the client prints it |
| `PawnSet` | abstract specification of `PawnRow`: a row of pawns that fall one at a time |
| `WireFormat` | the bytes of requests and answers: what one side writes and the other reads |
| `ClientMessages` | `serialize_message` of the client: a typed message becomes the bytes of a datagram |
| `KaylesSystem` | the server, runs of the client, and the network between them |
| `StartUp` | both programs before the first datagram: the options, the template board, the socket and its timeout |
| `KaylesServerTypeProofs`, `KaylesServerProofs`, `KaylesSessionProofs`, `KaylesRefinementProofs`, `PawnRowProofs`, `WireFormatProofs`, `KaylesSystemProofs`, `StartUpProofs` | theorems |
| `MCKaylesServer`, `MCKaylesSilence`, `MCKaylesSystem`, `MCStartUp` | instances for TLC: the datagrams clients send, the messages and options people type |

`KaylesServer` extends `WireFormat` (which declares `UINT32_MAX`, the largest
value of a 32-bit field), and that `GameLogic`. `ClientMessages` extends
`WireFormat` too, and `KaylesSystem` extends `KaylesServer` and `ClientMessages`;
`StartUp` instantiates `PawnRow`, `PawnRow` is shown to implement `PawnSet`.

### The server and the code

| variable | code |
|---|---|
| `pc` | where the thread is: `"recvfrom"` (line 284), `"dispatch"` (a datagram was received and stale games swept), `"hung"` (the loop of `any_pawn_left` that does not end), `"exited"` (`syserr`, a crash) |
| `active_games` | the map of the same name: a function from the ids in use to `GameState` records |
| `next_game_id` | the static counter of `handle_join_game` |
| `datagram` | `buffer` and `received_length`: type, length, player, game, pawn |
| `replies` | what the current iteration has sent: not state of the program, but what its clients see |
| `waited`, `uptime` | the clock: time spent in this `recvfrom`, and `steady_clock` itself |

One action is one stretch of the loop. `Receive` is `recvfrom` returning a
datagram together with the sweep that always follows it; `RecvTimeout` is the
`EAGAIN`/`ECONNREFUSED` branch with its sweep; `RecvFails` any other `errno`.
One action per handler (`handle_join_game`, ... and `handle_unknown` for the
rest of `decode_and_verify_message`) contains all its checks, changes and
answers. `Tick` is the passing of time, possible between any two of them.
A reply is a record that holds what the bytes say.

Time is kept as ages: `idle` is now minus `last_activity`. The code only ever
compares an age with the timeout, so ages saturate at `IdleCap > Timeout`.
A game whose copy into the map failed half-way (`torn`) has `last_activity` 0
and so the age of the clock itself: this is why `uptime` is a variable.

Failures are chosen by the constant `Faults`: `"alloc"` (a `bad_alloc` while a
game is stored: the handler catches it, nothing is sent, and the map is as it was
or holds the torn node), `"send"` (a `sendto` fails: the process exits after the
replies sent before), `"recv"`, `"refused"`. Reading the board of a torn game is
undefined behaviour; it goes through the null pointer of an empty vector, so the
process dies (`"exited"`). The endless loop of `any_pawn_left` is formally
undefined too (no side effects); the builds of the repository hang there, and
`"hung"` is the only outcome modelled. With no other thread, nothing races.

### The packed board

`PawnRow` is the module for the bytes that `GameLogic` abstracts from. A byte is
the set of its one-bits; `max_pawn` is cut to a `uint8_t`. `Shown` is the string
a client prints from the bytes and the `max_pawn` of a GAME_STATE; `PawnSet` says
how that string must evolve. The width of a byte, the longest row and the number
of `uint8_t` values are constants, so the proofs do not depend on 8 or 256.

### The wire

`WireFormat` has the layouts as the two sides write them down: `DecodedRequest` is
what the handlers read from a buffer, `send_game_state` and
`handle_wrong_message` the bytes they answer with, `Displayed` what
`receive_and_display_message` prints of such bytes, by its own offsets and with
its own test of what an error is. A byte is a number below `IdxRange`, a 32-bit
field is four of them, most significant first. The board bytes stay packed:
`PawnRow` is about those, and an answer is its head of 14 bytes with the set of
pawns behind it, or with no board at all (a WRONG_MSG, or the GAME_STATE of a torn
game: this is what `boards` tells apart).

### Clients and the network

`ClientMessages` takes a typed message as the sequence of its numbers.
`stoul` throws on what is no number and on what does not fit 64 bits, and both
end the client, so the first is represented by the second; a sign is accepted and
wraps. What passes is cut to 32 bits, and the pawn to 8, and written as bytes.

`KaylesSystem` extends `KaylesServer`. A client is one run of the program:
`ClientSend` is `main` up to the `write`, `ClientReceive` the `read` that returns
an answer, `ClientTimeout` the `read` that does not. Its socket is its own and is
connected, so an answer reaches the run that asked or nobody. The network is the
set `requests` of datagrams ever sent, any of which may be delivered at any time
and any number of times or never, and the set `answers` on their way back.
`Deliver` is `Receive` of the server with the decoded bytes of a datagram,
`Serve` its `Handle` with the encoded answers put on the network, `ServerAlone`
its other steps. `handling` is the buffer and the address of the request the
server has at hand: the handlers copy its first 12 bytes into a WRONG_MSG.
Two history variables serve the properties: `serial` numbers the games opened
under an id, so that a game is told from its successor, and `acted` records which
bytes have opened or changed which game: the bytes and not the run, because
nothing in a datagram tells the copy of a request from the same request typed
again.

### Start-up

`StartUp` runs either program from `main` to its loop. `ParseOption` is one turn
of the `getopt` loop with all its tests, `EndOfOptions` the check that nothing is
missing, `Prepare` the server's template game (or the client's message, which may
end it), `create_sever_socket` and `create_client_socket` the calls that make the
socket, any of which may fail. `given` is a history variable: the options as they
were typed, in order.

The text behind an option is what its conversion makes of it: an integer, a
number with a fraction, NaN, a row of '0' and '1', or anything else; which
characters stand for it is left to `strtol` and `strtod`. A timeout is
counted in half microseconds, so that a `double` just below a whole number of
microseconds is told from that number: multiplying such a number may or may not
round up to the whole, and `Truncated` allows both. That is the only place where
rounding is visible, since the casts that follow throw the fraction away.

## 3. What TLC checks

| run | properties | the question |
|---|---|---|
| `one_table` | `TypeOK`, `SeatsMatchStatus`, `EmptyBoardIsWon`, `RequestContract`, `ImplementsRules` | one game at a time, three pawns, two players and an outsider, every kind of malformed datagram, every failure, any uptime: is each request answered with the truth, and is what is played Kayles? |
| `hall` | `AtMostOneWaiting`, `TornGamesAreNeverServed`, `OnlyTheMoverActs`, `NoLiveSessionIsDropped`, `NewIdIsNotTheLastOne`, `SilentSessionsEnd`, `EveryRequestIsHandled` | two games at once under three ids, up to the capacity and around the wrap of the id counter, with allocations failing: do games, sessions and ids stay apart, and does what should go away go away however busy another game keeps the server, and does the server get done with every request, the search for a free id included? |
| `prompt` | `StaleSessionsEndInTime` | a server never delayed between two system calls: how long can a silent session live? |
| `pawn_row` | `LegalIsShown`, `UnusedBitsAreZero`, `ClientShowsTheBoard` | is the packed board the board? |
| `system` | `PrintsWhatWasAsked`, `ViewsAgree`, `RequestsActOnce` | three runs of the client over a network that loses, delays, reorders and repeats: is what they print, decoded from bytes, about what was typed, do the same bytes act once, and do clients see one truth? |
| `start_up` | `StartsAsDocumented`, `PlaysTheRowGiven`, `SweepsAsOftenAsGamesExpire` | command lines of up to five options, right, wrong, repeated, foreign or missing: which does a program start on, with which board and which timeouts? |

The remaining runs end in a violation; section 6.

Each property of these runs has a mutant: a wrong variant of one definition of
the model (marked "Wrong:" in the modules), with which TLC finds the property
violated. So none of them holds by the shape of the model.

### Bounds

* `IdxRange` (256 values of a `uint8_t`) is 3 or 4. What matters is whether the
  row uses the last value: `MaxPawn = IdxRange - 1` in `prompt` and the two
  runs about it, less in the others. In `system` it is 6, and a 32-bit id is four
  bytes of six values (`UINT32_MAX = 1295`): there it must also tell
  all statuses, and that of an error, apart. Three pawns are enough for a legal and an
  illegal MOVE_2, for a MOVE_2 with a gap, and for a win by either kind of move.
* `UINT32_MAX` is 2 or 3 but in `system`, so the id counter wraps and the capacity
  (`UINT32_MAX - 1` games) is reached all the time.
* `Timeout` is 1 or 2 ticks: ages below, at and above it; `IdleCap` is the first
  age beyond it (`prompt`: twice the timeout and one more, because its property
  tells these apart).
* `StartUptimes` is every age in `one_table` and "long after boot" (`IdleCap`)
  in the others.
* Two players and an outsider: handlers compare ids of two seats and a sender, so
  a third player is every other player. In `prompt`, `silence` and some of the runs of one claim
  both seats are held by one player, which the rules allow.
* `Datagrams` is the union of well-formed requests for the ids, players and pawn
  indices of the instance with one of each way to be malformed (empty, unknown
  type, too short, too long, player 0, game 0).
* `pawn_row`: bytes of three bits and rows of up to eight pawns give one, two and
  three bytes, full and partly used.
* `system`: three runs of the client and four deliveries (`MaxDeliveries`) are what
  it takes to open a game, join it, move and repeat the move; the runs of the
  client differ in nothing but their names, hence the symmetry. Player ids and
  pawns too large, and a negative id, are among the messages typed.
* `start_up`: at most five options (`MaxArguments`), one more than a program has,
  so that a complete line can hold a repeated or a foreign one too. Ports and
  timeouts are the limits, their neighbours outside, a fraction, a word, and a
  number just below a whole number of milliseconds; rows go up to one pawn more
  than `MAX_PAWNS`, which is 8, with bytes of three bits.

Deadlock is checked in `hall`, `system` and the runs of one claim but
`exhausted_join`. It is not where the system may stop: `one_table` and
`exhausted_join` include a process that exits; in `prompt` a hung server stops
time, which passes only in `recvfrom` there; in `pawn_row` the game is over when
the last pawn has fallen; `start_up` ends when the program runs or has given up.

### Fairness

`FairSpec` asks for weak fairness of `RecvTimeout`, `Handle` and `Tick`: the
kernel ends a `recvfrom` whose timeout has passed, the thread runs on, time
passes. Nothing is asked of clients: `Receive` has no fairness, so
`SilentSessionsEnd` covers a server that gets no datagram at all (the timeout of
the socket must do the sweeping) as well as one that never waits long enough for
it (the sweep after each datagram must). `EveryRequestIsHandled` says of the same
server that its thread always comes back to `recvfrom`; it would not if a JOIN found
no free id below the capacity, or if a torn game were served. `PromptSpec` needs no fairness: it forbids
time to pass except in `recvfrom` and up to its timeout, and bounds the age of
every session by two timeouts.

## 4. The abstract specification

`KaylesRules` has tables instead of ids, datagrams and clocks: a table is opened,
joined, played at by the side on turn (one standing pawn, or two standing
neighbours), won by whoever takes the last pawn, forfeited, or abandoned at any
time. `ImplementsRules` is that specification under the mapping `table` of
`KaylesServerRefinement`: a game id is a table, the status is split in phase and
side, a torn game is a table nobody has moved at. Sweeps map to `Abandon`, a
request to one action of its table or to a stutter. It holds for rows of at most
255 pawns, with every failure enabled; on 256 it does not (section 6). When
both seats are held by one player the rules leave open which side a forfeit
loses.

## 5. What is proved

Assumptions: `GameLogicAssumption` (the row that `is_valid_pawn_row` accepts: not
longer than the pawn index has values, first and last pawn standing) and
`ServerAssumption` (at least two game ids, a positive timeout, a cap on ages
beyond it, and the types of the datagrams and faults), and for `PawnRow`
`PawnRowAssumption` (a byte has at least one bit, a row at most as many pawns as
a `uint8_t` has values), for `KaylesSystem` `SystemAssumption` (what a client
sends is among the datagrams the server is sent, typed messages are sequences of
integers, four bytes make a 32-bit field, and the status of an error, 255, is none
of a game's), and for `StartUp` `StartAssumption` (widths are positive, the number
in a text is an integer, a row has a length and its pawns below it). TLC checks each of them in every run of its module. What `GameLogicAssumption` and
`PawnRowAssumption` say of a row is in turn what `TheRowGivenIsPlayed` proves of
a server that has started. A theorem that needs more says so in its statement.

| theorem | property |
|---|---|
| `TypeCorrect` | `TypeOK` |
| `OneWaitingGame` | `AtMostOneWaiting` |
| `SeatsAlwaysMatchStatus` | `SeatsMatchStatus` |
| `EmptyBoardIsAlwaysWon` | `EmptyBoardIsWon` |
| `OnlyTheMoverEverActs` | `OnlyTheMoverActs` |
| `NoLiveSessionIsEverDropped` | `NoLiveSessionIsDropped` |
| `NewIdIsNeverTheLastOne` | `NewIdIsNotTheLastOne` |
| `PackedBoardIsTheBoard` | `ClientShowsTheBoard` |
| `LegalIsAlwaysShown` | `LegalIsShown` |
| `UnusedBitsStayZero` | `UnusedBitsAreZero` |
| `RequestsAreAlwaysAnswered` | `RequestContract` |
| `TornGamesAreNeverEverServed` | `TornGamesAreNeverServed`, if the server starts more than a timeout after boot |
| `TheServiceAlwaysGoesOn` | the safety half of `EveryRequestIsHandled`: the server stays in its loop and, below the capacity, the search for a free id ends; on rows of at most 255 pawns, more than a timeout after boot, with a socket that works |
| `StaleSessionsAlwaysEndInTime` | `StaleSessionsEndInTime` of `PromptSpec`, if allocations do not fail |
| `ServerImplementsRules` | `ImplementsRules`, on rows of at most 255 pawns |
| `ReadsWhatWasWritten` | a 32-bit number written to a datagram is the one read back |
| `TypedFieldsArrive` | the handlers read what was typed, cut to its width |
| `SentStatesArePrinted` | what a client prints of a GAME_STATE is what the server sent |
| `ComplaintsArePrinted` | what a client prints of a WRONG_MSG is its index and the bytes of the request |
| `AlwaysStartsAsDocumented` | `StartsAsDocumented` |
| `SweepsAreAsFrequentAsExpiry` | `SweepsAsOftenAsGamesExpire` |
| `TheRowGivenIsPlayed` | `PlaysTheRowGiven` |
| `RequestsAlwaysActOnce` | `RequestsActOnce` |
| `AlwaysPrintsWhatWasAsked` | `PrintsWhatWasAsked` |
| `ViewsAlwaysAgree` | `ViewsAgree` |
| `SystemRunsTheServer` | every behaviour of `KaylesSystem` is, for the server, one of `KaylesServer` |
| `MoveTwoTakesNeighboursBelow` | the claim `MoveTwoTakesNeighbours`, on rows of at most 255 pawns |
| `IgnoredJoinsLeaveNothing` | the claim `ExhaustedJoinIsIgnored`, if allocations do not fail |
| `OnlyStrangersGetTwoReplies` | `TwoRepliesAreForStrangers`: two answers at most, and two only after a failed lookup |

The argument for the server. `KaylesServerTypeProofs` first shows that each
handler keeps `TypeOK`, and on the way what the handlers do to the map, as one
formula (`Effect`): nothing, or one game changed or created. `KaylesServerProofs`
refines this to five ways a game can change (`Same`, `Seating`, `Playing`,
`Forfeiting`, `Hanging`) and one way it can appear (`Creates`, only when no game
waits). Each theorem is then a case analysis over these, the sweep and `Tick`;
none of them looks at a handler again. `EmptyBoardIsWon` is not inductive by its
first half alone: that a waiting game has its whole row (the second half) is what
makes the board non-empty when the second player sits down. `OneWaitingGame`
needs that a game is created only when `WaitingGames` is empty, and that no
change leads back to `WAITING_FOR_OPPONENT`, which uses the types. `NewIdIs...`
rests on a count: the capacity leaves two ids free, so the counter, which stops
at the first free id it reaches, stops before it has gone all the way round: it passes over at most as many ids as
are in use.

The argument for sessions (`KaylesSessionProofs`). `TornGamesAreNeverServed` is
inductive with the age of the torn game: it has that of the clock, which is beyond
the timeout from the start and never falls, so the sweep before the next request
takes it. `TheServiceAlwaysGoesOn` combines that with two facts. `any_pawn_left`
returns on a row that does not use the last index, so that no handler is left in it
(`HandlersReturn`). And the search for an id ends (`SearchFindsAnId`): the ids it
tries in one step more than there are games are all different, because the capacity
keeps the counter from going all the way round, so they cannot all be in use; of the
steps that find a free one there is a first (`LeastNumber`).
`StaleSessionsEndInTime` needs `AgesBounded`, whose heart is
`idle <= Timeout + waited`: a sweep leaves no game older than the timeout, and
time passes only while `recvfrom` waits, which is no longer than the timeout; it
excludes a failed allocation because a torn game is born old. `RequestContract` goes
through the handlers one by one. That a correct JOIN which finds no free id is refused
exactly at the capacity needs `SessionsBounded`: the games never outnumber the
capacity, so what is not below it is at it. Below it the counter has moved on
(`CounterMovesOn`) when memory runs out, which tells the two reasons for silence
apart.

The argument for the refinement (`KaylesRefinementProofs`). `RulesInv` is what the
mapping needs to know of reachable states: a torn game has no pawns (so it maps
to a table nobody has moved at), and a request being handled was sent. Each of
the five changes maps to one action of one table (`SeatingJoins`, `PlayingTakes`
and so on), a sweep and nothing else to `Abandon`, the rest to a stutter.
`PlayingTakes` is where 255 comes in: below it `any_pawn_left` returns, and the
pawn after the last is not the first.

The argument for the board. Two pawns with the same byte and the same bit are the
same pawn (`OneBitEach`, from the uniqueness of quotient and remainder), so
setting or clearing a bit touches one pawn (`FreshBoard`, `KnockedDown`). The
invariant `BoardInv` adds the length of the vector, without which an index
could be outside it.

The argument for the wire (`WireFormatProofs`). Quotients and remainders by the
number of values of a byte give four digits and the digits give the number back
(`ReadsWhatWasWritten`); the rest is where each field starts, once for requests
and once for answers. `SentStatesArePrinted` also shows that a GAME_STATE is never
taken for a WRONG_MSG: the client asks for the length and for the status 255, and
the state of a torn game, which is as long as a WRONG_MSG because it has no board,
still has a status of its own. `ComplaintsArePrinted` is the same for errors, and
`RequestBytes` says how long a typed message is and that its bytes are bytes.

The argument for start-up (`StartUpProofs`). `Prepared` follows the options: a
flag that is set holds what its check lets in, nothing starts without all of its
options, and what was built from them stays as it was built. The two timeouts are
then two ways to cut the same number. `StartsAsDocumented` compares the program
with the whole line typed, so its invariant `ReadAsTyped` goes through the line:
the flags set are exactly those of the options read so far, each stored as typed,
and the program has given up exactly if one of them is faulty. A turn of the loop
then adds one option to a faultless line, which is faultless again exactly if the
check passes and the flag is new (`ChecksAsDocumented`, `FaultlessLonger`).

The argument for the system. Only datagrams that clients send are ever in the
network (`RequestsTyped`), so that each step of the system is a step of the server
or leaves it alone. The theorems about the server therefore hold among clients and
behind the network. `RequestsActOnce` follows from what a request leaves behind:
once it has changed a game it is `Spent` there, its seat taken, its pawn down or
the game over. A spent request cannot act (`ActsOnce`, by the case analysis of the
server), and nothing that happens later makes it unspent (`SpentStays`). A JOIN that
opened a game is not spent there until seat B is taken, but it has left its player in
seat A; `MayHaveActed` is the one or the other, and stays (`MayHaveActedStays`). So
a request that acts again where it may have acted is a JOIN of the player of seat A
into a free seat B, which is the exception that the property states. The
invariant `CopiesInv` ties this to the history: of everything in `acted` whose game
is still there the request may have acted (`ActedIsSpent`), only a JOIN opens games,
and a game opened again under an old id has a serial of its own.

What clients are shown is proved of answers already in flight, since they may be
printed long after the game has moved on or its id was given away. A run's views
are what it has printed and what is on its way to it (`ViewsOf`); `ViewsStep` shows
that only a served request adds any, and which. `PrintsWhatWasAsked` then needs
`AnsweringInv` (the request at hand is what its sender typed, nothing was sent for it
yet, players fit their fields, torn games have no board), `HandlersAnswer` (every
datagram a handler sends is the state of the named game with the sender in a
seat, or a complaint about one of the request's bytes - the first of two as well,
when the second cannot be sent), and the two theorems about the wire. What was
typed and what is printed agree modulo 2^32: `TypedFieldsArrive` cuts the one, and
that ids kept in games fit their field (`PlayersFit`) is an invariant of the system,
because they come off the wire.

`ViewsAgree` is not inductive by itself: two answers agree, and the game makes
another one. `ViewsInv` adds that each view is a past of the game it shows, if
that game is still there. `MayPrecede` is reflexive and transitive
(`PrecedenceOrders`) and every step takes a game from one state to one it may
precede (`GamesGoOn`, by the case analysis of the server), so a new view, which is
the game as it is now, comes after all the others. The serial tells a game from
its successor under the same id: it grows when the id is given out (`SerialsGrow`),
so views of an old game are of no game that is there.

How far the claims of section 6 hold. Three of them are proved outside the case
in which TLC refutes them, so that case is the whole of the deviation: MOVE_2 takes
neighbours on every row of at most 255 pawns, an unanswered JOIN leaves nothing
behind if memory does not run out, and a request is answered twice only after a
failed lookup, and never three times. `TheServiceAlwaysGoesOn` is the fourth, for what
`last_move_hangs` refutes: below 256 pawns no handler hangs.

Only model-checked: `SilentSessionsEnd` and `EveryRequestIsHandled`, which are
liveness and beyond the prover's reach (of the second the safety half is proved), and the counterexamples to the claims of section 6. Every other property of
the passing runs is a theorem.

## 6. Where the code and its documentation disagree

Each of these is a run in which TLC finds a behaviour that violates the statement.

| run | statement | what happens |
|---|---|---|
| `wrap_around` | MOVE_2 takes "the pawn at the given index and the next one" | on a row of 256, MOVE_2 on pawn 255 takes pawns 255 and 0 |
| `last_move_hangs` | the last pawn wins, the server handles every message | on a row of 256 `any_pawn_left` never returns once no pawn stands |
| `two_replies` | one response per request | an unknown game or a stranger gets two WRONG_MSG datagrams: with the indices 1 and 5 for a stranger, 5 twice for an unknown game |
| `exhausted_join` | a JOIN without memory is ignored | `active_games[id]` is inserted before the copy that throws: a torn game stays |
| `nan_timeout` | `-t` takes a timeout in [1, 99] | `strtod` reads `nan`, which is neither below 1 nor above 99; what the casts make of it is undefined |
| `silence` | a session ends when it *receives no messages* | correct messages that are out of turn or illegal are answered but do not count |

Smaller ones, with no run of their own: `kayles_server.cpp:93-94` wants the timeout
to be "a base-10 integer in the range 1 to 99", and the program starts on 2.5 as
well (`StartsAsDocumented` names this leniency `IsFractional`; the complaint of
`common.cpp:114`, "from 1.0 to 99.0", agrees with the program); a player who holds both seats and gives
up on B's turn makes B the winner (`handle_give_up` finds the loser by id; the
`Forfeit` of `KaylesRules` leaves this open); `message_handlers.h:135-137` says
KEEP_ALIVE checks the turn, and it does not; `message_handlers.h:8` gives a MOVE_2
a size of 13 bytes, it has 10; `kayles_server.cpp:40` says the row takes
`floor(max_pawn / 8)` bytes, it takes one more; `game_logic.h:6` says the
protocol counts pawns from 1, it counts from 0.

## 7. What is not modelled

* Sockets and address resolution beyond the fact that each call may fail; logging
  and wording.
* The characters of texts: `split_message` (a typed message is the sequence of its
  numbers), and which characters `strtol` and `strtod` take (a text is what they make
  of it). Words that are no option, which `getopt` leaves for last and nobody reads.
* `validate_message_format`, which neither program calls.
* What a build makes of a NaN timeout: the conversions are undefined, and some
  builds refuse the socket, others do not. `nan_timeout` stops where it is let in.
* Liveness of `KaylesSystem`: UDP promises no delivery, so there is no fairness to
  assume of the network, and without it a client ends only by its own timeout.
* Corruption of datagrams, and senders other than the clients, in `KaylesSystem`
  (in `KaylesServer` any datagram may arrive).
* A restart of the server: nothing is persisted, so it is a new run of the model.
* The tests, build and CI files have no behaviour of their own.

## 8. Plan

Done, in this order: `GameLogic`, `KaylesServer`, its properties, the refinement
to `KaylesRules`, the claims, `TypeOK` and the safety theorems, `PawnRow` and its
proofs, `ClientMessages`, `KaylesSystem` and its `SystemRunsTheServer`; then
`WireFormat`, with the system carrying bytes, `StartUp`, and the proofs about both,
about sessions, about answers, about copies of requests and about the refinement.

Since then every safety and action property that the passing runs check has been
proved, and how far the claims of section 6 hold, the safety half of
`EveryRequestIsHandled` among them.

Next:
1. the refinement for the whole system: that clients behind the network see games
   of `KaylesRules`, which `SystemRunsTheServer` and `ServerImplementsRules` give
   together, stated for the states that clients print;
2. what a request does to the timers: that only a correct message about a game
   restarts its silence;
3. from `StartUp` to the server: that a started program satisfies the assumptions
   of the game modules, with the packed board and the set of pawns connected by
   `PackedBoardIsTheBoard`.
