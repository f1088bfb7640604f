------------------------------- MODULE StartUp -------------------------------
(***************************************************************************)
(* What both programs do before the first datagram: parse_arguments of     *)
(* src/common.cpp, then main up to the loop of src/kayles_server.cpp or to *)
(* the read of src/kayles_client.cpp.                                      *)
(*                                                                         *)
(* The text after an option is what its conversion makes of it: an "int";  *)
(* a "real", in half microseconds; "nan"; a "row" of '0' and '1', a length *)
(* and the set of its '1's; or "other".  A double just below a whole       *)
(* number of microseconds is half a microsecond below it here.             *)
(***************************************************************************)
EXTENDS Integers, Sequences

CONSTANTS
    BITS_PER_BYTE, MAX_PAWNS, IdxRange,   \* as in PawnRow
    NaN,              \* the double that is not a number
    Arguments,        \* options as typed: a flag and a text
    MaxArguments      \* bound: the options on a command line

\* Numbers are numbers, the '1's of a row are in it, and a pawn index counts
\* the longest row.
ASSUME StartAssumption ==
    /\ BITS_PER_BYTE \in Nat \ {0} /\ MAX_PAWNS \in Nat \ {0}
    /\ IdxRange \in Nat /\ IdxRange >= MAX_PAWNS
    /\ MaxArguments \in Nat
    /\ \A o \in Arguments : 
          /\ o.text.kind \in {"int", "real"} => o.text.n \in Int
          /\ o.text.kind = "row" =>
                o.text.length \in Nat /\ o.text.ones \subseteq 0 .. o.text.length - 1

VARIABLES
    is_server,        \* which of the two programs runs
    pc,
    given,            \* history: the options getopt has returned
    has,              \* the flags has_pawns, has_address, ... that are set
    config,           \* AppConfig, by the letter of the option
    max_pawn, pawn_row,   \* the server's template_game
    tv                \* SO_RCVTIMEO of the socket, in microseconds

startVars == <<is_server, pc, given, has, config, max_pawn, pawn_row, tv>>

Board == INSTANCE PawnRow

SECOND == 2000000
MILLISECOND == 2000
INVALID_VALUE == -1
MIN_TIMEOUT_VALUE == 1 * SECOND
MAX_TIMEOUT_VALUE == 99 * SECOND
MAX_PORT_NUMBER == 65535
MIN_SERVER_PORT == 0
MIN_CLIENT_PORT == 1

allowed_flags == {"a", "p", "t"} \cup (IF is_server THEN {"r"} ELSE {"m"})

validate_and_convert_number(text, min_value, max_value) ==
    IF text.kind = "int" /\ min_value <= text.n /\ text.n <= max_value
    THEN text.n ELSE INVALID_VALUE

\* strtod takes a number with or without a point.
strtod(text) == IF text.kind = "int" THEN text.n * SECOND ELSE text.n

\* NaN is below no limit and above none.
validate_and_convert_double(text, min_value, max_value) ==
    IF text.kind = "nan" THEN NaN
    ELSE IF text.kind \notin {"int", "real"} \/ strtod(text) < min_value \/ strtod(text) > max_value
    THEN INVALID_VALUE
    ELSE strtod(text)

\* Wrong: a row may have any number of pawns.
IsValidAtAnyLength(text) ==
    /\ text.kind = "row" /\ text.length > 0
    /\ {0, text.length - 1} \subseteq text.ones

is_valid_pawn_row(text) ==
    text.kind = "row" /\ Board!is_valid_pawn_row(text.length, text.ones)
-----------------------------------------------------------------------------
StartInit ==
    /\ is_server \in BOOLEAN
    /\ pc = "getopt" /\ given = <<>> /\ has = {}
    /\ config = [f \in {"a", "p", "t", "r", "m"} |-> INVALID_VALUE]
    /\ max_pawn = 0 /\ pawn_row = <<>>
    /\ tv = 0

\* The process ends with a complaint.
fatal(where) == pc' = where
syserr == pc' = "exited"

\* getopt: '?' for a letter that is not allowed, or one without its argument.
getopt(o) ==
    IF o.flag \in allowed_flags /\ o.text.kind # "missing" THEN o.flag ELSE "?"

min_port == IF is_server THEN MIN_SERVER_PORT ELSE MIN_CLIENT_PORT

Converted(o) ==
    IF getopt(o) = "t"
    THEN validate_and_convert_double(o.text, MIN_TIMEOUT_VALUE, MAX_TIMEOUT_VALUE)
    ELSE IF getopt(o) = "p"
    THEN validate_and_convert_number(o.text, min_port, MAX_PORT_NUMBER)
    ELSE o.text

\* Wrong: nobody looks whether the option has been given before.
IsFatalUnlessRepeated(o) ==
    \/ getopt(o) = "?"
    \/ getopt(o) \in {"t", "p"} /\ Converted(o) = INVALID_VALUE
    \/ getopt(o) = "r" /\ ~is_valid_pawn_row(o.text)

IsFatal(o) ==
    \/ getopt(o) = "?"
    \/ getopt(o) \in has
    \/ getopt(o) \in {"t", "p"} /\ Converted(o) = INVALID_VALUE
    \/ getopt(o) = "r" /\ ~is_valid_pawn_row(o.text)

\* One turn of the loop of parse_arguments.
ParseOption ==
    /\ pc = "getopt" /\ Len(given) < MaxArguments
    /\ \E o \in Arguments :
          /\ given' = Append(given, o)
          /\ \/ /\ IsFatal(o)
                /\ fatal("rejected")
                /\ UNCHANGED <<has, config>>
             \/ /\ ~IsFatal(o)
                /\ has' = has \cup {getopt(o)}
                /\ config' = [config EXCEPT ![getopt(o)] = Converted(o)]
                /\ UNCHANGED pc
    /\ UNCHANGED <<is_server, max_pawn, pawn_row, tv>>

\* getopt returns -1: every allowed flag must have been given.
EndOfOptions ==
    /\ pc = "getopt"
    /\ \/ allowed_flags \subseteq has /\ pc' = "parsed"
       \/ ~(allowed_flags \subseteq has) /\ fatal("incomplete")
    /\ UNCHANGED <<is_server, given, has, config, max_pawn, pawn_row, tv>>

\* The server builds its template board; the client converts its message,
\* which may end it (ClientMessages says when).
Prepare ==
    /\ pc = "parsed"
    /\ \/ /\ is_server
          /\ max_pawn' = (config["r"].length - 1) % IdxRange
          /\ pawn_row' = Board!initial_bytes(config["r"].length, config["r"].ones)
          /\ pc' = "socket"
       \/ /\ ~is_server
          /\ pc' = "socket" \/ fatal("exited")
          /\ UNCHANGED <<max_pawn, pawn_row>>
    /\ UNCHANGED <<is_server, given, has, config, tv>>
-----------------------------------------------------------------------------
\* Casting a product of doubles: what is half a unit below a whole number may
\* be rounded up to it before it is cut.
Truncated(n, unit) == {n \div unit, (n + 1) \div unit}

\* Wrong: the fraction of a second is forgotten.
WholeSeconds(timeout) ==
    IF timeout = NaN THEN {0}
    ELSE {(timeout \div SECOND) * (SECOND \div 2)}

\* tv_sec and tv_usec, in microseconds, where setsockopt takes them.  The
\* conversion of NaN is undefined: some builds make 0 of it, others values
\* that setsockopt refuses.
Timevals(timeout) ==
    IF timeout = NaN THEN {0}
    ELSE {(timeout \div SECOND) * (SECOND \div 2) + usec :
            usec \in Truncated(timeout % SECOND, 2) \ {SECOND \div 2}}

\* The socket is there with its timeout, or one of the calls that make it
\* fails: socket, setsockopt, getaddrinfo, and bind or connect.
Opened ==
    /\ pc = "socket"
    /\ \/ pc' = "running" /\ tv' \in Timevals(config["t"])
       \/ syserr /\ UNCHANGED tv
    /\ UNCHANGED <<is_server, given, has, config, max_pawn, pawn_row>>

create_sever_socket == is_server /\ Opened

\* With the client's write, which may fail as well.
create_client_socket == ~is_server /\ Opened

StartNext ==
    \/ ParseOption \/ EndOfOptions \/ Prepare
    \/ create_sever_socket \/ create_client_socket

StartSpec == StartInit /\ [][StartNext]_startVars
-----------------------------------------------------------------------------
\* timeout_ms of remove_timed_out_games.
timeout_ms(timeout) == Truncated(timeout, MILLISECOND)

\* An option as the comment above kayles_server.cpp wants it: a port and a
\* timeout are integers.
IsDocumented(o) ==
    /\ o.flag \in allowed_flags /\ o.text.kind # "missing"
    /\ o.flag = "p" =>
          o.text.kind = "int" /\ o.text.n \in (IF is_server THEN 0 ELSE 1) .. 65535
    /\ o.flag = "t" => o.text.kind = "int" /\ o.text.n \in 1 .. 99
    /\ o.flag = "r" =>
          /\ o.text.kind = "row" /\ o.text.length \in 1 .. MAX_PAWNS
          /\ {0, o.text.length - 1} \subseteq o.text.ones

\* The one leniency: a timeout may have a fraction, which that comment rules
\* out and the complaint of parse_arguments ("from 1.0 to 99.0") lets in.
IsFractional(o) ==
    o.flag = "t" /\ o.text.kind = "real" /\ o.text.n \in 1 * SECOND .. 99 * SECOND

IsAccepted(o) == IsDocumented(o) \/ IsFractional(o)

\* What was typed is what the program works with.
IsStored(o) ==
    /\ o.flag = "t" => config["t"] = strtod(o.text)
    /\ o.flag = "p" => config["p"] = o.text.n
    /\ o.flag \notin {"t", "p"} => config[o.flag] = o.text

\* A command line, but for its order: no option unknown, wrong or repeated.
IsFaultless(line) ==
    \A k \in 1 .. Len(line) :
        /\ IsAccepted(line[k])
        /\ \A j \in 1 .. k - 1 : line[j].flag # line[k].flag

\* A program starts on exactly the command lines that give each of its options
\* once, as documented, in any order, and nothing else - and with what was typed
\* there: no order of the options hides a repeated, foreign or missing one.  A
\* timeout with a fraction is accepted although the documentation of the server
\* asks for an integer (IsFractional).  Of NaN this says nothing: TimeoutInRange
\* does.
StartsAsDocumented ==
    (\A k \in 1 .. Len(given) : given[k].text.kind # "nan") =>
        /\ pc = "rejected" <=> ~IsFaultless(given)
        /\ pc # "getopt" /\ IsFaultless(given) =>
              (pc = "incomplete" <=> allowed_flags # {given[k].flag : k \in 1 .. Len(given)})
        /\ pc = "running" => \A k \in 1 .. Len(given) : IsStored(given[k])

\* The board every game starts from is the row that was typed, and what the
\* models of the game assume of it: no row that is let in is longer than the
\* pawn index can count, so none loses pawns to the wrap of max_pawn.
PlaysTheRowGiven ==
    is_server /\ pc = "running" =>
        /\ max_pawn + 1 = config["r"].length
        /\ Board!Shown = config["r"].ones
        /\ {0, max_pawn} \subseteq Board!Shown

\* One timeout is converted twice, to the microseconds after which recvfrom
\* returns and to the milliseconds a session may be silent: the two agree up
\* to the millisecond that is cut, so that a server that hears nothing sweeps
\* its games as often as they can expire - and never waits for ever, as it
\* would with a timeval of 0.  NaN, of which the conversions are undefined, is
\* left out: TimeoutInRange reports that it is let in.
SweepsAsOftenAsGamesExpire ==
    pc = "running" /\ config["t"] # NaN =>
        /\ tv > 0
        /\ \A ms \in timeout_ms(config["t"]) : 1000 * ms - 1 <= tv /\ tv <= 1000 * (ms + 1)

\* The claim of common.h: the timeout is in [1, 99] seconds, and what is not a
\* number is not let in.
TimeoutInRange ==
    "t" \in has => config["t"] \in MIN_TIMEOUT_VALUE .. MAX_TIMEOUT_VALUE
==============================================================================
