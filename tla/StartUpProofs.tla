---------------------------- MODULE StartUpProofs ----------------------------
(***************************************************************************)
(* What a program that has started is sure of, whatever was typed.         *)
(***************************************************************************)
EXTENDS StartUp, TLAPS

Packed == INSTANCE PawnRowProofs

IsTimeout(n) == n \in Int /\ MIN_TIMEOUT_VALUE <= n /\ n <= MAX_TIMEOUT_VALUE

\* What is kept from the options on: an option that is set holds what its
\* check lets in, nothing starts without all of its options, and what is built
\* from them stays as it was built.
Prepared ==
    /\ config = [f \in {"a", "p", "t", "r", "m"} |-> config[f]]
    /\ "t" \in has => config["t"] = NaN \/ IsTimeout(config["t"])
    /\ "r" \in has => is_valid_pawn_row(config["r"])
    /\ pc \in {"parsed", "socket", "running"} => allowed_flags \subseteq has
    /\ is_server /\ pc \in {"socket", "running"} =>
          Board!initialize_pawn_row(config["r"].length, config["r"].ones)
    /\ pc = "running" => tv \in Timevals(config["t"])

\* A timeout that is let in is in its range, but for NaN.
LEMMA TimeoutLetIn ==
    ASSUME NEW o \in Arguments, getopt(o) = "t", Converted(o) # INVALID_VALUE
    PROVE  Converted(o) = NaN \/ IsTimeout(Converted(o))
<1>1. Converted(o) = validate_and_convert_double(o.text, MIN_TIMEOUT_VALUE, MAX_TIMEOUT_VALUE)
    BY DEF Converted
<1>2. CASE o.text.kind = "nan"
    BY <1>1, <1>2 DEF validate_and_convert_double
<1>3. CASE o.text.kind \in {"int", "real"}
    BY SMT, <1>1, <1>3, StartAssumption
    DEF IsTimeout, validate_and_convert_double, strtod, SECOND, MIN_TIMEOUT_VALUE, MAX_TIMEOUT_VALUE
<1>4. CASE o.text.kind \notin {"nan", "int", "real"}
    BY <1>1, <1>4 DEF validate_and_convert_double
<1>. QED
    BY <1>2, <1>3, <1>4

LEMMA ParseKeepsPrepared == Prepared /\ ParseOption => Prepared'
<1>. SUFFICES ASSUME Prepared, ParseOption PROVE Prepared'
    OBVIOUS
<1>. PICK o \in Arguments :
        \/ pc' = "rejected" /\ UNCHANGED <<has, config>>
        \/ /\ ~IsFatal(o)
           /\ has' = has \cup {getopt(o)}
           /\ config' = [config EXCEPT ![getopt(o)] = Converted(o)]
           /\ UNCHANGED pc
    BY DEF ParseOption, fatal
<1>. pc = "getopt" /\ UNCHANGED <<is_server, max_pawn, pawn_row, tv>>
    BY DEF ParseOption, fatal
<1>1. CASE pc' = "rejected" /\ UNCHANGED <<has, config>>
    BY <1>1 DEF Prepared, is_valid_pawn_row
<1>2. CASE /\ ~IsFatal(o)
           /\ has' = has \cup {getopt(o)}
           /\ config' = [config EXCEPT ![getopt(o)] = Converted(o)]
           /\ UNCHANGED pc
    <2>1. config' = [f \in {"a", "p", "t", "r", "m"} |-> config'[f]]
        BY <1>2 DEF Prepared
    <2>2. \A f \in {"t", "r"} : f \in has' =>
              \/ getopt(o) = f /\ config'[f] = Converted(o)
              \/ f \in has /\ config'[f] = config[f]
        BY <1>2 DEF Prepared
    <2>3. "t" \in has' =>
              config'["t"] = NaN \/ IsTimeout(config'["t"])
        <3>1. ASSUME getopt(o) = "t", config'["t"] = Converted(o)
              PROVE  config'["t"] = NaN \/ IsTimeout(config'["t"])
            BY <1>2, <3>1, TimeoutLetIn DEF IsFatal
        <3>. QED
            BY <2>2, <3>1 DEF Prepared
    <2>4. "r" \in has' => is_valid_pawn_row(config'["r"])
        <3>1. ASSUME getopt(o) = "r", config'["r"] = Converted(o)
              PROVE  is_valid_pawn_row(config'["r"])
            BY <1>2, <3>1 DEF IsFatal, Converted
        <3>. QED
            BY <2>2, <3>1 DEF Prepared
    <2>. QED
        BY <1>2, <2>1, <2>3, <2>4 DEF Prepared, is_valid_pawn_row
<1>. QED
    BY <1>1, <1>2

LEMMA StepKeepsPrepared == Prepared /\ [StartNext]_startVars => Prepared'
<1>. SUFFICES ASSUME Prepared, [StartNext]_startVars PROVE Prepared'
    OBVIOUS
<1>1. CASE ParseOption
    BY <1>1, ParseKeepsPrepared
<1>2. CASE EndOfOptions
    BY <1>2 DEF EndOfOptions, fatal, Prepared, allowed_flags, is_valid_pawn_row
<1>3. CASE Prepare
    BY <1>3 DEF Prepare, fatal, Prepared, allowed_flags, is_valid_pawn_row, Board!initialize_pawn_row
<1>4. CASE create_sever_socket \/ create_client_socket
    BY <1>4 DEF create_sever_socket, create_client_socket, Opened, syserr, Prepared, allowed_flags, is_valid_pawn_row, Board!initialize_pawn_row
<1>5. CASE UNCHANGED startVars
    BY <1>5 DEF startVars, Prepared, allowed_flags, is_valid_pawn_row, Board!initialize_pawn_row, Timevals
<1>. QED
    BY <1>1, <1>2, <1>3, <1>4, <1>5 DEF StartNext

LEMMA AlwaysPrepared == StartSpec => []Prepared
<1>1. StartInit => Prepared
    BY DEF StartInit, Prepared
<1>. QED
    BY <1>1, StepKeepsPrepared, PTL DEF StartSpec
-----------------------------------------------------------------------------
\* A text that is the documented one, or a timeout with a fraction, passes the
\* check of its option, and no other does.
LEMMA ChecksAsDocumented ==
    ASSUME NEW o \in Arguments, o.text.kind # "nan"
    PROVE  IsFatal(o) <=> ~IsAccepted(o) \/ o.flag \in has
<1>1. CASE o.flag \notin allowed_flags \/ o.text.kind = "missing"
    BY <1>1 DEF IsFatal, IsAccepted, IsDocumented, IsFractional, getopt, allowed_flags
<1>2. CASE o.flag \in allowed_flags /\ o.text.kind # "missing"
    <2>1. getopt(o) = o.flag /\ o.flag # "?"
        BY <1>2 DEF getopt, allowed_flags
    <2>2. CASE o.flag = "p"
        <3>1. Converted(o) = INVALID_VALUE <=>
                 ~(o.text.kind = "int" /\ o.text.n \in (IF is_server THEN 0 ELSE 1) .. 65535)
            <4>1. Converted(o) = validate_and_convert_number(o.text, min_port, MAX_PORT_NUMBER)
                BY <2>1, <2>2 DEF Converted
            <4>2. CASE o.text.kind = "int"
                BY SMT, <4>1, <4>2, StartAssumption DEF validate_and_convert_number, min_port,
                    MIN_SERVER_PORT, MIN_CLIENT_PORT, MAX_PORT_NUMBER, INVALID_VALUE
            <4>3. CASE o.text.kind # "int"
                BY <4>1, <4>3 DEF validate_and_convert_number
            <4>. QED
                BY <4>2, <4>3
        <3>. QED
            BY <1>2, <2>1, <2>2, <3>1 DEF IsFatal, IsAccepted, IsDocumented, IsFractional
    <2>3. CASE o.flag = "t"
        <3>1. Converted(o) = INVALID_VALUE <=>
                 ~(\/ o.text.kind = "int" /\ o.text.n \in 1 .. 99
                   \/ o.text.kind = "real" /\ o.text.n \in 1 * SECOND .. 99 * SECOND)
            <4>1. Converted(o) = validate_and_convert_double(o.text, MIN_TIMEOUT_VALUE, MAX_TIMEOUT_VALUE)
                BY <2>1, <2>3 DEF Converted
            <4>2. CASE o.text.kind = "int"
                <5>1. o.text.n \in Int /\ strtod(o.text) = o.text.n * 2000000
                    BY SMT, <4>2, StartAssumption DEF strtod, SECOND
                <5>2. Converted(o) =
                         IF o.text.n * 2000000 < 2000000 \/ o.text.n * 2000000 > 198000000
                         THEN -1 ELSE o.text.n * 2000000
                    BY SMT, <4>1, <4>2, <5>1 DEF validate_and_convert_double,
                        MIN_TIMEOUT_VALUE, MAX_TIMEOUT_VALUE, SECOND, INVALID_VALUE
                <5>3. Converted(o) = -1 <=> ~(1 <= o.text.n /\ o.text.n <= 99)
                    BY SMT, <5>1, <5>2
                <5>. QED
                    BY SMT, <4>2, <5>1, <5>3 DEF INVALID_VALUE
            <4>3. CASE o.text.kind = "real"
                <5>1. o.text.n \in Int /\ strtod(o.text) = o.text.n
                    BY <4>3, StartAssumption DEF strtod
                <5>2. Converted(o) =
                         IF o.text.n < 2000000 \/ o.text.n > 198000000 THEN -1 ELSE o.text.n
                    BY SMT, <4>1, <4>3, <5>1 DEF validate_and_convert_double,
                        MIN_TIMEOUT_VALUE, MAX_TIMEOUT_VALUE, SECOND, INVALID_VALUE
                <5>3. Converted(o) = -1 <=> ~(2000000 <= o.text.n /\ o.text.n <= 198000000)
                    BY SMT, <5>1, <5>2
                <5>4. 1 * SECOND = 2000000 /\ 99 * SECOND = 198000000
                    BY SMT DEF SECOND
                <5>5. o.text.n \in 1 * SECOND .. 99 * SECOND
                         <=> 2000000 <= o.text.n /\ o.text.n <= 198000000
                    BY SMT, <5>1, <5>4
                <5>. QED
                    BY <4>3, <5>3, <5>5 DEF INVALID_VALUE
            <4>4. CASE o.text.kind \notin {"int", "real"}
                BY <4>1, <4>4 DEF validate_and_convert_double
            <4>. QED
                BY <4>2, <4>3, <4>4 
        <3>. QED
            BY <1>2, <2>1, <2>3, <3>1 DEF IsFatal, IsAccepted, IsDocumented, IsFractional
    <2>4. CASE o.flag = "r"
        <3>1. is_valid_pawn_row(o.text) <=>
                 /\ o.text.kind = "row" /\ o.text.length \in 1 .. MAX_PAWNS
                 /\ {0, o.text.length - 1} \subseteq o.text.ones
            BY StartAssumption DEF is_valid_pawn_row, Board!is_valid_pawn_row
        <3>. QED
            BY <1>2, <2>1, <2>4, <3>1 DEF IsFatal, IsAccepted, IsDocumented, IsFractional
    <2>5. CASE o.flag \notin {"p", "t", "r"}
        BY <1>2, <2>1, <2>5 DEF IsFatal, IsAccepted, IsDocumented, IsFractional
    <2>. QED
        BY <2>2, <2>3, <2>4, <2>5
<1>. QED
    BY <1>1, <1>2

\* What is stored for an option that is let in is what it says.
LEMMA StoresWhatIsTyped ==
    ASSUME NEW o \in Arguments, o.text.kind # "nan", ~IsFatal(o)
    PROVE  /\ getopt(o) = o.flag
           /\ o.flag = "t" => Converted(o) = strtod(o.text)
           /\ o.flag = "p" => Converted(o) = o.text.n
           /\ o.flag \notin {"t", "p"} => Converted(o) = o.text
<1>1. getopt(o) = o.flag
    BY DEF IsFatal, getopt
<1>2. o.flag = "t" => Converted(o) = strtod(o.text)
    <2>. SUFFICES ASSUME o.flag = "t" PROVE Converted(o) = strtod(o.text)
        OBVIOUS
    <2>1. Converted(o) = validate_and_convert_double(o.text, MIN_TIMEOUT_VALUE, MAX_TIMEOUT_VALUE)
        BY <1>1 DEF Converted
    <2>. QED
        BY <1>1, <2>1 DEF IsFatal, validate_and_convert_double
<1>3. o.flag = "p" => Converted(o) = o.text.n
    <2>. SUFFICES ASSUME o.flag = "p" PROVE Converted(o) = o.text.n
        OBVIOUS
    <2>1. Converted(o) = validate_and_convert_number(o.text, min_port, MAX_PORT_NUMBER)
        BY <1>1 DEF Converted
    <2>. QED
        BY <1>1, <2>1 DEF IsFatal, validate_and_convert_number
<1>4. o.flag \notin {"t", "p"} => Converted(o) = o.text
    BY <1>1 DEF Converted
<1>. QED
    BY <1>1, <1>2, <1>3, <1>4

IsNumeric(line) == \A k \in 1 .. Len(line) : line[k].text.kind # "nan"

\* What the options read so far have left: has and config say nothing but what
\* was typed, until an option is refused; and each way out of the loop has had
\* its reason.
ReadAsTyped ==
    /\ given \in Seq(Arguments)
    /\ config = [f \in {"a", "p", "t", "r", "m"} |-> config[f]]
    /\ IsNumeric(given) =>
          /\ pc = "rejected" => ~IsFaultless(given)
          /\ pc # "rejected" =>
                /\ IsFaultless(given)
                /\ has = {given[k].flag : k \in 1 .. Len(given)}
                /\ \A k \in 1 .. Len(given) : IsStored(given[k])
          /\ pc = "incomplete" => ~(allowed_flags \subseteq has)
          /\ pc \notin {"getopt", "rejected", "incomplete"} => allowed_flags \subseteq has

\* A faultless line stays one with another option exactly if that one is
\* accepted and new.
LEMMA FaultlessLonger ==
    ASSUME NEW line \in Seq(Arguments), NEW o \in Arguments, IsFaultless(line)
    PROVE  IsFaultless(Append(line, o)) <=>
              IsAccepted(o) /\ o.flag \notin {line[k].flag : k \in 1 .. Len(line)}
<1>. DEFINE longer == Append(line, o)
            n == Len(line)
<1>1. n \in Nat /\ Len(longer) = n + 1 /\ longer[n + 1] = o /\ \A k \in 1 .. n : longer[k] = line[k]
    OBVIOUS
<1>. HIDE DEF longer, n
<1>2. ASSUME IsFaultless(longer)
      PROVE  IsAccepted(o) /\ \A k \in 1 .. n : line[k].flag # o.flag
    <2>1. n + 1 \in 1 .. n + 1 /\ \A k \in 1 .. n : k \in 1 .. (n + 1) - 1
        BY <1>1
    <2>. QED
        BY <1>1, <1>2, <2>1 DEF IsFaultless
<1>3. ASSUME IsAccepted(o), \A k \in 1 .. n : line[k].flag # o.flag
      PROVE  IsFaultless(longer)
    <2>. SUFFICES ASSUME NEW k \in 1 .. n + 1
                  PROVE  /\ IsAccepted(longer[k])
                         /\ \A j \in 1 .. k - 1 : longer[j].flag # longer[k].flag
        BY <1>1 DEF IsFaultless
    <2>1. CASE k = n + 1
        BY <1>1, <1>3, <2>1
    <2>2. CASE k \in 1 .. n
        <3>1. IsAccepted(line[k]) /\ \A j \in 1 .. k - 1 : line[j].flag # line[k].flag
            BY <2>2 DEF IsFaultless, n
        <3>2. \A j \in 1 .. k - 1 : j \in 1 .. n
            BY <1>1, <2>2
        <3>. QED
            BY <1>1, <2>2, <3>1, <3>2
    <2>. QED
        BY <1>1, <2>1, <2>2
<1>. QED
    BY <1>2, <1>3 DEF longer, n

LEMMA ParseKeepsReadAsTyped == ReadAsTyped /\ ParseOption => ReadAsTyped'
<1>. SUFFICES ASSUME ReadAsTyped, ParseOption PROVE ReadAsTyped'
    OBVIOUS
<1>. PICK o \in Arguments :
        /\ given' = Append(given, o)
        /\ \/ IsFatal(o) /\ pc' = "rejected" /\ UNCHANGED <<has, config>>
           \/ /\ ~IsFatal(o)
              /\ has' = has \cup {getopt(o)}
              /\ config' = [config EXCEPT ![getopt(o)] = Converted(o)]
              /\ UNCHANGED pc
    BY DEF ParseOption, fatal
<1>. pc = "getopt" /\ UNCHANGED is_server
    BY DEF ParseOption
<1>1. given \in Seq(Arguments) /\ given' \in Seq(Arguments)
    BY DEF ReadAsTyped
<1>2. /\ Len(given) \in Nat /\ Len(given') = Len(given) + 1
      /\ given'[Len(given')] = o /\ \A k \in 1 .. Len(given) : given'[k] = given[k]
    BY <1>1
<1>3. config' = [f \in {"a", "p", "t", "r", "m"} |-> config'[f]]
    BY DEF ReadAsTyped
<1>4. SUFFICES ASSUME IsNumeric(given')
      PROVE  /\ pc' = "rejected" => ~IsFaultless(given)'
             /\ pc' # "rejected" =>
                   /\ IsFaultless(given)'
                   /\ has' = {given'[k].flag : k \in 1 .. Len(given')}
                   /\ \A k \in 1 .. Len(given') : IsStored(given[k])'
             /\ pc' \in {"getopt", "rejected"}
    BY <1>1, <1>3 DEF ReadAsTyped, IsNumeric
<1>5. IsNumeric(given) /\ o.text.kind # "nan"
    BY <1>2, <1>4 DEF IsNumeric
<1>6. /\ IsFaultless(given)
      /\ has = {given[k].flag : k \in 1 .. Len(given)}
      /\ \A k \in 1 .. Len(given) : IsStored(given[k])
    BY <1>5 DEF ReadAsTyped
<1>7. IsFaultless(given)' <=> IsFaultless(Append(given, o))
    BY DEF IsFaultless, IsAccepted, IsDocumented, IsFractional, allowed_flags
<1>8. IsFatal(o) <=> ~IsFaultless(given)'
    BY <1>1, <1>5, <1>6, <1>7, ChecksAsDocumented, FaultlessLonger
<1>9. CASE IsFatal(o) /\ pc' = "rejected"
    BY <1>8, <1>9
<1>10. CASE /\ ~IsFatal(o)
            /\ has' = has \cup {getopt(o)}
            /\ config' = [config EXCEPT ![getopt(o)] = Converted(o)]
            /\ UNCHANGED pc
    <2>1. getopt(o) = o.flag /\ o.flag \notin has /\ o.flag \in allowed_flags
        BY <1>10, StoresWhatIsTyped, <1>5 DEF IsFatal, getopt
    <2>2. has' = {given'[k].flag : k \in 1 .. Len(given')}
        <3>1. ASSUME NEW f \in has' PROVE \E k \in 1 .. Len(given') : given'[k].flag = f
            <4>1. CASE f = o.flag
                BY <1>2, <4>1
            <4>2. CASE f \in has
                BY <1>2, <1>6, <4>2
            <4>. QED
                BY <1>10, <2>1, <3>1, <4>1, <4>2
        <3>2. ASSUME NEW k \in 1 .. Len(given') PROVE given'[k].flag \in has'
            <4>1. CASE k = Len(given')
                BY <1>2, <1>10, <2>1, <4>1
            <4>2. CASE k \in 1 .. Len(given)
                BY <1>2, <1>6, <1>10, <4>2
            <4>. QED
                BY <1>2, <4>1, <4>2
        <3>. QED
            BY <3>1, <3>2
    <2>3. ASSUME NEW k \in 1 .. Len(given') PROVE IsStored(given[k])'
        <3>1. CASE k = Len(given')
            <4>1. config'[o.flag] = Converted(o)
                BY <1>10, <2>1 DEF ReadAsTyped, allowed_flags
            <4>. QED
                BY <1>2, <1>5, <1>10, <3>1, <4>1, StoresWhatIsTyped DEF IsStored
        <3>2. CASE k \in 1 .. Len(given)
            <4>1. given'[k] = given[k] /\ given[k].flag \in has /\ given[k].flag # o.flag
                BY <1>2, <1>6, <2>1, <3>2
            <4>2. config'[given[k].flag] = config[given[k].flag]
                BY <1>3, <1>10, <2>1, <4>1 DEF ReadAsTyped
            <4>3. IsStored(given[k])
                BY <1>6, <3>2
            <4>. QED
                BY <4>1, <4>2, <4>3 DEF IsStored
        <3>. QED
            BY <1>2, <3>1, <3>2
    <2>. QED
        BY <1>8, <1>10, <2>2, <2>3
<1>. QED
    BY <1>9, <1>10

LEMMA StepKeepsReadAsTyped == ReadAsTyped /\ [StartNext]_startVars => ReadAsTyped'
<1>. SUFFICES ASSUME ReadAsTyped, [StartNext]_startVars PROVE ReadAsTyped'
    OBVIOUS
<1>1. CASE ParseOption
    BY <1>1, ParseKeepsReadAsTyped
<1>. DEFINE Kept == UNCHANGED <<is_server, given, has, config>>
<1>2. ASSUME Kept,
             \/ UNCHANGED pc
             \/ pc = "getopt" /\ pc' = "parsed" /\ allowed_flags \subseteq has
             \/ pc = "getopt" /\ pc' = "incomplete" /\ ~(allowed_flags \subseteq has)
             \/ pc \in {"parsed", "socket"} /\ pc' \in {"socket", "running", "exited"}
      PROVE  ReadAsTyped'
    <2>1. (IsFaultless(given)' <=> IsFaultless(given)) /\ allowed_flags' = allowed_flags
        BY <1>2 DEF IsFaultless, IsAccepted, IsDocumented, IsFractional, allowed_flags
    <2>2. \A k \in 1 .. Len(given) : IsStored(given[k])' <=> IsStored(given[k])
        BY <1>2 DEF IsStored
    <2>. QED
        BY <1>2, <2>1, <2>2 DEF ReadAsTyped, IsNumeric
<1>3. CASE EndOfOptions
    BY <1>2, <1>3 DEF EndOfOptions, fatal
<1>4. CASE Prepare
    BY <1>2, <1>4 DEF Prepare, fatal
<1>5. CASE create_sever_socket \/ create_client_socket
    BY <1>2, <1>5 DEF create_sever_socket, create_client_socket, Opened, syserr
<1>6. CASE UNCHANGED startVars
    BY <1>2, <1>6 DEF startVars
<1>. QED
    BY <1>1, <1>3, <1>4, <1>5, <1>6 DEF StartNext

\* A program starts on exactly the documented command lines - and those with a
\* fraction in the timeout -, of any length and in any order, and with what they
\* say: the flags, the checks and the test at
\* the end of parse_arguments leave no gap between them.
THEOREM AlwaysStartsAsDocumented == StartSpec => []StartsAsDocumented
<1>1. StartInit => ReadAsTyped
    <2>. SUFFICES ASSUME StartInit PROVE ReadAsTyped
        OBVIOUS
    <2>1. given = <<>> /\ given \in Seq(Arguments) /\ Len(given) = 0
        BY DEF StartInit
    <2>2. \A k \in 1 .. Len(given) : FALSE
        BY <2>1
    <2>3. config = [f \in {"a", "p", "t", "r", "m"} |-> config[f]]
        BY DEF StartInit
    <2>4. has = {given[k].flag : k \in 1 .. Len(given)}
        BY <2>2 DEF StartInit
    <2>. QED
        BY <2>1, <2>2, <2>3, <2>4 DEF StartInit, ReadAsTyped, IsFaultless
<1>2. ReadAsTyped => StartsAsDocumented
    <2>. SUFFICES ASSUME ReadAsTyped, IsNumeric(given)
                  PROVE  /\ pc = "rejected" <=> ~IsFaultless(given)
                         /\ pc # "getopt" /\ IsFaultless(given) =>
                               (pc = "incomplete" <=> allowed_flags # {given[k].flag : k \in 1 .. Len(given)})
                         /\ pc = "running" => \A k \in 1 .. Len(given) : IsStored(given[k])
        BY DEF StartsAsDocumented, IsNumeric
    <2>1. IsFaultless(given) => {given[k].flag : k \in 1 .. Len(given)} \subseteq allowed_flags
        BY DEF IsFaultless, IsAccepted, IsDocumented, IsFractional, allowed_flags
    <2>. QED
        BY <2>1 DEF ReadAsTyped
<1>. QED
    BY <1>1, <1>2, StepKeepsReadAsTyped, PTL DEF StartSpec
-----------------------------------------------------------------------------
\* The two conversions of one timeout.
LEMMA ConversionsAgree ==
    ASSUME NEW n, IsTimeout(n), n # NaN,
           NEW t \in Timevals(n), NEW ms \in timeout_ms(n)
    PROVE  t > 0 /\ 1000 * ms - 1 <= t /\ t <= 1000 * (ms + 1)
<1>1. n \in Int /\ 2000000 <= n
    BY SMT DEF IsTimeout, MIN_TIMEOUT_VALUE, MAX_TIMEOUT_VALUE, SECOND
<1>2. PICK usec \in {(n % 2000000) \div 2, ((n % 2000000) + 1) \div 2} :
          usec # 1000000 /\ t = (n \div 2000000) * 1000000 + usec
    BY SMT, <1>1 DEF Timevals, Truncated, SECOND
<1>3. ms = n \div 2000 \/ ms = (n + 1) \div 2000
    BY DEF timeout_ms, Truncated, MILLISECOND
<1>. QED
    BY SMT, <1>1, <1>2, <1>3

\* The two timeouts a started program derives from option -t agree: the sweep
\* of stale games comes as often as games can expire.
THEOREM SweepsAreAsFrequentAsExpiry == StartSpec => []SweepsAsOftenAsGamesExpire
<1>1. Prepared => SweepsAsOftenAsGamesExpire
    <2>. SUFFICES ASSUME Prepared, pc = "running", config["t"] # NaN,
                         NEW ms \in timeout_ms(config["t"])
                  PROVE  tv > 0 /\ 1000 * ms - 1 <= tv /\ tv <= 1000 * (ms + 1)
        BY DEF SweepsAsOftenAsGamesExpire, timeout_ms, Truncated
    <2>1. IsTimeout(config["t"]) /\ tv \in Timevals(config["t"])
        BY DEF Prepared, allowed_flags
    <2>. QED
        BY <2>1, ConversionsAgree
<1>. QED
    BY <1>1, AlwaysPrepared, PTL

\* The board of a started server is the row that was typed, with both its ends
\* standing: what GameLogic assumes of its constants.
THEOREM TheRowGivenIsPlayed == StartSpec => []PlaysTheRowGiven
<1>1. Prepared => PlaysTheRowGiven
    <2>. SUFFICES ASSUME Prepared, is_server, pc = "running"
                  PROVE  /\ max_pawn + 1 = config["r"].length
                         /\ Board!Shown = config["r"].ones
                         /\ {0, max_pawn} \subseteq Board!Shown
        BY DEF PlaysTheRowGiven
    <2>. DEFINE length == config["r"].length
                ones == config["r"].ones
    <2>1. Board!is_valid_pawn_row(length, ones) /\ Board!initialize_pawn_row(length, ones)
        BY DEF Prepared, allowed_flags, is_valid_pawn_row
    <2>2. Packed!is_valid_pawn_row(length, ones) /\ Packed!initialize_pawn_row(length, ones)
        BY <2>1 DEF Board!is_valid_pawn_row, Packed!is_valid_pawn_row,
            Board!initialize_pawn_row, Packed!initialize_pawn_row,
            Board!initial_bytes, Packed!initial_bytes, Board!byte_idx, Packed!byte_idx,
            Board!bit_idx, Packed!bit_idx, Board!Bits, Packed!Bits,
            Board!BIT_INDEX_OFFSET, Packed!BIT_INDEX_OFFSET
    <2>3. max_pawn = length - 1 /\ Packed!Shown = ones
        BY <2>2, Packed!FreshBoard, StartAssumption
    <2>4. Board!Shown = Packed!Shown
        BY DEF Board!Shown, Packed!Shown, Board!serialize_pawn_row, Packed!serialize_pawn_row,
            Board!BIT_INDEX_OFFSET, Packed!BIT_INDEX_OFFSET
    <2>5. length \in Int /\ {0, length - 1} \subseteq ones
        BY <2>1, StartAssumption DEF Board!is_valid_pawn_row
    <2>. QED
        BY <2>3, <2>4, <2>5
<1>. QED
    BY <1>1, AlwaysPrepared, PTL
==============================================================================
