---------------------------- MODULE CommandLine ----------------------------
(***************************************************************************)
(* What the server and the two clients make of their command lines.  All   *)
(* three call getopt() in a loop, which returns the options in turn,       *)
(* wherever the operands stand; each has its own checks, and the clients   *)
(* take the first argument for the name of the server, whatever it is.     *)
(* One command line is given to all three, one after the other, so that    *)
(* they can be compared.                                                   *)
(*                                                                         *)
(* A text is known by what the parsers look at: whether white space comes  *)
(* first, a minus, the number its digits say, None if there are no digits, *)
(* whether there is nothing else in it, and, as a name, its length and     *)
(* whether all its characters are from 33 to 126.                          *)
(***************************************************************************)
EXTENDS Integers, SequencesExt

CONSTANTS
    CommandLines,   \* the options and the number of operands
    Wide,           \* 2^63 in the code
    MaxSeed         \* 2^32 - 1 in the code

None == -1

Text ==
    [space: BOOLEAN, minus: BOOLEAN, digits: Nat \cup {None}, clean: BOOLEAN,
     length: Nat, printable: BOOLEAN]

Option == [letter: STRING, text: Text]

ASSUME WideAssumption == Wide \in Nat /\ MaxSeed \in 65536..(Wide - 1)

ASSUME CommandLinesAssumption ==
    \A l \in CommandLines : l.options \in Seq(Option) /\ l.operands \in Nat

VARIABLES
    line,           \* the command line
    taken,          \* options of it that the program has taken
    setting,        \* the parameters of the program
    status          \* "waits", "parses", "refused", "started" or "failed"

vars == <<line, taken, setting, status>>

Programs == {"server", "client", "client2"}

NanoSec == 1000000000

-----------------------------------------------------------------------------
(* Numbers *)

\* Arithmetic in int64_t; the build computes it modulo twice Wide.
Wrap(n) == ((n + Wide) % (2 * Wide)) - Wide

Limit(lo, hi) == [lo |-> lo, hi |-> hi]

Port == Limit(1, 65535)

\* MIN_PORT, MAX_PORT and so on.
Limits ==
    [server |-> [p |-> Port, s |-> Limit(0, MaxSeed), t |-> Limit(1, 90),
                 v |-> Limit(1, 250), w |-> Limit(16, 4096), h |-> Limit(16, 4096)],
     client |-> [p |-> Port, r |-> Port],
     client2 |-> [p |-> Port, r |-> Port]]

Numeric(prog) == DOMAIN Limits[prog]

\* The values that the variable for an option can hold.
Width(letter) ==
    IF letter = "s" THEN Wide
    ELSE IF letter \in {"t", "v"} THEN 256 ELSE 65536

\* Fault: the variable is as wide as the number.
KeptWide(letter, n) == n

\* The assignment to the variable.
Narrow(letter, n) == n % Width(letter)

\* Fault: the minus is passed over like a space.
NumberUnsigned(t) == Wrap(t.digits)

\* The number that numFromArg() computes.
Number(t) == IF t.minus THEN Wrap(-Wrap(t.digits)) ELSE Wrap(t.digits)

\* Fault: the lower limit is not looked at.
NumFromArgUpper(t, range) ==
    /\ t.digits # None /\ t.clean
    /\ Wrap(t.digits) <= range.hi

\* numFromArg(): the upper limit is for the digits without the minus.
NumFromArg(t, range) ==
    /\ t.digits # None /\ t.clean
    /\ Wrap(t.digits) <= range.hi
    /\ Number(t) >= range.lo

\* Client::validate_parameter(): no digits count as 0, but not a lone minus.
ValidateParameter(t, range) ==
    /\ ~t.space /\ t.clean
    /\ ~(t.minus /\ t.digits = None)
    /\ IF t.digits = None THEN 0 \in range.lo..range.hi
       ELSE Number(t) \in range.lo..range.hi

NumberIsAccepted(prog, o) ==
    IF prog = "client2" THEN ValidateParameter(o.text, Limits[prog][o.letter])
    ELSE NumFromArg(o.text, Limits[prog][o.letter])

-----------------------------------------------------------------------------
(* Names *)

CheckNameCorrectness(t) == t.printable

\* Fault: one character too many.
ValidateOneMore(t) == t.length <= 21 /\ t.printable

ValidatePlayerName(t) == t.length <= 20 /\ t.printable

NameIsAccepted(prog, t) ==
    IF prog = "client2" THEN ValidatePlayerName(t) ELSE CheckNameCorrectness(t)

\* isDatagramCorrect() of the server: the size of a datagram with the name.
IsHeard(t) == 13 + t.length \in 13..33

-----------------------------------------------------------------------------
(* Actions *)

Argc == 1 + Len(line.options) + line.operands

\* No name is the empty one; without -i the GUI is on localhost.
ClientDefaults ==
    [n |-> <<>>, p |-> 2021, i |-> <<>>, r |-> 20210]

\* The seed is the time, which is in its range.
Defaults ==
    [server |-> [p |-> 2021, s |-> 0, t |-> 6, v |-> 50, w |-> 640, h |-> 480],
     client |-> ClientDefaults,
     client2 |-> ClientDefaults]

Init ==
    /\ line \in CommandLines
    /\ taken = [prog \in Programs |-> 0]
    /\ setting = Defaults
    /\ status = [prog \in Programs |-> "waits"]

IsDone(prog) == status[prog] \notin {"waits", "parses"}

Turn(prog) ==
    /\ prog = "client" => IsDone("server")
    /\ prog = "client2" => IsDone("client")

Ends(prog, s) ==
    /\ status' = [status EXCEPT ![prog] = s]
    /\ UNCHANGED <<line, taken, setting>>

\* main(): the clients want an argument.
Begin(prog) ==
    /\ status[prog] = "waits" /\ Turn(prog)
    /\ Ends(prog, IF prog # "server" /\ Argc = 1 THEN "refused" ELSE "parses")

\* getopt() returns option o.
Returns(prog, o) ==
    /\ status[prog] = "parses"
    /\ taken[prog] < Len(line.options)
    /\ o = line.options[taken[prog] + 1]

Set(prog, letter, value) ==
    /\ setting' = [setting EXCEPT ![prog][letter] = value]
    /\ taken' = [taken EXCEPT ![prog] = @ + 1]
    /\ UNCHANGED <<line, status>>

TakeNumber(prog, o) ==
    /\ Returns(prog, o)
    /\ o.letter \in Numeric(prog)
    /\ IF NumberIsAccepted(prog, o)
       THEN Set(prog, o.letter, Narrow(o.letter, Number(o.text)))
       ELSE Ends(prog, "refused")

TakeName(prog, o) ==
    /\ Returns(prog, o)
    /\ o.letter = "n" /\ prog # "server"
    /\ IF NameIsAccepted(prog, o.text) THEN Set(prog, "n", <<o.text>>)
       ELSE Ends(prog, "refused")

TakeGuiServer(prog, o) ==
    /\ Returns(prog, o)
    /\ o.letter = "i" /\ prog # "server"
    /\ Set(prog, "i", <<o.text>>)

\* An option the program does not have, or one without its argument.
TakeUnknown(prog, o) ==
    /\ Returns(prog, o)
    /\ o.letter \notin DOMAIN Defaults[prog]
    /\ Ends(prog, "refused")

\* What is left are the operands; client 2 does not miss the one it wants.
OperandsAreRight(prog) ==
    /\ prog = "server" => line.operands = 0
    /\ prog = "client" => line.operands = 1
    /\ prog = "client2" => line.operands <= 1

Finish(prog) ==
    /\ status[prog] = "parses"
    /\ taken[prog] = Len(line.options)
    /\ Ends(prog, IF OperandsAreRight(prog) THEN "started" ELSE "refused")

\* newGame(), setRoundTimer(): the period goes into tv_nsec as it is, and
\* timerfd_settime() wants less than a second there.  A rate of 0, which only
\* an overflow lets in, is divided by.
StartFirstGame ==
    /\ status["server"] = "started"
    /\ IF setting["server"].v = 0 THEN TRUE
       ELSE NanoSec \div setting["server"].v >= NanoSec
    /\ Ends("server", "failed")

Next ==
    \/ \E prog \in Programs :
           \/ Begin(prog)
           \/ \E o \in ToSet(line.options) :
                  \/ TakeNumber(prog, o)
                  \/ TakeName(prog, o)
                  \/ TakeGuiServer(prog, o)
                  \/ TakeUnknown(prog, o)
           \/ Finish(prog)
    \/ StartFirstGame

Spec == Init /\ [][Next]_vars

-----------------------------------------------------------------------------
(* Properties *)

\* Every variable keeps its type; the numbers of a program are in the width of
\* their variables.
TypeOK ==
    /\ status \in [Programs -> {"waits", "parses", "refused", "started", "failed"}]
    /\ \A prog \in Programs :
           /\ taken[prog] \in 0..Len(line.options)
           /\ \A l \in Numeric(prog) : setting[prog][l] \in 0..(Width(l) - 1)

IsRunning(prog) == status[prog] \in {"started", "failed"}

\* Option k is the last with its letter.
IsLast(k) ==
    \A j \in (k + 1)..Len(line.options) :
        line.options[j].letter # line.options[k].letter

\* Digits that no int64_t holds.
IsHuge(t) == t.digits >= Wide

\* A number as a reader of the command line reads it.
Written(t) == IF t.minus THEN -t.digits ELSE t.digits

\* A program that starts has every number that was given to it, the last one
\* if there are several, or else the default, and within the limits of its
\* option: signs, spaces, the conversions to int64_t and then to the narrow
\* variables change none, unless the digits do not fit into 64 bits
\* (numFromArg(), setProgramParameters(), set_parameters()).
NumbersAreAsWritten ==
    \A prog \in {q \in Programs : IsRunning(q)} : \A l \in Numeric(prog) :
        LET given == {k \in DOMAIN line.options : line.options[k].letter = l}
        IN  /\ given = {} => setting[prog][l] = Defaults[prog][l]
            /\ \A k \in given :
                   LET t == line.options[k].text
                   IN  IsLast(k) /\ ~IsHuge(t)
                       => /\ setting[prog][l] = Written(t)
                          /\ setting[prog][l] >= Limits[prog][l].lo
                          /\ setting[prog][l] <= Limits[prog][l].hi

\* A command line that client 1 would not refuse but client 2 does.
IsOnlyForClient1 ==
    \E o \in ToSet(line.options) :
        \/ o.letter \in {"p", "r"} /\ o.text.space
        \/ o.letter = "n" /\ o.text.length > 20

\* With the operand that both usages name, the two clients start on the same
\* command lines and with the same parameters; the only differences are white
\* space before a port and names of more than 20 characters, which client 2
\* refuses, and numbers that do not fit.
ClientsAgree ==
    /\ IsDone("client") /\ IsDone("client2")
    /\ line.operands = 1
    /\ \A o \in ToSet(line.options) : ~IsHuge(o.text)
    => /\ IsRunning("client2") <=> IsRunning("client") /\ ~IsOnlyForClient1
       /\ IsRunning("client2") => setting["client2"] = setting["client"]

\* A client that has started and whose datagrams are too long for the server
\* is client 1 with a name of more than 20 characters (tests_300.py:73).
IgnoredNamesAreLong ==
    \A prog \in {q \in {"client", "client2"} : IsRunning(q)} :
        \A name \in ToSet(setting[prog].n) :
            ~IsHeard(name) => prog = "client" /\ name.length > 20

\* The server ends with its first game only at a rate of one round per second,
\* or one that does not fit.
FailsOnlyAtOne ==
    status["server"] = "failed"
    => \/ setting["server"].v = 1
       \/ \E o \in ToSet(line.options) : o.letter = "v" /\ IsHuge(o.text)

\* The server can play games at every rate that it accepts, 1 to 250
\* (MIN_ROUNDS_PER_SEC in src/tests/server_parameter_tests.py).
RatesCanBePlayed == status["server"] # "failed"
=============================================================================
