------------------------------ MODULE Numbers ------------------------------
(***************************************************************************)
(* Numbers of 32 bits in a datagram.  addNumber() writes them as four      *)
(* bytes, the highest first.  Client 2 reads them back with get_dword().   *)
(* The server and client 1 read them with loops over buffers of char,      *)
(* which is signed with the compilers and flags of the makefile: a byte    *)
(* from Base/2 on counts as itself less Base.                              *)
(*                                                                         *)
(* Base is 256 in the code.  The theorems hold for it; runs take a smaller *)
(* one, so that a number fits TLC's integers.                              *)
(***************************************************************************)
EXTENDS Integers

CONSTANT Base       \* values of a byte

ASSUME BaseAssumption == Base \in {4, 64, 256}

Byte == 0..(Base - 1)

Words == Base * Base * Base * Base

Word == 0..(Words - 1)

\* The number without its lowest byte.
Shift(n) == n \div Base

\* htonl() and toByte().
AddNumber(n) ==
    <<Shift(Shift(Shift(n))), Shift(Shift(n)) % Base, Shift(n) % Base, n % Base>>

\* A byte read as a char.
Char(b) == IF b < Base \div 2 THEN b ELSE b - Base

Join(a, b, c, d) == ((a * Base + b) * Base + c) * Base + d

\* The loops of the server and of client 1: a sum in a uint32_t.
ReadNumber(s) == Join(Char(s[1]), Char(s[2]), Char(s[3]), Char(s[4])) % Words

\* be32toh() of client 2, whose buffer is of uint8_t.
GetDword(s) == Join(s[1], s[2], s[3], s[4])

\* What the server and client 1 make of a number sent to them.
AsRead(n) == ReadNumber(AddNumber(n))

\* No byte that is sent for n is negative as a char, except the first one,
\* whose carry is lost.
IsPlain(n) ==
    \A i \in 2..4 : AddNumber(n)[i] < Base \div 2
=============================================================================
