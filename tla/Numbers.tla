------------------------------- MODULE Numbers -------------------------------
(***************************************************************************)
(* What the log, the initrd and programs rely on when lib/string.c turns   *)
(* numbers into text and back: for every int, counted up.                  *)
(***************************************************************************)
EXTENDS KString

VARIABLE number

Smallest == number = -IntMax - 1

NextNumber == number < IntMax /\ number' = number + 1

NumbersSpec == Smallest /\ [][NextNumber]_number
-----------------------------------------------------------------------------
\* The digits behind the sign.
Unsigned(s) == IF Head(s) = Minus THEN Tail(s) ELSE s

\* s is n in decimal, without zeros in front.
IsDecimal(n, s) ==
    /\ n = IF Head(s) = Minus THEN -Value(10, Unsigned(s)) ELSE Value(10, Unsigned(s))
    /\ Unsigned(s) # <<>> /\ (Len(Unsigned(s)) > 1 => Head(Unsigned(s)) # 0)
    /\ \A i \in DOMAIN Unsigned(s) : Unsigned(s)[i] \in 0 .. 9

\* Every number but the smallest int is printed as its decimal digits, and what
\* hex2str prints hex2int reads.
NumbersReadBack ==
    /\ number # -IntMax - 1 => IsDecimal(number, dec2str(number))
    /\ number >= 0 => hex2int(hex2str(number), Len(hex2str(number)) - 2) = number
=============================================================================
