-------------------------------- MODULE KString --------------------------------
(***************************************************************************)
(* lib/string.c: numbers and names.  A string is the sequence of its       *)
(* characters; a digit is its value.  Spaces come before numbers only.     *)
(***************************************************************************)
EXTENDS Integers, Sequences, SequencesExt

CONSTANT IntMax      \* the largest int

ASSUME IntAssumption == IntMax \in Nat \ {0}

\* Characters that are not digits.
Ex == 16
Minus == 17
Space == 18

\* What is left of n after each of m rounds of a loop that divides by b.
Rest(n, b, m) == LET q[k \in 0 .. m] == IF k = 0 THEN n ELSE q[k - 1] \div b IN q

\* The loop ends as soon as nothing is left.
Rounds(n, b) == CHOOSE k \in 0 .. n : /\ Rest(n, b, n)[k] = 0
                                      /\ \A j \in 0 .. k - 1 : Rest(n, b, n)[j] # 0

\* The digits of n, lowest first; none for 0.
Digits(n, b) == [k \in 1 .. Rounds(n, b) |-> Rest(n, b, n)[k - 1] % b]

\* -number of the smallest int is undefined; negation leaves it as it is, and
\* the loop over its digits does not start.
Magnitude(n) == IF n < 0 /\ n # -IntMax - 1 THEN -n ELSE n

\* What the loops write: the lowest digit first, the sign last.
Backwards(n) == (IF n = 0 THEN <<0>> ELSE IF Magnitude(n) < 0 THEN <<>> ELSE Digits(Magnitude(n), 10))
                    \o (IF n < 0 THEN <<Minus>> ELSE <<>>)

\* Slip: what was written is not turned round.
dec2str_unturned(n) == Backwards(n)

dec2str(n) == Reverse(Backwards(n))

\* One digit is padded to two.
hex2str(n) ==
    LET digits == IF n = 0 THEN <<0>> ELSE Digits(n, 16)
    IN  Reverse((digits \o (IF n < 16 THEN <<0>> ELSE <<>>)) \o <<Ex, 0>>)

\* What a string of digits stands for, the most significant first.
Value(b, digits) ==
    LET v[i \in 0 .. Len(digits)] == IF i = 0 THEN 0 ELSE (b * v[i - 1]) + digits[i]
    IN  v[Len(digits)]

\* Spaces and a prefix are passed over, then len characters are taken.
hex2int(hex, len) ==
    LET start == Min({i \in 1 .. Len(hex) : hex[i] # Space} \cup {Len(hex) + 1})
        from == IF start < Len(hex) /\ hex[start] = 0 /\ hex[start + 1] = Ex THEN start + 2 ELSE start
    IN  Value(16, SubSeq(hex, from, (from + len) - 1))

\* Characters are compared only if the lengths agree.
kstrcmp(a, b) == IF Len(a) # Len(b) THEN 1 ELSE IF \E i \in 1 .. Len(a) : a[i] # b[i] THEN 1 ELSE 0
=============================================================================
