---------------------------- MODULE ShmcCounter ----------------------------
(***************************************************************************)
(* The text of a counter item (shmc_arithmetic in src/shmc.c): how         *)
(* safe_strtoull reads a value and how sprintf writes the new number into  *)
(* the UINT64_SIZE bytes of the item.                                      *)
(***************************************************************************)
EXTENDS Naturals, Sequences

CONSTANTS
    CounterLen,     \* UINT64_SIZE, the value length of a counter item
    CounterMod      \* 2^64: uint64_t arithmetic wraps modulo CounterMod

ASSUME CounterAssumption ==
    /\ CounterLen \in Nat \ {0}
    /\ CounterMod \in Nat \ {0}
    \* the text of any uint64_t, at most CounterLen - 1 digits, fits the value
    /\ \A n \in 0 .. CounterMod - 1 : n < 10 ^ (CounterLen - 1)

(* Value bytes.  Every byte is a string: a digit, a space, the NUL sprintf *)
(* writes, a data byte, or Garbage for bytes nothing has written yet.      *)

DigitSym == <<"0", "1", "2", "3", "4", "5", "6", "7", "8", "9">>
DigitOf(c) == CHOOSE d \in 0 .. 9 : DigitSym[d + 1] = c
IsDigit(c) == \E d \in 1 .. 10 : DigitSym[d] = c
Space == " "
Nul == "NUL"
Garbage == "?"

\* The decimal text of n, as "%"PRIu64 prints it.
RECURSIVE Decimal(_)
Decimal(n) == IF n < 10 THEN <<DigitSym[n + 1]>>
              ELSE Decimal(n \div 10) \o <<DigitSym[(n % 10) + 1]>>

\* safe_strtoull(val, nval): at most UINT64_SIZE-1 leading digits, each
\* folded in as value * 10 + digit in uint64_t arithmetic.
SafeStrtoull(val) ==
    LET lim == IF Len(val) > CounterLen - 1 THEN CounterLen - 1 ELSE Len(val)
        RECURSIVE Fold(_, _)
        Fold(i, acc) == IF i > lim \/ ~IsDigit(val[i]) THEN acc
                        ELSE Fold(i + 1, (acc * 10 + DigitOf(val[i])) % CounterMod)
    IN Fold(1, 0)

\* sprintf(val, "%"PRIu64, n): the digits and a NUL over the front of val,
\* the bytes after them left as they were.
Sprintf(n, val) ==
    LET d == Decimal(n)
    IN [i \in 1 .. Len(val) |-> IF i <= Len(d) THEN d[i]
                                ELSE IF i = Len(d) + 1 THEN Nul ELSE val[i]]

\* memset(val, ' ', UINT64_SIZE)
Spaces == [i \in 1 .. CounterLen |-> Space]

=============================================================================
