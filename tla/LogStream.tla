----------------------------- MODULE LogStream -----------------------------
(***************************************************************************)
(* myMuduo/lib/LogStream.hpp and LogStream.cpp: the text of one log line   *)
(* grows in a FixedBuffer of SIZE bytes.  A piece that does not fit is     *)
(* dropped whole and a shorter one may still follow.  append asks for the  *)
(* room it needs; a number is converted in place, so its operator asks for *)
(* kMaxNumericSize and trusts that no number is longer.                    *)
(*                                                                         *)
(* The buffer is its length and the last byte written.  shown is the last  *)
(* number converted and what it was converted to.  Numbers of 64 bits are  *)
(* outside TLC's integers: formatSI is given m * 10^e - b, m of at most    *)
(* four digits and b 0 or 1, which reaches both sides of its thresholds;   *)
(* formatIEC is given q / 1024 of its u-th unit.                           *)
(***************************************************************************)
EXTENDS Integers, Sequences, FiniteSetsExt

CONSTANTS SIZE,              \* kSmallBuffer
          kMaxNumericSize,
          TextLens,          \* the lengths of strings
          DoubleLens,        \* the lengths of doubles under %.12g
          Ints, Addresses,   \* the integers and pointers
          Mantissas,         \* for formatSI
          Quotients          \* for formatIEC

VARIABLES cur_,   \* offset of cur_ in data_
          last,   \* the last byte of data_ written since the last reset, or -1
          shown   \* [kind, ...]: the last conversion

vars == <<cur_, last, shown>>

TypeOK == cur_ \in 0 .. SIZE /\ last \in -1 .. SIZE

Init == cur_ = 0 /\ last = -1 /\ shown = [kind |-> "none"]

avail == SIZE - cur_

-----------------------------------------------------------------------------
(* Conversions. *)

(* C divides towards zero: the remainder has the sign of the dividend, and  *)
(* the table of digits is read on both sides of its zero.                   *)
Quotient(i, d) == IF i < 0 THEN -((-i) \div d) ELSE i \div d
Remainder(i, d) == i - (d * Quotient(i, d))

digits == <<9, 8, 7, 6, 5, 4, 3, 2, 1, 0, 1, 2, 3, 4, 5, 6, 7, 8, 9>>
zero == 10

Decimal[i \in Int] ==
    (IF Quotient(i, 10) = 0 THEN <<>> ELSE Decimal[Quotient(i, 10)])
        \o <<digits[zero + Remainder(i, 10)]>>

Hex[i \in Nat] == (IF i < 16 THEN <<>> ELSE Hex[i \div 16]) \o <<i % 16>>

convert(v) == [kind |-> "int", value |-> v, minus |-> v < 0, digits |-> Decimal[v]]
convertHex(v) == [kind |-> "hex", value |-> v, digits |-> Hex[v]]

Width(c) ==
    IF c.kind = "int" THEN Len(c.digits) + (IF c.minus THEN 1 ELSE 0)
    ELSE IF c.kind = "hex" THEN 2 + Len(c.digits)
    ELSE Len(Decimal[c.digits]) + (IF c.decimals > 0 THEN 1 ELSE 0)
             + (IF c.unit = "" THEN 0 ELSE IF c.kind = "si" THEN 1 ELSE 2)

(* printf's rounding of a / d; a tie may go either way.                     *)
Nearest(a, d) ==
    {n \in {a \div d, a \div d + 1} : 2 * (a - n * d) \in -d .. d}

SIUnits == <<"k", "M", "G", "T", "P", "E">>

(* Mutant: the thresholds are where the digits run out, 10000 * 10^k, and   *)
(* not where rounding makes them run out.                                   *)
BelowUnrounded(s, k) == s.e <= k

(* s < 9995 * 10^k, the k-th test of formatSI's ladder.                     *)
Below(s, k) == \/ s.e < k
               \/ s.e = k /\ s.m - s.b < 9995

(* s / 10^(k+1) as printf rounds it.  Just below a tie the quotient rounds  *)
(* down, unless s is too large to be exact as a double.                     *)
SIDigits(s, k) ==
    IF s.e < k THEN Nearest(s.m, 100)
    ELSE IF s.b = 1 /\ s.m % 10 = 5 /\ s.e < 12 THEN {s.m \div 10}
    ELSE Nearest(s.m, 10)

formatSI(s) ==
    LET k == Min({15} \cup {j \in 0 .. 14 : Below(s, j)})
        plain == s.e = 0 /\ s.m - s.b < 1000
    IN  {[kind |-> "si", value |-> s, digits |-> n,
          decimals |-> IF plain THEN 0 ELSE 2 - (k % 3),
          unit |-> IF plain THEN "" ELSE SIUnits[1 + (k \div 3)]] :
            n \in IF plain THEN {s.m - s.b} ELSE SIDigits(s, k)}

IECUnits == <<"Ki", "Mi", "Gi", "Ti", "Pi", "Ei">>

(* n < Ki*9.995, n < Ki*99.95, n < Ki*1023.5, and so on for each unit.      *)
InNextUnit(q, u) == u < 6 /\ 10 * q >= 10235 * 1024
IECDecimals(in, u) == IF 1000 * in < 9995 * 1024 THEN 2
                      ELSE IF 100 * in < 9995 * 1024 \/ u = 6 THEN 1 ELSE 0

formatIEC(q, u) ==
    LET in == IF InNextUnit(q, u) THEN q \div 1024 ELSE q
        decimals == IECDecimals(in, u)
        plain == u = 1 /\ q < 1024
    IN  {[kind |-> "iec", value |-> <<q, u>>, digits |-> n,
          decimals |-> IF plain THEN 0 ELSE decimals,
          unit |-> IF plain THEN "" ELSE IECUnits[IF InNextUnit(q, u) THEN u + 1 ELSE u]] :
            n \in IF plain THEN {q} ELSE Nearest(in * <<1, 10, 100>>[decimals + 1], 1024)}

(* int64_t ends at 9.22 * 10^18, just below 8 Ei.                           *)
SINumbers == {s \in [m : Mantissas, e : 0 .. 15, b : 0 .. 1] :
                 /\ s.e > 0 => s.m >= 1000
                 /\ s.e = 15 => s.m < 9223
                 /\ s.m >= s.b}
IECNumbers == {n \in Quotients \X (1 .. 6) :
                  /\ n[2] > 1 => n[1] >= 1024
                  /\ n[2] = 6 => n[1] < 8192}

(* What staticCheck stands for: no number is as long as the room reserved.  *)
StaticCheck ==
    /\ \A v \in Ints : Width(convert(v)) \in 0 .. kMaxNumericSize - 1
    /\ \A a \in Addresses : Width(convertHex(a)) \in 0 .. kMaxNumericSize - 1
    /\ DoubleLens \subseteq 0 .. kMaxNumericSize - 1

ConstantsOK ==
    /\ SIZE \in Nat \ {0} /\ kMaxNumericSize \in Nat
    /\ TextLens \subseteq Nat
    /\ Ints \subseteq Int /\ Addresses \subseteq Nat
    /\ \A m \in Mantissas : m \in Nat /\ m < 10000
    /\ \A q \in Quotients : q \in Nat /\ q < 1024 * 1024
    /\ StaticCheck

-----------------------------------------------------------------------------
(* The operators of the stream. *)

Written(byte) == last' = Max({last, byte})

(* Mutant: a piece may fill the buffer to its last byte.                    *)
appendTight(len) ==
    IF avail >= len THEN cur_' = cur_ + len /\ Written(cur_ + len - 1)
                    ELSE UNCHANGED <<cur_, last>>

append(len) ==
    IF avail > len THEN cur_' = cur_ + len /\ Written(cur_ + len - 1)
                   ELSE UNCHANGED <<cur_, last>>

(* A number of len bytes and the terminating zero, converted at cur_.       *)
InPlace(len) ==
    IF avail >= kMaxNumericSize THEN cur_' = cur_ + len /\ Written(cur_ + len)
                                ELSE UNCHANGED <<cur_, last>>

PutText(len) == append(len) /\ UNCHANGED shown
PutDouble(len) == InPlace(len) /\ UNCHANGED shown
formatInteger(v) == shown' = convert(v) /\ InPlace(Width(convert(v)))
PutPointer(a) == shown' = convertHex(a) /\ InPlace(Width(convertHex(a)))

PutSI(s) == \E c \in formatSI(s) : shown' = c /\ append(Width(c))
PutIEC(q, u) == \E c \in formatIEC(q, u) : shown' = c /\ append(Width(c))

debugString == Written(cur_) /\ UNCHANGED <<cur_, shown>>

resetBuffer == cur_' = 0 /\ last' = -1 /\ UNCHANGED shown

Next ==
    \/ \E len \in TextLens : PutText(len)
    \/ \E len \in DoubleLens : PutDouble(len)
    \/ \E v \in Ints : formatInteger(v)
    \/ \E a \in Addresses : PutPointer(a)
    \/ \E s \in SINumbers : PutSI(s)
    \/ \E n \in IECNumbers : PutIEC(n[1], n[2])
    \/ debugString
    \/ resetBuffer

Spec == Init /\ [][Next]_vars

-----------------------------------------------------------------------------
(* No sequence of operators writes behind data_, neither a piece nor the    *)
(* zero that convert and debugString put after the text.  append's          *)
(* avail() > len (LogStream.hpp:21) and the room a number asks for          *)
(* (LogStream.cpp:231) have to leave that byte between them.                *)
TerminatorFits == cur_ < SIZE /\ last < SIZE

(* What the digits ds stand for.                                            *)
Value(ds, base) ==
    LET v[n \in 0 .. Len(ds)] == IF n = 0 THEN 0 ELSE (base * v[n - 1]) + ds[n]
    IN  v[Len(ds)]

IntRight(c) == /\ c.value = (IF c.minus THEN -1 ELSE 1) * Value(c.digits, 10)
               /\ Len(c.digits) > 1 => c.digits[1] # 0
HexRight(c) == /\ c.value = Value(c.digits, 16)
               /\ Len(c.digits) > 1 => c.digits[1] # 0

(* The numbers that a double does not tell from their threshold.            *)
InexactTie(s) == s.m = 9995 /\ s.b = 1 /\ s.e >= 12

SIRight(c) == /\ c.unit # "" => c.digits >= 100
              /\ Width(c) <= 5 \/ InexactTie(c.value)
IECRight(c) == /\ c.unit # "" => c.digits >= 100
               /\ Width(c) <= 6

(* The comment of formatSI promises 5 characters, [1.00k, 999k] and so on;  *)
(* that of formatIEC ends at 1023Ki.  For that each threshold must lie where*)
(* the rounding of printf reaches the next digit.  It does except for the   *)
(* last number below 9.995P, 99.95P and 999.5P, which a double does not     *)
(* tell from the threshold: formatSI(99949999999999999) is 100.0P.          *)
(* Integers come out as their decimal or hexadecimal digits.                *)
FormatsAreRight ==
    /\ shown.kind = "int" => IntRight(shown)
    /\ shown.kind = "hex" => HexRight(shown)
    /\ shown.kind = "si" => SIRight(shown)
    /\ shown.kind = "iec" => IECRight(shown)
=============================================================================
