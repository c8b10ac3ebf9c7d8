------------------------------- MODULE Numerals -------------------------------
(***************************************************************************)
(* Numbers as text and dates: what printf writes for %d and %x             *)
(* (src/textscreen.c), itoa and atoi (src/common.c), and what src/rtc.c    *)
(* makes of the registers of the clock.                                    *)
(*                                                                         *)
(* A character is its ASCII code, a text the sequence of its characters    *)
(* without the 0 at its end.  int32_t and uint32_t have WordSize values.   *)
(***************************************************************************)
EXTENDS Integers, SequencesExt

CONSTANT WordSize       \* 2^32

ASSUME NumeralsAssumption == WordSize \in Nat /\ WordSize > 16 /\ WordSize % 2 = 0

Words == 0 .. WordSize - 1
Ints == -(WordSize \div 2) .. WordSize \div 2 - 1
Word(n) == n % WordSize
Signed(n) == IF Word(n) < WordSize \div 2 THEN Word(n) ELSE Word(n) - WordSize

Minus == 45
DigitChar(d) == 48 + d          \* "0123456789"[d]

-----------------------------------------------------------------------------
(* Writing. *)

\* textscreen_write_dec behind its sign; r and n are remainder and quotient
\* rounded down.
WriteDec[value \in Ints] ==
    (IF value >= 10 THEN WriteDec[value \div 10] ELSE <<>>) \o <<DigitChar(value % 10)>>

\* -value of the smallest integer is that integer again.
textscreen_write_dec(value) ==
    IF value < 0 THEN <<Minus>> \o WriteDec[Signed(-value)] ELSE WriteDec[value]

\* "0123456789ABCDEF"[r]
textscreen_write_hex[value \in Words] ==
    (IF value >= 16 THEN textscreen_write_hex[value \div 16] ELSE <<>>)
        \o <<IF value % 16 < 10 THEN DigitChar(value % 16) ELSE (value % 16) - 10 + 65>>

\* itoa: the do loop writes the lowest digit first, the for loop turns the
\* text round.
itoa(n, base) ==
    LET LowFirst[m \in Words] ==
            <<IF m % base < 10 THEN DigitChar(m % base) ELSE (m % base) - 10 + 97>>
                \o (IF m \div base # 0 THEN LowFirst[m \div base] ELSE <<>>)
    IN  Reverse(LowFirst[n])

-----------------------------------------------------------------------------
(* Reading. *)

isdigit(c) == c \in 48 .. 57
islower(c) == c \in 97 .. 122
toupper(c) == IF islower(c) THEN c - 32 ELSE c
ishex(c) == isdigit(toupper(c)) \/ toupper(c) \in 65 .. 70

\* atoi(str, "%d"): from the last character to the first that is no digit.
\* After[i] is out and pow when str[i] is next.
atoiDec(str) ==
    LET neg == str # <<>> /\ str[1] = Minus
        s == IF neg THEN Tail(str) ELSE str
        Digits(i) == \A j \in i .. Len(s) : isdigit(s[j])
        After[i \in 0 .. Len(s)] ==
            IF i = Len(s) THEN [out |-> 0, pow |-> 1]
            ELSE IF ~Digits(i + 1) THEN After[i + 1]
            ELSE [out |-> Word(After[i + 1].out + (s[i + 1] - 48) * After[i + 1].pow),
                  pow |-> Word(After[i + 1].pow * 10)]
    IN  Signed(IF neg THEN -After[0].out ELSE After[0].out)

\* power: 0 to the exponent 0, whatever the base.
power(base, exponent) ==
    LET result[e \in 0 .. exponent] == IF e = 0 THEN 1 ELSE Word(result[e - 1] * base)
    IN  IF exponent = 0 THEN 0 ELSE result[exponent]

\* Mutant of Weight: without the test of depth.
WeightByPower(depth) == power(16, depth)

\* What the digit counts that has depth digits behind it.
Weight(depth) == IF depth = 0 THEN 1 ELSE power(16, depth)

HexDigit(c) == IF isdigit(toupper(c)) THEN toupper(c) - 48 ELSE toupper(c) - 65 + 10

\* atoi(str, "%x"): up to the first character that is no digit, whose index
\* is found first and counted down.
atoiHex(str) ==
    LET end == SelectInSeq(str, LAMBDA c : ~ishex(c))
        depth == IF end = 0 THEN Len(str) ELSE end - 1
        Result[i \in 0 .. depth] ==
            IF i = 0 THEN 0
            ELSE Word(Result[i - 1] + HexDigit(str[i]) * Weight(depth - i))
    IN  Signed(Result[depth])

-----------------------------------------------------------------------------
(* The clock. *)

\* rtc_read_datetime: registers that hold two decimal digits; the hour has
\* its pm bit on top.
FromBcd(x) == (x % 16) + (x \div 16) * 10
HourFromBcd(x) == (x % 16) + ((x % 128) \div 16) * 10 + (x \div 128) * 128

\* Mutant of is_leap_year: the month is not looked at.
LeapWholeYear(year, month) == IF year % 4 = 0 THEN 1 ELSE 0

is_leap_year(year, month) == IF year % 4 = 0 /\ month \in {1, 2} THEN 1 ELSE 0

MonthCode == <<0, 3, 3, 6, 1, 4, 6, 2, 5, 0, 3, 5>>

\* 0 is Sunday; the century is always the 21st, whose code is 6.
get_weekday_from_date(year, month, day) ==
    (((year + year \div 4) % 7) + MonthCode[month] + 6 + day - is_leap_year(year, month)) % 7

-----------------------------------------------------------------------------
(* What the texts and the dates are meant to be. *)

DigitOf(c) == CASE c \in 48 .. 57 -> c - 48
                [] c \in 65 .. 70 -> c - 55
                [] c \in 97 .. 102 -> c - 87

Value(text, base) ==
    LET v[i \in 0 .. Len(text)] == IF i = 0 THEN 0 ELSE v[i - 1] * base + DigitOf(text[i])
    IN  v[Len(text)]

IsNumeral(text, base, value) ==
    /\ text # <<>>
    /\ \A i \in DOMAIN text : /\ text[i] \in 48 .. 57 \cup 65 .. 70 \cup 97 .. 102
                              /\ DigitOf(text[i]) < base
    /\ text[1] = 48 => Len(text) = 1
    /\ Value(text, base) = value

\* What is typed behind a number: nothing, a blank, a blank and a digit, a
\* letter that is no digit.
Endings == {<<>>, <<32>>, <<32, 49>>, <<103>>}

\* Digits with leading zeros and more than a word holds, in both cases.
TypedHex == UNION {[1 .. n -> {48, 49, 57, 65, 70, 97, 102}] : n \in 1 .. 4}
TypedDec == UNION {[1 .. n -> {48, 49, 50, 57}] : n \in 1 .. 4}

\* The numbers that printf and itoa write are the numerals of their values,
\* without leading zeros, for every value of a word but the smallest integer,
\* whose sign -value does not change; atoi reads back what they wrote and
\* reads what a user types modulo the word, to the first character that is no
\* digit (%x); with %d it reads nothing in front of such a character.
NumeralsAgree ==
    /\ \A v \in Words : /\ IsNumeral(textscreen_write_hex[v], 16, v)
                        /\ \A base \in {10, 16} : IsNumeral(itoa(v, base), base, v)
    /\ \A v \in Ints \ {-(WordSize \div 2)} :
        LET t == textscreen_write_dec(v)
        IN  /\ IF v < 0 THEN t[1] = Minus /\ IsNumeral(Tail(t), 10, -v)
               ELSE IsNumeral(t, 10, v)
            /\ atoiDec(t) = v
            /\ \A e \in Endings \ {<<>>} :
                atoiDec(t \o e) = (IF isdigit(Last(e)) THEN Value(<<Last(e)>>, 10) ELSE 0)
                                    * (IF v < 0 THEN -1 ELSE 1)
    /\ \A v \in Words, e \in Endings :
        /\ atoiHex(textscreen_write_hex[v] \o e) = Signed(v)
        /\ atoiHex(itoa(v, 16) \o e) = Signed(v)
    /\ \A t \in TypedHex : atoiHex(t) = Signed(Value(t, 16))
    /\ \A t \in TypedDec : atoiDec(t) = Signed(Value(t, 10))

\* Two decimal digits as the clock stores them.
Bcd(n) == (n \div 10) * 16 + (n % 10)

DaysOf(year, month) ==
    CASE month = 2 -> IF year % 4 = 0 THEN 29 ELSE 28
      [] month \in {4, 6, 9, 11} -> 30
      [] OTHER -> 31

\* The days from 1 January 2000, a Saturday, to the first of a month.
DaysBefore[month \in 0 .. 1200] ==
    IF month = 0 THEN 0
    ELSE DaysBefore[month - 1] + DaysOf((month - 1) \div 12, ((month - 1) % 12) + 1)

\* Whatever the registers of the clock hold between 2000 and 2099 is
\* converted to the numbers it stands for, the pm bit of the hour kept, and
\* the table of months with the correction for leap years finds the day of
\* the week that counting the days does.
CalendarAgrees ==
    /\ \A n \in 0 .. 99 : FromBcd(Bcd(n)) = n
    /\ \A n \in 0 .. 23, pm \in {0, 128} : HourFromBcd(Bcd(n) + pm) = n + pm
    /\ \A year \in 0 .. 99, month \in 1 .. 12 : \A day \in 1 .. DaysOf(year, month) :
        get_weekday_from_date(year, month, day)
            = (6 + DaysBefore[12 * year + month - 1] + day - 1) % 7
=============================================================================
