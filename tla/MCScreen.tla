------------------------------- MODULE MCScreen -------------------------------
(* Two writers on a screen of two rows and two columns, and the numbers and *)
(* dates that they print or read.  The functions of Numerals keep no state, *)
(* so what is true of them before the first call is true of every call.     *)
EXTENDS Screen, Numerals

\* From the beginning, a number that a writer prints is written as the numeral
\* of its value, and a text that is read as a number has the value it denotes,
\* with the limits that NumeralsAgree names (textscreen_write_dec,
\* textscreen_write_hex, itoa, atoi).
NumeralsRight == Init => NumeralsAgree

\* From the beginning, a date that a writer prints was converted from BCD to
\* the date it stands for, with its day of the week (rtc_read_datetime,
\* get_weekday_from_date).
ClockRight == Init => CalendarAgrees
=============================================================================
