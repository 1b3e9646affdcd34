------------------------------ MODULE Bprintf --------------------------------
(***************************************************************************)
(* vbprintf of lib/bprintf.c: what it writes to a buffer of max characters *)
(* for a format and its arguments.  A format, an output and a string are   *)
(* sequences of characters, which are TLA+ strings of length 1.  An        *)
(* argument is a record of a number and a string, of which one is used.    *)
(***************************************************************************)
EXTENDS Integers, SequencesExt, FiniteSetsExt

CONSTANT Bits       \* of the types char, short, long and longlong

ASSUME BprintfAssumption ==
    /\ Bits \in [{"char", "short", "long", "longlong"} -> Nat \ {0}]
    /\ Bits.char < Bits.short /\ Bits.short < Bits.long /\ Bits.long < Bits.longlong

\* What the proofs know of powers of 2.
ASSUME BitsDouble == \A k \in 0 .. Bits.longlong - 1 : 2^(k + 1) = 2 * 2^k

\* The conversions of an argument to a type.
Unsigned(n, type) == n % 2^Bits[type]
Signed(n, type) ==
    LET u == Unsigned(n, type) IN IF u < 2^(Bits[type] - 1) THEN u ELSE u - 2^Bits[type]

\* size_t and unsigned are as wide as long.
Size(n) == Unsigned(n, "long")

DecimalDigits == <<"0", "1", "2", "3", "4", "5", "6", "7", "8", "9">>
LowerDigits == DecimalDigits \o <<"a", "b", "c", "d", "e", "f">>
UpperDigits == DecimalDigits \o <<"A", "B", "C", "D", "E", "F">>
DigitValue(char) == (CHOOSE k \in DOMAIN DecimalDigits : DecimalDigits[k] = char) - 1

Repeat(char, n) == [k \in 1 .. n |-> char]

\* How much of a piece of text still fits.  The pieces are written one after
\* the other, so what is written is the pieces up to where the buffer is full.
Fits(text, room) == SubSeq(text, 1, Min({Len(text), room}))
-----------------------------------------------------------------------------
(* The parser of a conversion. *)

\* Where the characters of a set end.  A conversion ends with a letter.
EndOfRun(format, at, chars) == Min({k \in at .. Len(format) : format[k] \notin chars})

\* A width or a precision: digits, or *, which takes an argument.
Numeral(format, at, args) ==
    LET end == EndOfRun(format, at, ToSet(DecimalDigits))
        value == FoldLeft(LAMBDA v, char : Size(10 * v + DigitValue(char)), 0,
                          SubSeq(format, at, end - 1))
    IN  IF format[at] = "*"
        THEN [value |-> Head(args).num, at |-> at + 1, args |-> Tail(args)]
        ELSE [value |-> value, at |-> end, args |-> args]

NoPrecision == -1

Precision(format, at, args) ==
    IF format[at] = "." THEN Numeral(format, at + 1, args)
    ELSE [value |-> NoPrecision, at |-> at, args |-> args]

LengthEnd(format, at) ==
    IF format[at] \notin {"h", "l"} THEN at
    ELSE IF format[at + 1] = format[at] THEN at + 2 ELSE at + 1

LengthOf(modifier) ==
    CASE modifier = <<"h", "h">> -> "char"
      [] modifier = <<"h">> -> "short"
      [] modifier = <<"l", "l">> -> "longlong"
      [] OTHER -> "long"

Flags == {"#", "0", "-", " ", "+"}

\* What stands between % and the letter of the conversion.  A width that is
\* negative is one that is adjusted on the left.
Parse(format, at, args) ==
    LET f == EndOfRun(format, at, Flags)
        flags == ToSet(SubSeq(format, at, f - 1))
        width == Numeral(format, f, args)
        precision == Precision(format, width.at, width.args)
        letter == LengthEnd(format, precision.at)
    IN  [letter |-> format[letter],
         length |-> LengthOf(SubSeq(format, precision.at, letter - 1)),
         flags |-> flags \cup IF width.value < 0 THEN {"-"} ELSE {},
         min_width |-> IF width.value < 0 THEN -width.value ELSE width.value,
         precision |-> IF precision.at = width.at THEN NoPrecision ELSE Size(precision.value),
         at |-> letter + 1, args |-> precision.args]

HasPrecision(spec) == spec.precision # NoPrecision
-----------------------------------------------------------------------------
(* Numbers: what comes before the digits, and the digits. *)

\* The loop that divides the number by its base.
DigitsOf(num, base, chars) ==
    LET from[n \in 0 .. num] ==
            IF n < base THEN <<chars[n + 1]>> ELSE Append(from[n \div base], chars[(n % base) + 1])
    IN  from[num]

\* No digit stands for zero when there is a precision, whatever that is.
DigitsOrNone(spec, num, base, chars) ==
    IF num = 0 /\ HasPrecision(spec) THEN <<>> ELSE DigitsOf(num, base, chars)

\* The digits of the least number, which cannot be negated, are written out.
SignedNumber(spec, arg) ==
    LET num == Signed(arg.num, spec.length)
        sign == CASE num < 0 -> <<"-">>
                  [] num >= 0 /\ "+" \in spec.flags -> <<"+">>
                  [] num >= 0 /\ "+" \notin spec.flags /\ " " \in spec.flags -> <<" ">>
                  [] OTHER -> <<>>
    IN  [prefix |-> sign,
         digits |-> DigitsOrNone(spec, IF num < 0 THEN -num ELSE num, 10, DecimalDigits)]

\* A long long zero keeps its prefix if it has a precision, another zero has none.
UnsignedNumber(spec, arg, base, chars, prefix) ==
    LET num == Unsigned(arg.num, spec.length)
        alternative == /\ "#" \in spec.flags
                       /\ num = 0 => spec.length = "longlong" /\ HasPrecision(spec)
    IN  [prefix |-> IF alternative THEN prefix ELSE <<>>,
         digits |-> DigitsOrNone(spec, num, base, chars)]

Pointer(num) ==
    IF num = 0 THEN [prefix |-> <<>>, digits |-> <<"(", "n", "i", "l", ")">>]
    ELSE [prefix |-> <<"0", "x">>, digits |-> DigitsOf(num, 16, LowerDigits)]

Number(spec, arg) ==
    CASE spec.letter \in {"d", "i"} -> SignedNumber(spec, arg)
      [] spec.letter = "u" -> UnsignedNumber(spec, arg, 10, DecimalDigits, <<>>)
      [] spec.letter = "o" -> UnsignedNumber(spec, arg, 8, DecimalDigits, <<"0">>)
      [] spec.letter = "x" -> UnsignedNumber(spec, arg, 16, LowerDigits, <<"0", "x">>)
      [] spec.letter = "X" -> UnsignedNumber(spec, arg, 16, UpperDigits, <<"0", "X">>)
      [] spec.letter = "p" -> Pointer(Unsigned(arg.num, "long"))

\* A null pointer is not padded with zeros.
ZeroPadded(spec, n) == "0" \in spec.flags /\ n.digits # Pointer(0).digits
-----------------------------------------------------------------------------
(* The fields. *)

\* The zeros that make up for the digits a precision asks for: the code
\* subtracts the number of digits from 0, not from the precision.
precision_count(spec, n) ==
    IF HasPrecision(spec) /\ Len(n.digits) < spec.precision THEN Size(0 - Len(n.digits)) ELSE 0

total_width(spec, n) == Size(Len(n.digits) + precision_count(spec, n) + Len(n.prefix))

\* Of a field that is wide or has many zeros, room characters are enough.
Zeros(spec, n, room) == Repeat("0", Min({precision_count(spec, n), room}))
Padding(char, spec, n, room) ==
    Repeat(char, Min({Max({0, spec.min_width - total_width(spec, n)}), room}))

\* A slip: when it is padded on the left, the sign is written although the
\* padding has filled the buffer.
NumberField_NoRoomTest(spec, n, room) ==
    IF spec.min_width <= total_width(spec, n) \/ "-" \in spec.flags
    THEN Fits(n.prefix \o Zeros(spec, n, room) \o n.digits, room)
    ELSE LET w == Padding(" ", spec, n, room)
         IN  w \o n.prefix \o Fits(n.digits, Max({0, room - Len(w) - Len(n.prefix)}))

NumberField(spec, n, room) ==
    LET number == n.prefix \o Zeros(spec, n, room) \o n.digits IN
    IF spec.min_width <= total_width(spec, n) \/ "-" \in spec.flags
    THEN Fits(number \o Padding(" ", spec, n, room), room)
    ELSE LET char == IF HasPrecision(spec) \/ ~ZeroPadded(spec, n) THEN " " ELSE "0"
         IN  Fits(Padding(char, spec, n, room) \o number, room)

\* A slip: the padding is put on the other side.
TextField_OtherSide(spec, text, room) ==
    LET w == Repeat(" ", Min({Max({0, spec.min_width - Len(text)}), room})) IN
    Fits(IF "-" \in spec.flags THEN w \o text ELSE text \o w, room)

\* %c and %s, which is padded on the side that is not adjusted.
TextField(spec, text, room) ==
    LET w == Repeat(" ", Min({Max({0, spec.min_width - Len(text)}), room})) IN
    Fits(IF "-" \in spec.flags THEN text \o w ELSE w \o text, room)

\* What a letter writes.  %n writes to the caller's memory only, and an
\* unknown letter, which takes no argument, nothing at all.
Field(spec, args, room) ==
    CASE spec.letter \in {"d", "i", "u", "o", "x", "X", "p"} ->
            NumberField(spec, Number(spec, Head(args)), room)
      [] spec.letter \in {"c", "s"} -> TextField(spec, Head(args).str, room)
      [] OTHER -> <<>>

TakesArgument(spec) == spec.letter \in {"d", "i", "u", "o", "x", "X", "p", "c", "s", "n"}
-----------------------------------------------------------------------------
(* The loop of vbprintf: what is left of the format and the arguments, and *)
(* what was written.                                                       *)

ArgumentsAfter(spec) == IF TakesArgument(spec) THEN Tail(spec.args) ELSE spec.args

Convert(state, spec, max) ==
    [at |-> spec.at,
     args |-> ArgumentsAfter(spec),
     text |-> state.text \o Field(spec, spec.args, max - Len(state.text))]

IsConversion(format, at) == format[at] = "%" /\ format[at + 1] # "%"

\* A character that is written as it is: of %% only one is.
Copied(state, format) ==
    [state EXCEPT !.text = Append(@, format[state.at]),
                  !.at = @ + IF format[state.at] = "%" THEN 2 ELSE 1]

Iterate(state, format, max) ==
    CASE state.at > Len(format) \/ Len(state.text) = max -> state
      [] state.at <= Len(format) /\ Len(state.text) < max /\ IsConversion(format, state.at) ->
            Convert(state, Parse(format, state.at + 1, state.args), max)
      [] OTHER -> Copied(state, format)

vbprintf(max, format, args) ==
    FoldLeft(LAMBDA state, k : Iterate(state, format, max),
             [at |-> 1, args |-> args, text |-> <<>>],
             [k \in DOMAIN format |-> k]).text

\* What the compiler checks of a call, by the format attribute of kprintf.h:
\* a conversion ends within the format, and each argument it takes is there.
Checked(format, at, args) ==
    LET f == EndOfRun(format, at, Flags)
        width == Numeral(format, f, args)
        spec == Parse(format, at, args)
    IN  /\ \E k \in at .. Len(format) :
            format[k] \notin Flags \cup ToSet(DecimalDigits) \cup {"*", ".", "h", "l"}
        /\ format[f] = "*" => args # <<>>
        /\ (format[width.at] = "." /\ format[width.at + 1] = "*") => width.args # <<>>
        /\ TakesArgument(spec) => spec.args # <<>>

Check(state, format) ==
    LET spec == Parse(format, state.at + 1, state.args)
        ends == state.at = Len(format) /\ format[state.at] = "%"
        fails == [state EXCEPT !.ok = FALSE]
    IN  CASE ~state.ok \/ state.at > Len(format) -> state
          [] state.ok /\ state.at <= Len(format) /\ ends -> fails
          [] state.ok /\ state.at <= Len(format) /\ ~ends /\ IsConversion(format, state.at) ->
                IF Checked(format, state.at + 1, state.args)
                THEN [at |-> spec.at, args |-> ArgumentsAfter(spec), ok |-> TRUE]
                ELSE fails
          [] OTHER -> [state EXCEPT !.at = @ + IF format[@] = "%" THEN 2 ELSE 1]

WellFormed(format, args) ==
    FoldLeft(LAMBDA state, k : Check(state, format), [at |-> 1, args |-> args, ok |-> TRUE],
             [k \in DOMAIN format |-> k]).ok
-----------------------------------------------------------------------------
(* What printf prints for a conversion, after the C standard, in the cases *)
(* where the code is like printf.                                          *)

Places(num, base, chars) ==
    LET n == CHOOSE n \in 1 .. 22 : num < base^n /\ (n > 1 => num >= base^(n - 1)) IN
    [k \in 1 .. n |-> chars[((num \div base^(n - k)) % base) + 1]]

PrintfDigits(spec, num) ==
    LET digits == CASE spec.letter \in {"d", "i", "u"} -> Places(num, 10, DecimalDigits)
                    [] spec.letter = "o" -> Places(num, 8, DecimalDigits)
                    [] spec.letter \in {"x", "p"} -> Places(num, 16, LowerDigits)
                    [] spec.letter = "X" -> Places(num, 16, UpperDigits)
    IN  IF num = 0 /\ spec.precision = 0 THEN <<>>
        ELSE Repeat("0", Max({0, spec.precision - Len(digits)})) \o digits

PrintfValue(spec, num) ==
    IF spec.letter \in {"d", "i"} THEN Signed(num, spec.length) ELSE Unsigned(num, spec.length)

PrintfPrefix(spec, num) ==
    CASE num < 0 -> <<"-">>
      [] num >= 0 /\ spec.letter \in {"d", "i"} /\ "+" \in spec.flags -> <<"+">>
      [] num >= 0 /\ spec.letter \in {"d", "i"} /\ "+" \notin spec.flags /\ " " \in spec.flags -> <<" ">>
      [] num # 0 /\ (spec.letter = "p" \/ (spec.letter = "x" /\ "#" \in spec.flags)) -> <<"0", "x">>
      [] num # 0 /\ spec.letter = "X" /\ "#" \in spec.flags -> <<"0", "X">>
      [] num # 0 /\ spec.letter = "o" /\ "#" \in spec.flags -> <<"0">>
      [] OTHER -> <<>>

\* The conversions the kernel uses: no more digits than there are, and no
\* zeros before a sign or 0x, which the code gets wrong; no null pointer, and
\* no prefix of a zero with a precision.
LikePrintf(spec, arg) ==
    \/ spec.letter \in {"c", "s", "n"}
    \/ LET num == PrintfValue(spec, arg.num)
           n == Number(spec, arg)
       IN  /\ Len(n.digits) >= spec.precision
           /\ "0" \in spec.flags => HasPrecision(spec) \/ "-" \in spec.flags \/ n.prefix \in {<<>>, <<"0">>}
           /\ num = 0 => spec.letter # "p" /\ ("#" \in spec.flags => ~HasPrecision(spec))

PrintfField(spec, arg) ==
    LET number == spec.letter \notin {"c", "s"}
        num == PrintfValue(spec, arg.num)
        prefix == IF number THEN PrintfPrefix(spec, num) ELSE <<>>
        body == IF number THEN PrintfDigits(spec, IF num < 0 THEN -num ELSE num) ELSE arg.str
        w == spec.min_width - Len(body) - Len(prefix)
        zeros == number /\ "0" \in spec.flags /\ "-" \notin spec.flags /\ ~HasPrecision(spec)
    IN  CASE w <= 0 -> prefix \o body
          [] w > 0 /\ "-" \in spec.flags -> prefix \o body \o Repeat(" ", w)
          [] w > 0 /\ zeros -> prefix \o Repeat("0", w) \o body
          [] OTHER -> Repeat(" ", w) \o prefix \o body

\* What is printed for a whole format, and whether all of it is like printf.
PrintfConversion(state, spec) ==
    [at |-> spec.at,
     args |-> ArgumentsAfter(spec),
     text |-> state.text \o IF spec.letter = "n" \/ ~TakesArgument(spec) THEN <<>>
                            ELSE PrintfField(spec, Head(spec.args)),
     like |-> state.like /\ TakesArgument(spec) /\ LikePrintf(spec, Head(spec.args))]

PrintfIterate(state, format) ==
    CASE state.at > Len(format) -> state
      [] state.at <= Len(format) /\ IsConversion(format, state.at) ->
            PrintfConversion(state, Parse(format, state.at + 1, state.args))
      [] OTHER -> Copied(state, format)

Printf(format, args) ==
    FoldLeft(LAMBDA state, k : PrintfIterate(state, format),
             [at |-> 1, args |-> args, text |-> <<>>, like |-> TRUE],
             [k \in DOMAIN format |-> k])
==============================================================================
