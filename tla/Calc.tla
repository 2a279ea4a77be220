-------------------------------- MODULE Calc --------------------------------
(***************************************************************************)
(* user_apps/calc.c: the state machine behind the keys of the calculator,  *)
(* and what its display shows.  A double is an exact fraction here: no key *)
(* sequence of the model comes near its 53 bits.                           *)
(*                                                                         *)
(* The tape is what was typed, kept apart from what the program makes of   *)
(* it: numbers with the operator before each.                              *)
(*                                                                         *)
(* Names that start with Mut are slips of the code.                        *)
(***************************************************************************)
EXTENDS Integers, Sequences, SequencesExt, FiniteSetsExt

CONSTANTS
  Digits, Ops,         \* keys: digits, and operators 1 to 4 (+ - * /)
  MAX_SHOWN,           \* the display says ERR above it (99999999)
  PLACES,              \* ten to the number of decimals shown (10000)
  MaxKeys, MaxParts    \* bounds: keys pressed since C; the denominator before a percent

VARIABLES
  accumulator, input_val, op, has_input, decimal, dec_place, just_result,
  tape,                \* history: [op, num, marks] per number typed; num is a string of digits and POINT
  base,                \* history: what the tape starts from
  odd,                 \* history: a key was pressed where the claim makes none
  calcKeys             \* history

calcVars == <<accumulator, input_val, op, has_input, decimal, dec_place, just_result, tape, base, odd, calcKeys>>

-----------------------------------------------------------------------------
(* Fractions *)

RECURSIVE Gcd(_, _)
Gcd(a, b) == IF b = 0 THEN a ELSE Gcd(b, a % b)
AbsOf(a) == IF a < 0 THEN -a ELSE a
Frac(n, d) == LET s == IF d < 0 THEN -1 ELSE 1
                  g == Gcd(AbsOf(n), AbsOf(d))
              IN  [n |-> (s * n) \div g, d |-> (s * d) \div g]
Zero == [n |-> 0, d |-> 1]
Plus(a, b) == Frac((a.n * b.d) + (b.n * a.d), a.d * b.d)
Minus(a) == [a EXCEPT !.n = -a.n]
Times(a, b) == Frac(a.n * b.n, a.d * b.d)

\* The switch of "=" and of an operator key.
Compute(o, a, b) ==
  CASE o = 1 -> Plus(a, b)
    [] o = 2 -> Plus(a, Minus(b))
    [] o = 3 -> Times(a, b)
    [] o = 4 -> IF b = Zero THEN Zero ELSE Frac(a.n * b.d, a.d * b.n)

-----------------------------------------------------------------------------
(* press *)

POINT == -1
NoEntry == [op |-> 0, num |-> <<>>, marks |-> <<>>]
CalcInit ==
  /\ accumulator = Zero /\ input_val = Zero /\ op = 0 /\ has_input = FALSE
  /\ decimal = FALSE /\ dec_place = 1 /\ just_result = FALSE
  /\ tape = <<NoEntry>> /\ base = Zero /\ odd = FALSE /\ calcKeys = 0

LastEntry == Last(tape)
Ended == just_result
Marked == LastEntry.marks \notin {<<>>, <<"CE">>}
\* What a key does to the history.
Pressed == calcKeys < MaxKeys /\ calcKeys' = calcKeys + 1
Typed(entry) == tape' = Append(Front(tape), entry) /\ UNCHANGED <<base, odd>>
Odd == odd' = TRUE /\ tape' = <<NoEntry>> /\ base' = Zero

\* A digit first forgets a result, then starts a number unless one is being typed.
MutStartsFresh == just_result
StartsFresh == just_result \/ ~has_input
Digit(d) ==
  LET v == IF StartsFresh THEN Zero ELSE input_val
      dec == IF StartsFresh THEN FALSE ELSE decimal
      place == IF StartsFresh THEN 1 ELSE dec_place
  IN  /\ Pressed
      /\ has_input' = TRUE /\ just_result' = FALSE /\ decimal' = dec
      /\ accumulator' = IF just_result THEN Zero ELSE accumulator
      /\ op' = IF just_result THEN 0 ELSE op
      /\ input_val' = IF dec THEN Plus(v, Frac(d, place * 10)) ELSE Plus(Times(v, Frac(10, 1)), Frac(d, 1))
      /\ dec_place' = IF dec THEN place * 10 ELSE place
      /\ IF odd \/ Marked THEN Odd
         ELSE IF Ended THEN tape' = <<[NoEntry EXCEPT !.num = <<d>>]>> /\ base' = Zero /\ UNCHANGED odd
         ELSE Typed([LastEntry EXCEPT !.num = Append(@, d), !.marks = <<>>])
\* The point does not start a number: after an operator it goes on with what is shown.
Point ==
  /\ Pressed
  /\ has_input' = TRUE /\ decimal' = TRUE /\ dec_place' = IF decimal THEN dec_place ELSE 1
  /\ UNCHANGED <<accumulator, input_val, op, just_result>>
  /\ IF odd \/ Ended \/ Marked \/ (LastEntry.num = <<>> /\ input_val # Zero) THEN Odd
     ELSE Typed([LastEntry EXCEPT !.num = Append(@, POINT), !.marks = <<>>])
ClearEntry ==
  /\ Pressed
  /\ input_val' = Zero /\ decimal' = FALSE /\ dec_place' = 1 /\ has_input' = FALSE
  /\ UNCHANGED <<accumulator, op, just_result>>
  /\ IF odd \/ Ended THEN Odd ELSE Typed([LastEntry EXCEPT !.num = <<>>, !.marks = <<"CE">>])
Clear ==
  /\ calcKeys' = 0
  /\ accumulator' = Zero /\ input_val' = Zero /\ op' = 0 /\ has_input' = FALSE
  /\ decimal' = FALSE /\ dec_place' = 1 /\ just_result' = FALSE
  /\ tape' = <<NoEntry>> /\ base' = Zero /\ odd' = FALSE
Negate ==
  /\ Pressed
  /\ input_val' = Minus(input_val)
  /\ UNCHANGED <<accumulator, op, has_input, decimal, dec_place, just_result>>
  /\ IF odd \/ Ended \/ LastEntry.num = <<>> THEN Odd ELSE Typed([LastEntry EXCEPT !.marks = Append(@, "neg")])
Percent ==
  /\ Pressed /\ accumulator.d * input_val.d <= MaxParts
  /\ input_val' = Times(IF op # 0 THEN Times(accumulator, input_val) ELSE input_val, Frac(1, 100))
  /\ has_input' = TRUE
  /\ UNCHANGED <<accumulator, op, decimal, dec_place, just_result>>
  /\ IF odd \/ Ended \/ LastEntry.num = <<>> THEN Odd ELSE Typed([LastEntry EXCEPT !.marks = Append(@, "pct")])

-----------------------------------------------------------------------------
(* The reference: the tape, from left to right *)

\* The digits before the point and those after it.
Whole(num) == FoldLeft(LAMBDA v, k : Plus(Times(v, Frac(10, 1)), Frac(k, 1)), Zero, num)
DigitsOf(num) == SelectSeq(num, LAMBDA k : k # POINT)
PlacesAfter(num) == IF POINT \in ToSet(num) THEN Len(num) - (CHOOSE i \in 1 .. Len(num) : num[i] = POINT /\ \A j \in 1 .. i - 1 : num[j] # POINT)
                                          - Len(SelectSeq(num, LAMBDA k : k = POINT)) + 1
               ELSE 0
Number(num) == Times(Whole(DigitsOf(num)), Frac(1, 10 ^ PlacesAfter(num)))
Operand(v, e) ==
  FoldLeft(LAMBDA x, mark : CASE mark = "neg" -> Minus(x)
                              [] mark = "CE" -> x
                              [] mark = "pct" -> IF e.op = 0 THEN Times(x, Frac(1, 100)) ELSE Times(Times(v, x), Frac(1, 100)),
           Number(e.num), e.marks)
OnPaper(v, e) == IF e.op = 0 THEN Operand(v, e) ELSE Compute(e.op, v, Operand(v, e))
Sofar(entries) == FoldLeft(OnPaper, base, entries)
NoLine(e) == e.num = <<>> /\ e.marks = <<>>
Total == LET v == Sofar(Front(tape))
         IN  IF NoLine(LastEntry) THEN IF LastEntry.op = 0 THEN v ELSE Compute(LastEntry.op, v, v)
             ELSE OnPaper(v, LastEntry)

Equals ==
  /\ Pressed /\ just_result' = TRUE
  /\ IF op = 0 THEN UNCHANGED <<accumulator, input_val, op, has_input, decimal, dec_place>>
     ELSE /\ accumulator' = Compute(op, accumulator, input_val) /\ input_val' = accumulator'
          /\ op' = 0 /\ has_input' = FALSE /\ decimal' = FALSE /\ dec_place' = 1
  /\ IF odd THEN Odd ELSE UNCHANGED <<tape, base, odd>>
Operator(o) ==
  /\ Pressed
  /\ accumulator' = IF op # 0 /\ has_input THEN Compute(op, accumulator, input_val) ELSE input_val
  /\ input_val' = accumulator'
  /\ op' = o /\ has_input' = FALSE /\ decimal' = FALSE /\ dec_place' = 1 /\ just_result' = FALSE
  /\ IF odd \/ LastEntry.marks = <<"CE">> THEN Odd
     ELSE IF Ended THEN base' = Total /\ tape' = <<[NoEntry EXCEPT !.op = o]>> /\ UNCHANGED odd
     ELSE IF NoLine(LastEntry) THEN Typed([LastEntry EXCEPT !.op = o])
     ELSE tape' = Append(tape, [NoEntry EXCEPT !.op = o]) /\ UNCHANGED <<base, odd>>

CalcNext ==
  \/ \E d \in Digits : Digit(d)
  \/ Point \/ ClearEntry \/ Clear \/ Negate \/ Percent \/ Equals
  \/ \E o \in Ops : Operator(o)
CalcSpec == CalcInit /\ [][CalcNext]_calcVars

-----------------------------------------------------------------------------
(* double_to_str *)

\* The digits before the point and four after it, unless they are too small to show.
ShownNumber(v) ==
  LET m == [v EXCEPT !.n = AbsOf(v.n)]
      whole == m.n \div m.d
      rest == (m.n % m.d) * PLACES
  IN  [err |-> m.n > MAX_SHOWN * m.d, minus |-> v.n < 0, whole |-> whole, places |-> IF rest > m.d THEN rest \div m.d ELSE 0]

-----------------------------------------------------------------------------
(* Properties *)

\* The calculator works as one does on paper, from left to right: what it shows is the
\* number being typed, or the value of the tape so far, and "=" gives the tape's value;
\* an operator typed after another replaces it.  No claim is made, until C, once a key
\* comes where this program has its own idea: a point, a sign or a percent with no number
\* of its own, digits after a sign or a percent, an operator right after CE.  The display is
\* within its last place of the value.
CalcTrue ==
  /\ ~odd => input_val = (IF Ended THEN Total
                          ELSE IF NoLine(LastEntry) THEN Sofar(Front(tape))
                          ELSE Operand(Sofar(Front(tape)), LastEntry))
  /\ LET s == ShownNumber(input_val)
     IN  ~s.err =>
           LET shown == Frac((IF s.minus THEN -1 ELSE 1) * ((s.whole * PLACES) + s.places), PLACES)
               off == Plus(shown, Minus(input_val))
           IN  AbsOf(off.n) * PLACES <= off.d

=============================================================================
