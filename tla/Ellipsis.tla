------------------------------ MODULE Ellipsis -------------------------------
(***************************************************************************)
(* Arguments with ellipses, such as node{1...4} and sd{b...f}.             *)
(*                                                                         *)
(* An argument is a sequence of parts: text, and braces.  Braces hold the  *)
(* values between their "...", each a number or lower case letters, which  *)
(* are sequences over 1..26, or neither.                                   *)
(***************************************************************************)
EXTENDS Naturals, Sequences, SequencesExt

Text(t) == [kind |-> "text", value |-> t]
Number(n) == [kind |-> "number", value |-> n]
Letters(s) == [kind |-> "letters", value |-> s]
Invalid == [kind |-> "invalid"]
Braces(values) == [kind |-> "braces", values |-> values]

\* Horner's form of the sum over the powers of 26
alpha2int(value) == FoldLeft(LAMBDA n, letter : 26 * n + letter, 0, value)

\* From the last letter to the first: there is no digit 0, so a remainder of 0 is a z,
\* which is taken off before the division.
int2alpha[n \in Nat \ {0}] ==
  LET z == n % 26 = 0
      r == IF z THEN 26 ELSE n % 26
      m == IF z THEN n - 26 ELSE n
  IN  IF m < 26 THEN <<r>> ELSE Append(int2alpha[m \div 26], r)

\* parseValue
ParseValue(v) == IF v.kind = "letters" THEN alpha2int(v.value) ELSE v.value

\* parseEllipsis: at least two values, of which the first two count, of the same kind; the
\* smaller is the start.
Parseable(b) ==
  /\ Len(b.values) >= 2
  /\ "invalid" \notin {b.values[1].kind, b.values[2].kind}
  /\ b.values[1].kind = b.values[2].kind

parseEllipsis(b) ==
  LET v == ParseValue(b.values[1])
      w == ParseValue(b.values[2])
  IN  [start |-> IF v > w THEN w ELSE v, end |-> IF v > w THEN v ELSE w,
       isAlpha |-> b.values[1].kind = "letters"]

\* The texts an ellipsis stands for, in their order
Values(e) ==
  [i \in 1..(e.end - e.start + 1) |->
     LET n == e.start + i - 1 IN IF e.isAlpha THEN Letters(int2alpha[n]) ELSE Number(n)]

\* Expand, with get and reset: the next ellipsis runs from its start to its end for each value of this
\* one, so the last one changes fastest.
Expand(arg) ==
  LET choices(i) == IF arg[i].kind = "braces" THEN Values(parseEllipsis(arg[i])) ELSE <<arg[i]>>
      from[i \in 1..(Len(arg) + 1)] ==
        IF i > Len(arg) THEN << <<>> >>
        ELSE FlattenSeq([v \in 1..Len(choices(i)) |->
               [r \in 1..Len(from[i + 1]) |-> <<choices(i)[v]>> \o from[i + 1][r]]])
  IN  from[1]

\* getEllipses: an error if some braces cannot be parsed
Expandable(arg) == \A i \in DOMAIN arg : arg[i].kind = "braces" => Parseable(arg[i])

-----------------------------------------------------------------------------
(* Checks *)

\* Letters and numbers are converted into each other: alpha2int and int2alpha are inverse,
\* through the carries after z, zz and zzz.
ASSUME AlphaRoundTrip ==
  \A n \in 1..60 \cup 670..710 \cup 18270..18290 :
    alpha2int(int2alpha[n]) = n /\ \A i \in DOMAIN int2alpha[n] : int2alpha[n][i] \in 1..26

\* Bounded arguments with two ellipses
Samples ==
  {<<Text("n"), Braces(<<x, y>>), Text("d"), Braces(<<z, Number(4)>>)>> :
     x, y \in {Letters(<<25>>), Letters(<<1, 2>>), Number(0), Number(2), Invalid},
     z \in {Number(3), Number(6)}}

\* Every choice of a value for each ellipsis comes out, once, whichever end is written first.
ASSUME ExpandIsProduct ==
  \A arg \in {a \in Samples : Expandable(a)} :
    LET e == parseEllipsis(arg[2])
        f == parseEllipsis(arg[4])
    IN  /\ Len(Expand(arg)) = (e.end - e.start + 1) * (f.end - f.start + 1)
        /\ IsInjective(Expand(arg))
=============================================================================
