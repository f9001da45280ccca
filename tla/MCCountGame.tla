---------------------------- MODULE MCCountGame ----------------------------
(***************************************************************************)
(* Model checking of CountGame with one member of each role, and the laws  *)
(* of CountExpression, evaluated by TLC over the expressions of small      *)
(* numbers with up to three operators.                                     *)
(***************************************************************************)
EXTENDS CountGame, Integers, Sequences, FiniteSets
LOCAL INSTANCE CountExpression

Number(n) == [op |-> "number", args |-> <<n>>]
Numerals == {Number(n) : n \in 0..3}
Signed(S) == {[op |-> o, args |-> <<t>>] : o \in {"plus", "minus", "other"}, t \in S}
Binary(S, T) == {[op |-> o, args |-> <<s, t>>] : o \in {"+", "-", "*", "/"}, s \in S, t \in T}
Terms == Numerals \cup Signed({Number(2)}) \cup Binary(Numerals, Numerals)
Trees == Terms \cup Binary(Terms, Numerals) \cup Binary(Numerals, Terms) \cup Signed(Terms)
Text(t) == [length |-> 9, clean |-> TRUE, tree |-> {t}]

\* The value as a fraction [num, den] with den # 0, or {} where there is none: what a
\* reader of the channel would say that the expression is.
RECURSIVE Fraction(_)
Fraction(t) ==
    LET x == Fraction(t.args[1])
        y == Fraction(t.args[2])
    IN  CASE t.op = "number" -> {[num |-> t.args[1], den |-> 1]}
          [] t.op = "plus" -> x
          [] t.op = "minus" -> {[a EXCEPT !.num = -a.num] : a \in x}
          [] t.op = "+" -> {[num |-> a.num * b.den + b.num * a.den, den |-> a.den * b.den] : a \in x, b \in y}
          [] t.op = "-" -> {[num |-> a.num * b.den - b.num * a.den, den |-> a.den * b.den] : a \in x, b \in y}
          [] t.op = "*" -> {[num |-> a.num * b.num, den |-> a.den * b.den] : a \in x, b \in y}
          [] t.op = "/" -> {[num |-> a.num * b.den, den |-> a.den * b.num] : a \in x, b \in {b \in y : b.num # 0}}
          [] OTHER -> {}
RECURSIVE WholeThroughout(_)
WholeThroughout(t) ==
    /\ t.op # "number" => \A i \in DOMAIN t.args : WholeThroughout(t.args[i])
    /\ \E f \in Fraction(t) : \E q \in -30..30 : f.num = q * f.den

\* A message counts as the number that its expression is in exact arithmetic, and is
\* no attempt, so it ruins nothing, when that is negative or no whole number.
ASSUME AttemptsAreExact ==
    \A t \in Trees :
        /\ Cardinality(Attempt(Text(t))) <= 1
        /\ \A n \in Attempt(Text(t)) : n >= 0 /\ \E f \in Fraction(t) : f.num = n * f.den

\* What is an attempt is whole at each step: 7 / 2 * 2 is none although it is 7.
ASSUME WholeAtEachStep ==
    \A t \in Trees :
        Attempt(Text(t)) # {} <=> /\ WholeThroughout(t)
                                  /\ \E f \in Fraction(t) : f.num * f.den >= 0

\* A text that is too long, or has anything else in it, is none.
ASSUME TalkIsNoAttempt ==
    \A t \in Numerals :
        /\ Attempt([Text(t) EXCEPT !.length = 81]) = {}
        /\ Attempt([Text(t) EXCEPT !.clean = FALSE]) = {}
        /\ Attempt([Text(t) EXCEPT !.length = 80]) = Attempt(Text(t))

=============================================================================
