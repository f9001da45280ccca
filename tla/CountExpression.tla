--------------------------- MODULE CountExpression ---------------------------
(***************************************************************************)
(* Which messages of the counting channel are attempts, and of which       *)
(* number (services/counting_service.py).  For TLC only: the evaluation is *)
(* recursive.                                                              *)
(*                                                                         *)
(* A text is [length, clean, tree]: its length without the blanks around   *)
(* it, whether it has digits, the four operators, brackets and blanks      *)
(* only, and what ast.parse makes of it: {} or one tree.  A tree is        *)
(* [op, args]: "number" of a natural, "plus" and "minus" of a tree, "+",   *)
(* "-", "*" and "/" of two, and "other" for what the characters can form   *)
(* besides ("2**3", "7//2", "5(6)").                                       *)
(***************************************************************************)
EXTENDS Integers, Sequences

\* _MAX_COUNT_EXPRESSION_LENGTH
MaxLength == 80

\* Division is exact or it is none; TLA+'s, as Python's, rounds down.
Divides(d, n) == d # 0 /\ (IF d > 0 THEN n % d ELSE (-n) % (-d)) = 0
Quotient(n, d) == IF d > 0 THEN n \div d ELSE (-n) \div (-d)

\* _eval_node: the results, at most one.
RECURSIVE Results(_)
Results(tree) ==
    LET Of(i) == Results(tree.args[i])
    IN  CASE tree.op = "number" -> {tree.args[1]}
          [] tree.op = "plus" -> Of(1)
          [] tree.op = "minus" -> {-a : a \in Of(1)}
          [] tree.op = "+" -> {a + b : a \in Of(1), b \in Of(2)}
          [] tree.op = "-" -> {a - b : a \in Of(1), b \in Of(2)}
          [] tree.op = "*" -> {a * b : a \in Of(1), b \in Of(2)}
          [] tree.op = "/" -> {Quotient(a, b) : <<a, b>> \in {x \in Of(1) \X Of(2) : Divides(x[2], x[1])}}
          [] OTHER -> {}

\* _ExpressionEvaluator.evaluate, of a text that its caller has looked at before.
Evaluate(text) == {n \in UNION {Results(t) : t \in text.tree} : n >= 0}

\* _parse_count_attempt: the number that is attempted, {} for any other message (a
\* text without a digit has a tree without a number, and so no result).
Attempt(text) ==
    IF text.length \in 1..MaxLength /\ text.clean THEN Evaluate(text) ELSE {}

=============================================================================
