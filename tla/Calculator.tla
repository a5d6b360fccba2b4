----------------------------- MODULE Calculator -----------------------------
(***************************************************************************)
(* calculate (attestly-agents/src/tools.rs): the recursive-descent         *)
(* evaluator that a Worker uses to do its task and a Verifier to do it     *)
(* again, and format_result, the text of its answer (worker.rs).           *)
(*                                                                         *)
(* An expression is a sequence of tokens: the parser skips white space     *)
(* before it looks at a character, but not inside a number.  A value has a *)
(* sign and a magnitude, as a float has, so that there is a negative zero; *)
(* magnitudes are exact fractions: rounding, infinities and NaN are left   *)
(* out.                                                                    *)
(***************************************************************************)
EXTENDS Integers, Sequences

CONSTANTS
  Numerals,      \* tokens of digits and points
  ValueOf,       \* what each reads as; a token such as 1.2.3 reads as nothing
  Scale,         \* the text of an answer counts multiples of 1 / Scale: 10^10
  Pieces,        \* bound: short sequences that an expression is made of
  MaxPieces      \* bound: how many of them

Operators == {"+", "-", "*", "/", "(", ")"}
Tokens == Numerals \cup Operators

ASSUME CalculatorAssumption ==
  /\ DOMAIN ValueOf \subseteq Numerals
  /\ \A t \in DOMAIN ValueOf : ValueOf[t] \in Nat
  /\ Numerals \cap (Operators \cup {"end"}) = {}
  /\ Scale \in Nat \ {0}
  /\ Pieces \subseteq Seq(Tokens)
  /\ MaxPieces \in Nat

----------------------------------------------------------------------------
(* f64                                                                     *)
Float(neg, num, den) == [neg |-> neg, num |-> num, den |-> den]
Floats == [neg : BOOLEAN, num : Nat, den : Nat \ {0}]
Negate(v) == Float(~v.neg, v.num, v.den)
Multiplied(v, w) == Float(v.neg # w.neg, v.num * w.num, v.den * w.den)
Over(v, w) == Float(v.neg # w.neg, v.num * w.den, v.den * w.num)
Plus(v, w) ==
  LET a == v.num * w.den
      b == w.num * v.den
      den == v.den * w.den IN
  IF v.neg = w.neg THEN Float(v.neg, a + b, den)
  ELSE IF a > b THEN Float(v.neg, a - b, den)
  ELSE IF b > a THEN Float(w.neg, b - a, den)
  ELSE Float(FALSE, 0, 1)
Minus(v, w) == Plus(v, Negate(w))
Same(v, w) == v.neg = w.neg /\ v.num * w.den = w.num * v.den

(* format_result: the nearest multiple of 1 / Scale; the sign of a number  *)
(* that rounds to zero, or of a negative zero, is in the text.             *)
FormatResult(v) == <<v.neg, (2 * v.num * Scale + v.den) \div (2 * v.den)>>

----------------------------------------------------------------------------
(* Parser: a token is consumed by going on at the next position.  What the *)
(* parser makes of the tokens from pos on depends on what it makes of      *)
(* those from a later position on, at[pos + 1] or at[r.pos]; a loop is a   *)
(* function of acc, the value of what has been read so far.                *)
Wrong == [ok |-> FALSE]
Parsed(value, pos) == [ok |-> TRUE, value |-> value, pos |-> pos]
Peek(e, pos) == IF pos \in DOMAIN e THEN e[pos] ELSE "end"

Term(at, pos) ==
  LET r == at[pos].factor IN IF r.ok THEN at[r.pos].products[r.value] ELSE Wrong

Expr(at, pos) ==
  LET r == Term(at, pos) IN IF r.ok THEN at[r.pos].sums[r.value] ELSE Wrong

Factor(at, e, pos) ==
  LET token == Peek(e, pos) IN
  CASE token = "-" ->
         LET r == at[pos + 1].factor IN
         IF r.ok THEN Parsed(Negate(r.value), r.pos) ELSE Wrong
    [] token = "(" ->
         LET r == Expr(at, pos + 1) IN
         IF r.ok /\ Peek(e, r.pos) = ")" THEN Parsed(r.value, r.pos + 1) ELSE Wrong
    [] token \in DOMAIN ValueOf -> Parsed(Float(FALSE, ValueOf[token], 1), pos + 1)
    [] OTHER -> Wrong

Products(at, e, pos, acc) ==
  IF Peek(e, pos) \notin {"*", "/"} THEN Parsed(acc, pos)
  ELSE LET r == at[pos + 1].factor IN
       IF ~r.ok THEN Wrong
       ELSE IF Peek(e, pos) = "*" THEN at[r.pos].products[Multiplied(acc, r.value)]
       ELSE IF r.value.num = 0 THEN Wrong
       ELSE at[r.pos].products[Over(acc, r.value)]

FromTheRight(at, e, pos, acc) ==                              \* mutant
  IF Peek(e, pos) \notin {"+", "-"} THEN Parsed(acc, pos)
  ELSE LET r == Expr(at, pos + 1) IN
       IF ~r.ok THEN Wrong
       ELSE Parsed(IF Peek(e, pos) = "+" THEN Plus(acc, r.value) ELSE Minus(acc, r.value), r.pos)

Sums(at, e, pos, acc) ==
  IF Peek(e, pos) \notin {"+", "-"} THEN Parsed(acc, pos)
  ELSE LET r == Term(at, pos + 1) IN
       IF ~r.ok THEN Wrong
       ELSE at[r.pos].sums[IF Peek(e, pos) = "+" THEN Plus(acc, r.value) ELSE Minus(acc, r.value)]

Parser(e) ==
  LET at[pos \in 1 .. Len(e) + 1] ==
        [factor   |-> Factor(at, e, pos),
         products |-> [acc \in Floats |-> Products(at, e, pos, acc)],
         sums     |-> [acc \in Floats |-> Sums(at, e, pos, acc)]]
  IN at

Calculate(e) ==
  LET r == Expr(Parser(e), 1) IN
  IF r.ok /\ r.pos = Len(e) + 1 THEN [ok |-> TRUE, value |-> r.value] ELSE Wrong

----------------------------------------------------------------------------
(* The grammar of the comment on mod eval, as a reference: of[n][lo] has   *)
(* the values of the n tokens from token lo on as a factor, a product and  *)
(* a sum, given those of fewer.  The last operator of a sum or product, k  *)
(* tokens from its start, is applied last.                                 *)
Splits(e, token, n, lo) == {k \in 1 .. n - 2 : e[lo + k] = token}

FactorValues(of, e, n, lo) ==
  (IF n = 1 /\ e[lo] \in DOMAIN ValueOf THEN {Float(FALSE, ValueOf[e[lo]], 1)} ELSE {})
  \cup (IF n > 1 /\ e[lo] = "-" THEN {Negate(v) : v \in of[n - 1][lo + 1].factor} ELSE {})
  \cup (IF n > 2 /\ e[lo] = "(" /\ e[lo + n - 1] = ")" THEN of[n - 2][lo + 1].sum ELSE {})

ProductValues(of, e, n, lo) ==
  FactorValues(of, e, n, lo)
  \cup (UNION {{Multiplied(v, w) : v \in of[k][lo].product, w \in of[n - k - 1][lo + k + 1].factor} :
               k \in Splits(e, "*", n, lo)})
  \cup (UNION {{Over(v, w) : v \in of[k][lo].product,
                             w \in {x \in of[n - k - 1][lo + k + 1].factor : x.num # 0}} :
               k \in Splits(e, "/", n, lo)})

SumValues(of, e, n, lo) ==
  ProductValues(of, e, n, lo)
  \cup (UNION {{Plus(v, w) : v \in of[k][lo].sum, w \in of[n - k - 1][lo + k + 1].product} :
               k \in Splits(e, "+", n, lo)})
  \cup (UNION {{Minus(v, w) : v \in of[k][lo].sum, w \in of[n - k - 1][lo + k + 1].product} :
               k \in Splits(e, "-", n, lo)})

Grammar(e) ==
  LET of[n \in 0 .. Len(e)] ==
        [lo \in 1 .. Len(e) - n + 1 |->
           [factor  |-> FactorValues(of, e, n, lo),
            product |-> ProductValues(of, e, n, lo),
            sum     |-> SumValues(of, e, n, lo)]]
  IN of

Values(e) == Grammar(e)[Len(e)][1].sum

VARIABLES
  expression,   \* the argument of calculate
  pieces        \* how many pieces it is made of

calculatorVars == <<expression, pieces>>

CalculatorInit == expression = <<>> /\ pieces = 0

CalculatorNext ==
  /\ pieces < MaxPieces
  /\ pieces' = pieces + 1
  /\ \E piece \in Pieces : expression' = expression \o piece

CalculatorSpec == CalculatorInit /\ [][CalculatorNext]_calculatorVars

(* calculate answers exactly the sequences that the grammar derives with   *)
(* no division by zero, and with the value that it gives them: products    *)
(* before sums, either from the left, and a sign before both.              *)
CalculatedRight(e) ==
  LET r == Calculate(e) IN
  /\ r.ok <=> Values(e) # {}
  /\ \A v \in Values(e) : Same(v, r.value)

CalculatorRight == CalculatedRight(expression)
=============================================================================
