------------------------------ MODULE Numbers -------------------------------
(***************************************************************************)
(* number_theory/utils.py: is_square, euclidean_gcd,                       *)
(* euclidean_linear_combination and linear_congruence, one round of a loop *)
(* a step.  int(x / y) truncates; that x / y is a float, exact below 2^53  *)
(* only, is left out.  Euclid's loop is the same text in two functions.    *)
(***************************************************************************)
EXTENDS Integers, Sequences, FiniteSets

CONSTANTS MaxNum, MaxSquare  \* bounds of the arguments

VARIABLES fn,           \* the function called
          a0, b0, c0,   \* its arguments: a and b (or m), and c
          pc,           \* "start", "euclid", "eqs", "search" or "done"
          a, b,         \* the last two remainders
          r_list, q_list,
          eqs,          \* eq_list: the coefficients of a and b
          low, high,
          res           \* what is returned; "raise" for the exception

vars == <<fn, a0, b0, c0, pc, a, b, r_list, q_list, eqs, low, high, res>>
args == <<fn, a0, b0, c0>>

Nums == -MaxNum .. MaxNum
None == <<>>            \* Python's None, where an integer n would be <<n>>
NoRes == [x |-> None, y |-> None, g |-> 0, sols |-> <<>>, yes |-> FALSE, raise |-> FALSE]

Abs(n) == IF n < 0 THEN -n ELSE n

\* int(x / y)
Quotient(x, y) == IF (x >= 0) = (y > 0) THEN Abs(x) \div Abs(y) ELSE -(Abs(x) \div Abs(y))

Init ==
    /\ \/ fn = "is_square" /\ a0 \in 0 .. MaxSquare /\ b0 = 0 /\ c0 = 0
       \/ fn \in {"gcd", "combination"} /\ a0 \in Nums /\ b0 \in Nums /\ c0 = 0
       \/ fn = "congruence" /\ a0 \in Nums /\ b0 \in Nums /\ c0 \in Nums
    /\ pc = "start" /\ a = a0 /\ b = b0
    /\ r_list = <<a0, b0>> /\ q_list = <<>> /\ eqs = <<>>
    /\ low = 1 /\ high = a0 /\ res = NoRes

-----------------------------------------------------------------------------
\* is_square: the search for the root
SearchBegins == /\ fn = "is_square" /\ pc = "start" /\ pc' = "search"
                /\ UNCHANGED <<args, a, b, r_list, q_list, eqs, low, high, res>>

is_square ==
    LET mid == (low + high) \div 2
    IN  /\ pc = "search"
        /\ \/ low > high /\ pc' = "done" /\ UNCHANGED <<low, high, res>>
           \/ low <= high /\ mid * mid = a0 /\ pc' = "done"
                /\ res' = [res EXCEPT !.yes = TRUE] /\ UNCHANGED <<low, high>>
           \/ low <= high /\ mid * mid > a0 /\ high' = mid - 1 /\ UNCHANGED <<pc, low, res>>
           \/ low <= high /\ mid * mid < a0 /\ low' = mid + 1 /\ UNCHANGED <<pc, high, res>>
        /\ UNCHANGED <<args, a, b, r_list, q_list, eqs>>

\* linear_congruence refuses a = 0 and m = 0 before anything else
Refused == fn = "congruence" /\ (a0 = 0 \/ b0 = 0)

\* the cases with a zero, which come back at once
ZeroCase ==
    /\ \/ Refused /\ res' = [res EXCEPT !.raise = TRUE]
       \/ ~Refused /\ a0 = 0 /\ b0 = 0 /\ res' = [res EXCEPT !.x = <<0>>, !.y = <<0>>]
       \/ ~Refused /\ a0 = 0 /\ b0 # 0 /\ res' = [res EXCEPT !.x = <<0>>, !.y = <<1>>, !.g = b0]
       \/ ~Refused /\ a0 # 0 /\ b0 = 0 /\ res' = [res EXCEPT !.x = <<1>>, !.y = <<0>>, !.g = a0]
    /\ pc' = "done"

Starts ==
    /\ fn # "is_square" /\ pc = "start"
    /\ \/ a0 # 0 /\ b0 # 0 /\ pc' = "euclid" /\ UNCHANGED res
       \/ (a0 = 0 \/ b0 = 0) /\ ZeroCase
    /\ UNCHANGED <<args, a, b, r_list, q_list, eqs, low, high>>

\* Mutant of Divides: rounds towards minus infinity, but keeps the remainder
\* of the truncated quotient
FloorDivides ==
    LET q == a \div Abs(b)
        r == a - Quotient(a, b) * b
    IN  /\ q_list' = Append(q_list, q) /\ r_list' = Append(r_list, r)
        /\ a' = b /\ b' = r

\* a, b = b, a - q * b
Divides ==
    LET q == Quotient(a, b)
        r == a - q * b
    IN  /\ q_list' = Append(q_list, q) /\ r_list' = Append(r_list, r)
        /\ a' = b /\ b' = r

euclidean_gcd ==
    /\ pc = "euclid"
    /\ \/ b # 0 /\ Divides /\ UNCHANGED <<pc, eqs, res>>
       \/ /\ b = 0 /\ res' = [res EXCEPT !.g = a]
          /\ IF fn = "gcd" THEN pc' = "done" /\ UNCHANGED eqs
                           ELSE pc' = "eqs" /\ eqs' = << <<1, 0>>, <<0, 1>> >>
          /\ UNCHANGED <<a, b, r_list, q_list>>
    /\ UNCHANGED <<args, low, high>>

\* eq_list.append(eq_list[i] - q_list[i] * eq_list[i + 1])
NextEq ==
    LET i == Len(eqs) - 1
    IN  /\ Len(eqs) - 2 < Len(q_list) - 1
        /\ eqs' = Append(eqs, <<eqs[i][1] - q_list[i] * eqs[i + 1][1],
                                eqs[i][2] - q_list[i] * eqs[i + 1][2]>>)
        /\ UNCHANGED <<pc, res>>

\* Poly(eq_list[-1]) has the symbols that occur; with one only, its
\* coefficient is taken for x1
Coefficients(eq) ==
    CASE eq[1] # 0 /\ eq[2] # 0 -> [x |-> <<eq[1]>>, y |-> <<eq[2]>>]
      [] eq[1] # 0 /\ eq[2] = 0 -> [x |-> <<eq[1]>>, y |-> None]
      [] OTHER -> [x |-> <<eq[2]>>, y |-> None]

\* the solutions x0 + k * m / g of linear_congruence
Solutions(u, g) ==
    IF Quotient(c0, g) * g # c0 THEN <<>>
    ELSE [k \in 1 .. g |-> Quotient(u * c0, g) + Quotient((k - 1) * b0, g)]

\* the coefficients, and what linear_congruence makes of them
Solves ==
    LET eq == Coefficients(eqs[Len(eqs)])
    IN  /\ Len(eqs) - 2 >= Len(q_list) - 1
        /\ res' = [res EXCEPT !.x = eq.x, !.y = eq.y,
                              !.sols = IF fn = "congruence" THEN Solutions(eq.x[1], res.g) ELSE <<>>]
        /\ pc' = "done" /\ UNCHANGED eqs

euclidean_linear_combination ==
    /\ pc = "eqs" /\ (NextEq \/ Solves)
    /\ UNCHANGED <<args, a, b, r_list, q_list, low, high>>

Next == SearchBegins \/ is_square \/ Starts \/ euclidean_gcd \/ euclidean_linear_combination

Spec == Init /\ [][Next]_vars

-----------------------------------------------------------------------------
\* The coefficients kept on the way are those of the remainders, and every
\* remainder is what the division left: euclidean_linear_combination never
\* loses the relation between eq_list, q_list and r_list.
Bezout ==
    /\ \A i \in 1 .. Len(eqs) : eqs[i][1] * a0 + eqs[i][2] * b0 = r_list[i]
    /\ \A i \in 1 .. Len(q_list) : r_list[i + 2] = r_list[i] - q_list[i] * r_list[i + 1]

\* When euclidean_linear_combination returns a y1, the pair it returns solves
\* the equation for the g it returns.
SolvesUnlessNone ==
    pc = "done" /\ fn # "is_square" /\ res.y # None => res.x[1] * a0 + res.y[1] * b0 = res.g

Divisor(d, n) == \E k \in -Abs(n) .. Abs(n) : n = d * k
GCD(x, y) ==
    IF x = 0 \/ y = 0 THEN Abs(x + y)
    ELSE CHOOSE d \in 1 .. Abs(x) : /\ Divisor(d, x) /\ Divisor(d, y)
                                    /\ \A e \in d + 1 .. Abs(x) : ~(Divisor(e, x) /\ Divisor(e, y))

\* is_square finds the root of every number from 1 on that has one, the gcd is
\* one up to its sign, euclidean_linear_combination solves ax + by = gcd(a, b)
\* when neither argument divides the other, and linear_congruence returns every
\* solution once, when the gcd Euclid's loop ends with is positive.
NumbersRight ==
    pc = "done" =>
        /\ fn = "is_square" /\ a0 > 0 => res.yes = (\E k \in 1 .. a0 : k * k = a0)
        /\ fn \in {"gcd", "combination"} => Abs(res.g) = GCD(a0, b0)
        /\ fn = "combination" /\ ~Divisor(a0, b0) /\ ~Divisor(b0, a0) =>
             res.x[1] * a0 + res.y[1] * b0 = res.g
        /\ fn = "congruence" /\ res.g > 0 =>
             LET m == Abs(b0)
                 found == {res.sols[k] % m : k \in 1 .. Len(res.sols)}
             IN  /\ found = {x \in 0 .. m - 1 : (a0 * x - c0) % m = 0}
                 /\ Cardinality(found) = Len(res.sols)

\* What the function promises and test_euclidean_linear_comb.py asserts:
\* x1 * a + y1 * b = gcd(a, b).
CombinationSolves ==
    pc = "done" /\ fn = "combination" =>
        res.x # None /\ res.y # None /\ res.x[1] * a0 + res.y[1] * b0 = res.g
=============================================================================
