---------------------------- MODULE NumbersProofs ---------------------------
(***************************************************************************)
(* euclidean_linear_combination for every pair of integers: the            *)
(* coefficients follow the remainders through both loops, so a pair that   *)
(* is returned solves ax + by = g.                                         *)
(***************************************************************************)
EXTENDS Numbers, TLAPS

\* the coefficients of a and of b
Equations == Int \X Int

\* the lists have integers, and the last two remainders are a and b
Lists ==
    /\ a0 \in Int /\ b0 \in Int /\ a \in Int /\ b \in Int
    /\ q_list \in Seq(Int) /\ r_list \in Seq(Int) /\ eqs \in Seq(Equations)
    /\ Len(r_list) = Len(q_list) + 2
    /\ r_list[1] = a0 /\ r_list[2] = b0
    /\ r_list[Len(r_list) - 1] = a /\ r_list[Len(r_list)] = b

\* how far each list is at each place of the code
Places ==
    /\ pc \in {"start", "euclid"} => Len(eqs) = 0
    /\ pc = "start" => Len(q_list) = 0
    /\ pc = "euclid" => b # 0 \/ Len(q_list) > 0
    /\ pc = "eqs" => Len(eqs) >= 2 /\ Len(eqs) <= Len(q_list) + 1 /\ Len(q_list) > 0 /\ res.g = a
    /\ Len(eqs) <= Len(r_list)
    /\ fn # "is_square" => pc # "search"

\* what is returned, field by field
Returned == /\ DOMAIN res = {"x", "y", "g", "sols", "yes", "raise"}
            /\ res = [x |-> res.x, y |-> res.y, g |-> res.g, sols |-> res.sols,
                      yes |-> res.yes, raise |-> res.raise]
            /\ pc # "done" => res.y = None
            /\ pc = "start" => res.g = 0

IInv == Lists /\ Places /\ Returned /\ Bezout /\ SolvesUnlessNone

\* int(x / y) is an integer.
LEMMA QuotientType ==
  ASSUME NEW x \in Int, NEW y \in Int, y # 0
  PROVE  Quotient(x, y) \in Int
<1>1. Abs(x) \in Int /\ Abs(y) \in Int /\ Abs(y) > 0
  BY DEF Abs
<1>2. Abs(x) \div Abs(y) \in Int
  BY <1>1
<1> QED BY <1>2 DEF Quotient

\* An element of a sequence has the type of the sequence.
LEMMA Element ==
  ASSUME NEW S, NEW s \in Seq(S), NEW k \in 1 .. Len(s)
  PROVE  s[k] \in S
  OBVIOUS

\* The next equation is that of the next remainder: the two products with the
\* quotient distribute.
LEMMA Combined ==
  ASSUME NEW u \in Int, NEW v \in Int, NEW s \in Int, NEW t \in Int, NEW q \in Int,
         NEW m \in Int, NEW n \in Int
  PROVE  (u - q * s) * m + (v - q * t) * n = (u * m + v * n) - q * (s * m + t * n)
<1>1. (u - q * s) * m = u * m - (q * s) * m
  BY SMT
<1>2. (v - q * t) * n = v * n - (q * t) * n
  BY SMT
<1>3. q * (s * m + t * n) = (q * s) * m + (q * t) * n
  BY SMT
<1> QED BY <1>1, <1>2, <1>3, SMT

\* The lists start with the arguments.
LEMMA InitHolds ==
  ASSUME MaxNum \in Nat, MaxSquare \in Nat, Init
  PROVE  IInv
<1>1. a0 \in Int /\ b0 \in Int
  BY DEF Init, Nums
<1>2. r_list = <<a0, b0>> /\ q_list = <<>> /\ eqs = <<>> /\ pc = "start" /\ a = a0 /\ b = b0
  BY DEF Init
<1>3. Lists
  BY <1>1, <1>2 DEF Lists
<1>4. Places /\ Bezout /\ SolvesUnlessNone
  BY <1>2 DEF Places, Bezout, SolvesUnlessNone
<1>5. Returned
  BY <1>2 DEF Init, Returned, NoRes
<1> QED BY <1>3, <1>4, <1>5 DEF IInv

\* A round of Euclid's loop adds one quotient and one remainder at the ends.
LEMMA DivideHolds ==
  ASSUME IInv, pc = "euclid", b # 0, Divides, UNCHANGED <<pc, eqs, res, args>>
  PROVE  IInv'
<1> DEFINE q == Quotient(a, b)
           r == a - q * b
<1>1. Lists /\ Places /\ Returned /\ Bezout /\ SolvesUnlessNone
  BY DEF IInv
<1>a. a \in Int /\ b \in Int
  BY <1>1 DEF Lists
<1>b. q \in Int
  BY <1>a, QuotientType
<1> HIDE DEF q
<1>2. q \in Int /\ r \in Int /\ a \in Int /\ b \in Int
  BY <1>a, <1>b
<1>3. q_list' = Append(q_list, q) /\ r_list' = Append(r_list, r) /\ a' = b /\ b' = r
  BY DEF Divides, q
<1>4. /\ q_list \in Seq(Int) /\ r_list \in Seq(Int) /\ Len(r_list) = Len(q_list) + 2
      /\ Len(q_list) \in Nat /\ Len(r_list) \in Nat
  BY <1>1 DEF Lists
<1> HIDE DEF r
<1>5. /\ q_list' \in Seq(Int) /\ r_list' \in Seq(Int)
      /\ Len(q_list') = Len(q_list) + 1 /\ Len(r_list') = Len(r_list) + 1
      /\ q_list'[Len(q_list) + 1] = q /\ r_list'[Len(r_list) + 1] = r
      /\ \A i \in 1 .. Len(q_list) : q_list'[i] = q_list[i]
      /\ \A i \in 1 .. Len(r_list) : r_list'[i] = r_list[i]
  BY <1>2, <1>3, <1>4
<1>6. /\ a0' = a0 /\ b0' = b0 /\ fn' = fn /\ pc' = pc /\ eqs' = eqs /\ res' = res /\ Len(eqs) = 0
  BY <1>1 DEF args, Places
<1>7. Lists'
  <2>1. r_list'[Len(r_list') - 1] = a' /\ r_list'[Len(r_list')] = b'
    <3>1. r_list[Len(r_list)] = b /\ Len(r_list) \in 1 .. Len(r_list)
      BY <1>1, <1>4 DEF Lists
    <3>2. r_list'[Len(r_list)] = b
      BY <1>5, <3>1
    <3> QED BY <1>3, <1>4, <1>5, <3>2
  <2>2. r_list'[1] = a0 /\ r_list'[2] = b0
    <3>1. r_list[1] = a0 /\ r_list[2] = b0 /\ 1 \in 1 .. Len(r_list) /\ 2 \in 1 .. Len(r_list)
      BY <1>1, <1>4 DEF Lists
    <3> QED BY <1>5, <3>1
  <2> QED BY <1>1, <1>2, <1>3, <1>4, <1>5, <1>6, <2>1, <2>2 DEF Lists
<1>8. Places'
  BY <1>1, <1>4, <1>5, <1>6 DEF Places
<1>9. Returned' /\ SolvesUnlessNone'
  BY <1>1, <1>6 DEF Returned, SolvesUnlessNone
<1>10. Bezout'
  <2>1. Len(eqs') = 0
    BY <1>6
  <2>2. ASSUME NEW i \in 1 .. Len(q_list')
        PROVE  r_list'[i + 2] = r_list'[i] - q_list'[i] * r_list'[i + 1]
    <3>1. CASE i \in 1 .. Len(q_list)
      <4>1. r_list[i + 2] = r_list[i] - q_list[i] * r_list[i + 1]
        BY <1>1, <3>1 DEF Bezout
      <4>2. i \in 1 .. Len(r_list) /\ i + 1 \in 1 .. Len(r_list) /\ i + 2 \in 1 .. Len(r_list)
        BY <1>4, <3>1
      <4> QED BY <1>5, <3>1, <4>1, <4>2
    <3>2. CASE i = Len(q_list) + 1
      <4>1. r_list[i] = a /\ r_list[i + 1] = b /\ i \in 1 .. Len(r_list) /\ i + 1 \in 1 .. Len(r_list)
        <5>1. i = Len(r_list) - 1 /\ i + 1 = Len(r_list)
          BY <1>4, <3>2
        <5>2. r_list[Len(r_list) - 1] = a /\ r_list[Len(r_list)] = b
          BY <1>1 DEF Lists
        <5> QED BY <1>4, <5>1, <5>2
      <4>2. r_list'[i] = a /\ r_list'[i + 1] = b
        BY <1>5, <4>1
      <4>3. r_list'[i + 2] = r /\ q_list'[i] = q
        BY <1>4, <1>5, <3>2
      <4> QED BY <4>2, <4>3 DEF r
    <3> QED BY <1>4, <1>5, <3>1, <3>2
  <2> QED BY <2>1, <2>2 DEF Bezout
<1> QED BY <1>7, <1>8, <1>9, <1>10 DEF IInv

\* A round of the second loop adds the equation of the next remainder.
LEMMA NextEqHolds ==
  ASSUME IInv, pc = "eqs", NextEq, UNCHANGED <<args, a, b, r_list, q_list>>
  PROVE  IInv'
<1> DEFINE i == Len(eqs) - 1
           e == <<eqs[i][1] - q_list[i] * eqs[i + 1][1], eqs[i][2] - q_list[i] * eqs[i + 1][2]>>
<1>1. Lists /\ Places /\ Returned /\ Bezout /\ SolvesUnlessNone
  BY DEF IInv
<1>2. /\ a0' = a0 /\ b0' = b0 /\ fn' = fn /\ a' = a /\ b' = b /\ pc' = pc /\ res' = res
      /\ r_list' = r_list /\ q_list' = q_list /\ eqs' = Append(eqs, e)
      /\ Len(eqs) - 2 < Len(q_list) - 1
  BY DEF NextEq, args
<1>3. /\ eqs \in Seq(Equations) /\ Len(eqs) >= 2 /\ q_list \in Seq(Int) /\ r_list \in Seq(Int)
      /\ Len(r_list) = Len(q_list) + 2 /\ a0 \in Int /\ b0 \in Int
      /\ Len(eqs) \in Nat /\ Len(q_list) \in Nat
  <2>1. /\ eqs \in Seq(Equations) /\ q_list \in Seq(Int) /\ r_list \in Seq(Int)
        /\ Len(r_list) = Len(q_list) + 2 /\ a0 \in Int /\ b0 \in Int
    BY <1>1, Zenon DEF Lists
  <2>2. Len(eqs) >= 2
    BY <1>1, Zenon DEF Places
  <2>3. Len(eqs) \in Nat /\ Len(q_list) \in Nat
    BY <2>1
  <2> QED BY <2>1, <2>2, <2>3, Zenon
<1> HIDE DEF e
<1>g. Len(eqs) < Len(q_list) + 1
  BY <1>2, <1>3
<1>4. i \in Int /\ i \in 1 .. Len(eqs) /\ i + 1 \in 1 .. Len(eqs) /\ i \in 1 .. Len(q_list)
  <2>1. Len(eqs) >= 2 /\ Len(eqs) \in Nat /\ Len(q_list) \in Nat
    BY <1>3
  <2> QED BY <1>g, <2>1
<1> HIDE DEF i
<1>5. eqs[i] \in Equations /\ eqs[i + 1] \in Equations /\ q_list[i] \in Int
  <2>1. eqs[i] \in Equations
    BY <1>3, <1>4, Element
  <2>2. eqs[i + 1] \in Equations
    BY <1>3, <1>4, Element
  <2> QED BY <1>3, <1>4, <2>1, <2>2, Element
<1>6. /\ eqs[i][1] \in Int /\ eqs[i][2] \in Int /\ eqs[i + 1][1] \in Int /\ eqs[i + 1][2] \in Int
  BY <1>5 DEF Equations
<1>7. e \in Equations
  <2>1. q_list[i] * eqs[i + 1][1] \in Int /\ q_list[i] * eqs[i + 1][2] \in Int
    BY <1>5, <1>6
  <2> QED BY <1>6, <2>1 DEF e, Equations
<1>8. e[1] * a0 + e[2] * b0 = r_list[i + 2]
  <2>1. e[1] * a0 + e[2] * b0
          = (eqs[i][1] * a0 + eqs[i][2] * b0) - q_list[i] * (eqs[i + 1][1] * a0 + eqs[i + 1][2] * b0)
    <3>1. /\ e[1] = eqs[i][1] - q_list[i] * eqs[i + 1][1]
          /\ e[2] = eqs[i][2] - q_list[i] * eqs[i + 1][2]
      BY DEF e
    <3> DEFINE u == eqs[i][1]
               v == eqs[i][2]
               s == eqs[i + 1][1]
               t == eqs[i + 1][2]
               q == q_list[i]
    <3>2. u \in Int /\ v \in Int /\ s \in Int /\ t \in Int /\ q \in Int
      BY <1>5, <1>6
    <3> HIDE DEF u, v, s, t, q
    <3>3. (u - q * s) * a0 + (v - q * t) * b0 = (u * a0 + v * b0) - q * (s * a0 + t * b0)
      BY <1>3, <3>2, Combined
    <3> QED BY <3>1, <3>3, Zenon DEF u, v, s, t, q
  <2>2. eqs[i][1] * a0 + eqs[i][2] * b0 = r_list[i]
    BY <1>1, <1>4 DEF Bezout
  <2>3. eqs[i + 1][1] * a0 + eqs[i + 1][2] * b0 = r_list[i + 1]
    BY <1>1, <1>4 DEF Bezout
  <2>4. r_list[i + 2] = r_list[i] - q_list[i] * r_list[i + 1]
    BY <1>1, <1>4 DEF Bezout
  <2> QED BY <2>1, <2>2, <2>3, <2>4
<1>9. /\ eqs' \in Seq(Equations) /\ Len(eqs') = Len(eqs) + 1 /\ eqs'[Len(eqs) + 1] = e
      /\ \A k \in 1 .. Len(eqs) : eqs'[k] = eqs[k]
  BY <1>2, <1>3, <1>7
<1>10. Bezout'
  <2>1. ASSUME NEW k \in 1 .. Len(eqs')
        PROVE  eqs'[k][1] * a0 + eqs'[k][2] * b0 = r_list[k]
    <3>1. CASE k \in 1 .. Len(eqs)
      BY <1>1, <1>9, <3>1 DEF Bezout
    <3>2. CASE k = Len(eqs) + 1
      BY <1>3, <1>8, <1>9, <3>2 DEF i
    <3> QED BY <1>3, <1>9, <3>1, <3>2
  <2> QED BY <1>1, <1>2, <2>1 DEF Bezout
<1>11. Lists'
  BY <1>1, <1>2, <1>9 DEF Lists
<1>12. Places'
  <2>1. Len(eqs') >= 2 /\ Len(eqs') <= Len(q_list) + 1
    <3>1. Len(eqs') = Len(eqs) + 1 /\ Len(eqs) \in Nat /\ Len(q_list) \in Nat /\ Len(eqs) >= 2
      BY <1>3, <1>9
    <3> QED BY <1>g, <3>1
  <2>2. Len(eqs') <= Len(r_list)
    BY <1>3, <1>9, <2>1
  <2>3. Len(q_list) > 0 /\ res.g = a /\ (fn # "is_square" => pc # "search")
    BY <1>1 DEF Places
  <2> QED BY <1>2, <2>1, <2>2, <2>3 DEF Places
<1>13. Returned' /\ SolvesUnlessNone'
  BY <1>1, <1>2 DEF Returned, SolvesUnlessNone
<1> QED BY <1>10, <1>11, <1>12, <1>13 DEF IInv

\* The last equation is that of the gcd; its coefficients are returned.
LEMMA SolvesHolds ==
  ASSUME IInv, pc = "eqs", Solves, UNCHANGED <<args, a, b, r_list, q_list>>
  PROVE  IInv'
<1> DEFINE n == Len(eqs)
           c == Coefficients(eqs[n])
<1>1. Lists /\ Places /\ Returned /\ Bezout
  BY DEF IInv
<1>2. /\ a0' = a0 /\ b0' = b0 /\ fn' = fn /\ a' = a /\ b' = b /\ pc' = "done" /\ eqs' = eqs
      /\ r_list' = r_list /\ q_list' = q_list /\ n - 2 >= Len(q_list) - 1
  BY DEF Solves, args
<1>3. /\ eqs \in Seq(Equations) /\ n >= 2 /\ n = Len(q_list) + 1 /\ q_list \in Seq(Int)
      /\ Len(r_list) = Len(q_list) + 2 /\ res.g = a
  <2>a. eqs \in Seq(Equations) /\ q_list \in Seq(Int)
    BY <1>1, Zenon DEF Lists
  <2>b. n >= 2 /\ n <= Len(q_list) + 1
    BY <1>1, Zenon DEF Places
  <2>1. n \in Nat /\ Len(q_list) \in Nat /\ n >= 2 /\ n <= Len(q_list) + 1
    BY <2>a, <2>b
  <2>2. n = Len(q_list) + 1
    BY <1>2, <2>1
  <2> QED BY <1>1, <2>1, <2>2 DEF Lists, Places
<1>4. eqs[n] \in Equations /\ eqs[n][1] * a0 + eqs[n][2] * b0 = a
  <2>1. n \in 1 .. Len(eqs) /\ n = Len(r_list) - 1
    BY <1>3
  <2>2. eqs[n][1] * a0 + eqs[n][2] * b0 = r_list[n]
    BY <1>1, <2>1 DEF Bezout
  <2>3. r_list[n] = a
    BY <1>1, <2>1 DEF Lists
  <2> QED BY <1>3, <2>1, <2>2, <2>3
<1>5. /\ res'.x = c.x /\ res'.y = c.y /\ res'.g = a
      /\ DOMAIN res' = DOMAIN res
      /\ res' = [x |-> res'.x, y |-> res'.y, g |-> res'.g, sols |-> res'.sols,
                 yes |-> res'.yes, raise |-> res'.raise]
  BY <1>1, <1>3 DEF Solves, Returned
<1>6. Returned'
  BY <1>1, <1>2, <1>5 DEF Returned
<1>7. SolvesUnlessNone'
  <2>1. c.y # None => c.x = <<eqs[n][1]>> /\ c.y = <<eqs[n][2]>>
    BY DEF Coefficients
  <2> QED BY <1>2, <1>4, <1>5, <2>1 DEF SolvesUnlessNone
<1>8. Lists' /\ Places' /\ Bezout'
  BY <1>1, <1>2, <1>3 DEF Lists, Places, Bezout
<1> QED BY <1>6, <1>7, <1>8 DEF IInv

\* Euclid's loop ends: its last value is the gcd, and the first two equations
\* are those of the arguments.
LEMMA GcdHolds ==
  ASSUME IInv, pc = "euclid", b = 0, res' = [res EXCEPT !.g = a],
         UNCHANGED <<args, a, b, r_list, q_list>>,
         \/ fn = "gcd" /\ pc' = "done" /\ UNCHANGED eqs
         \/ fn # "gcd" /\ pc' = "eqs" /\ eqs' = << <<1, 0>>, <<0, 1>> >>
  PROVE  IInv'
<1>1. Lists /\ Places /\ Returned /\ Bezout
  BY DEF IInv
<1>2. /\ a0' = a0 /\ b0' = b0 /\ fn' = fn /\ a' = a /\ b' = b /\ r_list' = r_list /\ q_list' = q_list
  BY DEF args
<1>3. /\ Len(eqs) = 0 /\ Len(q_list) > 0 /\ Len(q_list) \in Nat /\ Len(r_list) = Len(q_list) + 2
      /\ a0 \in Int /\ b0 \in Int /\ r_list[1] = a0 /\ r_list[2] = b0
  BY <1>1 DEF Lists, Places
<1>4. /\ res'.g = a /\ res'.y = None /\ DOMAIN res' = DOMAIN res
      /\ res' = [x |-> res'.x, y |-> res'.y, g |-> res'.g, sols |-> res'.sols,
                 yes |-> res'.yes, raise |-> res'.raise]
  BY <1>1 DEF Returned
<1>5. Returned' /\ SolvesUnlessNone'
  BY <1>1, <1>4 DEF Returned, SolvesUnlessNone
<1>6. CASE fn = "gcd" /\ pc' = "done" /\ UNCHANGED eqs
  BY <1>1, <1>2, <1>3, <1>5, <1>6 DEF IInv, Lists, Places, Bezout
<1>7. CASE fn # "gcd" /\ pc' = "eqs" /\ eqs' = << <<1, 0>>, <<0, 1>> >>
  <2>1. eqs' \in Seq(Equations) /\ Len(eqs') = 2
    BY <1>7 DEF Equations
  <2>2. Lists'
    BY <1>1, <1>2, <2>1 DEF Lists
  <2>3. Places'
    BY <1>1, <1>2, <1>3, <1>4, <1>7, <2>1 DEF Places
  <2>4. ASSUME NEW i \in 1 .. 2
        PROVE  eqs'[i][1] * a0 + eqs'[i][2] * b0 = r_list[i]
    <3>1. CASE i = 1
      <4>1. eqs'[1][1] = 1 /\ eqs'[1][2] = 0
        BY <1>7
      <4>2. 1 * a0 + 0 * b0 = a0
        BY <1>3
      <4> QED BY <1>3, <3>1, <4>1, <4>2
    <3>2. CASE i = 2
      <4>1. eqs'[2][1] = 0 /\ eqs'[2][2] = 1
        BY <1>7
      <4>2. 0 * a0 + 1 * b0 = b0
        BY <1>3
      <4> QED BY <1>3, <3>2, <4>1, <4>2
    <3> QED BY <3>1, <3>2
  <2>5. Bezout'
    BY <1>1, <1>2, <2>1, <2>4 DEF Bezout
  <2> QED BY <1>5, <2>2, <2>3, <2>5 DEF IInv
<1> QED BY <1>6, <1>7

\* The steps that leave the lists alone, and what a zero returns.
LEMMA StartsHolds ==
  ASSUME IInv, Starts
  PROVE  IInv'
<1>1. Lists /\ Places /\ Returned /\ Bezout
  BY DEF IInv
<1>2. /\ a0' = a0 /\ b0' = b0 /\ fn' = fn /\ a' = a /\ b' = b /\ eqs' = eqs
      /\ r_list' = r_list /\ q_list' = q_list /\ pc = "start" /\ fn # "is_square"
  BY DEF Starts, args
<1>3. Lists' /\ Bezout'
  BY <1>1, <1>2 DEF Lists, Bezout
<1>4. Len(eqs) = 0 /\ Len(q_list) = 0 /\ Len(r_list) = 2 /\ a0 \in Int /\ b0 \in Int /\ b = b0
  <2>1. Len(eqs) = 0 /\ Len(q_list) = 0
    BY <1>1, <1>2 DEF Places
  <2>2. Len(r_list) = 2
    BY <1>1, <2>1 DEF Lists
  <2> QED BY <1>1, <2>1, <2>2 DEF Lists
<1>5. CASE a0 # 0 /\ b0 # 0 /\ pc' = "euclid" /\ UNCHANGED res
  <2>1. Places'
    BY <1>2, <1>4, <1>5 DEF Places
  <2>2. Returned' /\ SolvesUnlessNone'
    BY <1>1, <1>2, <1>5 DEF Returned, SolvesUnlessNone
  <2> QED BY <1>3, <2>1, <2>2 DEF IInv
<1>6. CASE (a0 = 0 \/ b0 = 0) /\ ZeroCase
  <2>1. Places'
    BY <1>2, <1>4, <1>6 DEF Places, ZeroCase
  <2>2. pc' = "done"
    BY <1>6 DEF ZeroCase
  <2>3. res.y = None /\ res.g = 0
    BY <1>1, <1>2 DEF Returned
  <2>4. Returned'
    BY <1>1, <1>6, <2>2 DEF Returned, ZeroCase
  <2>5. SolvesUnlessNone'
    <3>1. CASE Refused
      <4>1. res'.y = None
        <5>1. res' = [res EXCEPT !.raise = TRUE]
          BY <1>6, <3>1 DEF ZeroCase
        <5> QED BY <1>1, <2>3, <5>1 DEF Returned
      <4> QED BY <4>1 DEF SolvesUnlessNone
    <3>2. CASE ~Refused /\ a0 = 0 /\ b0 = 0
      <4>1. res'.x = <<0>> /\ res'.y = <<0>> /\ res'.g = res.g
        BY <1>1, <1>6, <3>2 DEF ZeroCase, Returned
      <4> QED BY <1>2, <2>3, <3>2, <4>1 DEF SolvesUnlessNone
    <3>3. CASE ~Refused /\ a0 = 0 /\ b0 # 0
      <4>1. res'.x = <<0>> /\ res'.y = <<1>> /\ res'.g = b0
        BY <1>1, <1>6, <3>3 DEF ZeroCase, Returned
      <4> QED BY <1>2, <1>4, <3>3, <4>1 DEF SolvesUnlessNone
    <3>4. CASE ~Refused /\ a0 # 0
      <4>1. res'.x = <<1>> /\ res'.y = <<0>> /\ res'.g = a0
        BY <1>1, <1>6, <3>4 DEF ZeroCase, Returned
      <4> QED BY <1>2, <1>4, <1>6, <3>4, <4>1 DEF SolvesUnlessNone
    <3> QED BY <3>1, <3>2, <3>3, <3>4
  <2> QED BY <1>3, <2>1, <2>4, <2>5 DEF IInv
<1> QED BY <1>5, <1>6 DEF Starts

\* Every step of the functions keeps the invariant.
LEMMA StepHolds ==
  ASSUME IInv, [Next]_vars
  PROVE  IInv'
<1>1. Lists /\ Places /\ Returned /\ Bezout /\ SolvesUnlessNone
  BY DEF IInv
<1>2. CASE SearchBegins
  BY <1>1, <1>2 DEF SearchBegins, args, IInv, Lists, Places, Returned, Bezout, SolvesUnlessNone
<1>3. CASE is_square
  <2>1. /\ a0' = a0 /\ b0' = b0 /\ fn' = fn /\ a' = a /\ b' = b /\ eqs' = eqs
        /\ r_list' = r_list /\ q_list' = q_list /\ pc = "search" /\ pc' \in {"search", "done"}
        /\ res' = res \/ (pc' = "done" /\ res' = [res EXCEPT !.yes = TRUE])
    BY <1>3 DEF is_square, args
  <2>2. fn = "is_square"
    BY <1>1, <2>1 DEF Places
  <2>3. Lists' /\ Places' /\ Bezout' /\ SolvesUnlessNone'
    BY <1>1, <2>1, <2>2 DEF Lists, Places, Bezout, SolvesUnlessNone
  <2>4. Returned'
    BY <1>1, <2>1 DEF Returned
  <2> QED BY <2>3, <2>4 DEF IInv
<1>4. CASE Starts
  BY <1>4, StartsHolds
<1>5. CASE euclidean_gcd
  <2>1. CASE b # 0 /\ Divides /\ UNCHANGED <<pc, eqs, res>>
    <3>1. pc = "euclid" /\ UNCHANGED args
      BY <1>5 DEF euclidean_gcd
    <3>2. UNCHANGED <<pc, eqs, res, args>>
      BY <2>1, <3>1
    <3> QED BY <2>1, <3>1, <3>2, DivideHolds
  <2>2. CASE /\ b = 0 /\ res' = [res EXCEPT !.g = a]
             /\ IF fn = "gcd" THEN pc' = "done" /\ UNCHANGED eqs
                              ELSE pc' = "eqs" /\ eqs' = << <<1, 0>>, <<0, 1>> >>
             /\ UNCHANGED <<a, b, r_list, q_list>>
    <3>1. pc = "euclid" /\ UNCHANGED <<args, a, b, r_list, q_list>>
      BY <1>5, <2>2 DEF euclidean_gcd
    <3>2. \/ fn = "gcd" /\ pc' = "done" /\ UNCHANGED eqs
          \/ fn # "gcd" /\ pc' = "eqs" /\ eqs' = << <<1, 0>>, <<0, 1>> >>
      BY <2>2
    <3> QED BY <2>2, <3>1, <3>2, GcdHolds
  <2> QED BY <1>5, <2>1, <2>2 DEF euclidean_gcd
<1>6. CASE euclidean_linear_combination
  <2>1. pc = "eqs" /\ UNCHANGED <<args, a, b, r_list, q_list>> /\ (NextEq \/ Solves)
    BY <1>6 DEF euclidean_linear_combination
  <2> QED BY <2>1, NextEqHolds, SolvesHolds
<1>7. CASE UNCHANGED vars
  BY <1>1, <1>7 DEF vars, IInv, Lists, Places, Returned, Bezout, SolvesUnlessNone
<1> QED BY <1>2, <1>3, <1>4, <1>5, <1>6, <1>7 DEF Next

\* For all integer arguments, a pair with a y1 that euclidean_linear_combination
\* returns solves ax + by = g, for the g it returns.
THEOREM PairSolves ==
  ASSUME MaxNum \in Nat, MaxSquare \in Nat
  PROVE  Spec => [](Bezout /\ SolvesUnlessNone)
<1>1. Init => IInv
  BY InitHolds
<1>2. IInv /\ [Next]_vars => IInv'
  BY StepHolds
<1>3. IInv => Bezout /\ SolvesUnlessNone
  BY DEF IInv
<1> QED BY <1>1, <1>2, <1>3, PTL DEF Spec
=============================================================================
