-------------------------------- MODULE NCint --------------------------------
(***************************************************************************)
(* The integers of src/src-tauri/Tools/NCint.hpp.  A number is the vector  *)
(* data: data[0], the number of decimal digits with the number's sign, is  *)
(* len here; data[1], data[2] ..., from the units up, are digits.  The     *)
(* vector may be longer than len says.                                     *)
(***************************************************************************)
EXTENDS Integers, Sequences, SequencesExt, FiniteSetsExt

Magnitude(n) == IF n < 0 THEN -n ELSE n

DigitsOf[n \in Nat] == IF n = 0 THEN <<>> ELSE <<n % 10>> \o DigitsOf[n \div 10]

\* operator =(int)
FromInt(n) ==
    LET digits == DigitsOf[Magnitude(n)]
    IN  [len |-> IF n < 0 THEN -Len(digits) ELSE Len(digits), digits |-> digits]

\* operator int
IntOf(v) ==
    LET n == Magnitude(v.len)
        value[i \in 1..(n + 1)] ==     \* of the digits from the i-th up
            IF i > n THEN 0 ELSE value[i + 1] * 10 + v.digits[i]
    IN  IF v.len < 0 THEN -value[1] ELSE value[1]

Neg(v) == [v EXCEPT !.len = -@]

LessOfLength(n, u, v) ==
    \E i \in 1..n : /\ u.digits[i] < v.digits[i]
                    /\ \A j \in (i + 1)..n : u.digits[j] = v.digits[j]

\* operator <: different lengths decide it.
Less(u, v) ==
    \/ u.len < v.len
    \/ u.len = v.len /\ u.len > 0 /\ LessOfLength(u.len, u, v)
    \/ u.len = v.len /\ u.len < 0 /\ LessOfLength(-u.len, v, u)

\* data.resize
Resized(digits, n) == [i \in 1..n |-> IF i <= Len(digits) THEN digits[i] ELSE 0]

\* The loops that carry and borrow through the first n digits; what is carried
\* out of them goes to the next, or past the vector's end, where it is lost.
Carried(digits, n) ==
    FoldLeft(
        LAMBDA s, d :
            LET sum == d + s.carry
            IN  IF Len(s.digits) < n
                  THEN [digits |-> Append(s.digits, sum % 10), carry |-> sum \div 10]
                  ELSE [digits |-> Append(s.digits, sum), carry |-> 0],
        [digits |-> <<>>, carry |-> 0],
        digits).digits

\* The loops that look for the first digit that is not zero, which leave the
\* length alone when there is none.
LengthWithin(digits, n, otherwise) ==
    LET positive == {i \in 1..n : digits[i] > 0}
    IN  IF positive = {} THEN otherwise ELSE Max(positive)

Shortened(digits, n, otherwise) ==
    [len |-> LengthWithin(digits, n, otherwise), digits |-> digits]

Longer(u, v) == IF u.len >= v.len THEN u.len ELSE v.len

SumOfDigits(u, v, n) ==
    [i \in 1..(n + 1) |-> Resized(u.digits, n + 1)[i] + (IF i <= v.len THEN v.digits[i] ELSE 0)]

\* The digit carried into is not looked at.
AddLosesCarry(u, v) ==
    Shortened(Carried(SumOfDigits(u, v, Longer(u, v)), Longer(u, v)), Longer(u, v), u.len)

\* Both positive.
AddDigits(u, v) ==
    Shortened(Carried(SumOfDigits(u, v, Longer(u, v)), Longer(u, v)), Longer(u, v) + 1, u.len)

DifferenceOfDigits(u, v) ==
    [i \in 1..Len(u.digits) |->
        u.digits[i] - (IF i <= u.len THEN Resized(v.digits, u.len)[i] ELSE 0)]

\* Without the borrowing.
SubUnborrowed(u, v) == Shortened(DifferenceOfDigits(u, v), u.len, u.len)

\* u positive, v negative and, by the comparison, not the greater one.
SubDigits(u, v) == Shortened(Carried(DifferenceOfDigits(u, v), u.len), u.len, u.len)

Greater(u, v) == IF Less(u, v) THEN v ELSE u
Lesser(u, v) == IF Less(u, v) THEN u ELSE v

\* operator +, when u is not less than v.
AddOrdered(u, v) ==
    IF u.len < 0 /\ v.len < 0
      THEN Neg(AddDigits(Greater(Neg(u), Neg(v)), Lesser(Neg(u), Neg(v))))
      ELSE IF Less(u, Neg(v)) THEN Neg(SubDigits(Neg(v), Neg(u)))
           ELSE IF v.len < 0 THEN SubDigits(u, v) ELSE AddDigits(u, v)

Add(u, v) ==
    IF v.len = 0 THEN u
    ELSE IF u.len = 0 THEN v
    ELSE AddOrdered(Greater(u, v), Lesser(u, v))

Sub(u, v) == Add(u, Neg(v))

AbsOf(v) == IF v.len < 0 THEN Neg(v) ELSE v

\* The result of two magnitudes, with the sign of what u and v make.
SignedLike(u, v, result) == IF (u.len < 0) # (v.len < 0) THEN Neg(result) ELSE result

\* The k-th digit before any carrying.
Column(u, v, k) ==
    LET sum[i \in 0..u.len] ==
            IF i = 0 THEN 0
            ELSE sum[i - 1] + (IF k + 1 - i \in 1..v.len THEN u.digits[i] * v.digits[k + 1 - i] ELSE 0)
    IN  sum[u.len]

MulDigits(u, v) ==
    Shortened(Carried([k \in 1..(u.len + v.len + 1) |-> Column(u, v, k)], u.len + v.len),
              u.len + v.len + 1, 0)

Mul(u, v) ==
    IF u.len = 0 \/ v.len = 0
      THEN FromInt(0)
      ELSE SignedLike(u, v, MulDigits(AbsOf(u), AbsOf(v)))

\* while(remainder >= divisor): a digit of the quotient is never more than 9.
Subtracted(remainder, divisor) ==
    LET round[k \in 0..9] ==
            IF k = 0
              THEN [q |-> 0, remainder |-> remainder]
              ELSE LET before == round[k - 1]
                   IN  IF Less(before.remainder, divisor)
                         THEN before
                         ELSE [q |-> before.q + 1, remainder |-> Sub(before.remainder, divisor)]
    IN  round[9]

\* Dividing digit by digit, from the first: the quotient's digits.
LongDivision(dividend, divisor) ==
    LET step[i \in 1..(dividend.len + 1)] ==
            IF i > dividend.len
              THEN [q |-> 0, remainder |-> FromInt(0)]
              ELSE Subtracted(Add(Mul(step[i + 1].remainder, FromInt(10)),
                                  FromInt(dividend.digits[i])),
                              divisor)
    IN  [i \in 1..dividend.len |-> step[i].q]

Quotient(digits) ==
    LET len == Max({0} \cup {i \in DOMAIN digits : digits[i] # 0})
    IN  [len |-> len, digits |-> SubSeq(digits, 1, len)]

\* operator /, by what is not 0.  Only 1 and -1 in vectors of their own length
\* are taken apart.
Div(u, v) ==
    IF v = FromInt(1) THEN u
    ELSE IF v = FromInt(-1) THEN Neg(u)
    ELSE IF Less(AbsOf(u), AbsOf(v)) THEN FromInt(0)
    ELSE SignedLike(u, v, Quotient(LongDivision(AbsOf(u), AbsOf(v))))

\* operator %
Mod(u, v) == Sub(u, Mul(Div(u, v), v))

=============================================================================
