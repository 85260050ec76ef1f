------------------------------- MODULE GXPass -------------------------------
(***************************************************************************)
(* getPermutationAfterN of src/src-tauri/Tools/GXPass.hpp: the permutation *)
(* of a set of characters that a number stands for, chosen one character   *)
(* at a time with the integers of module NCint.  The number is one that a  *)
(* user of NCint has computed, by any operations, in whatever vector these *)
(* leave behind.                                                           *)
(***************************************************************************)
EXTENDS NCint, SequencesExt

CONSTANTS
    Literal,    \* the integers computed with
    MaxValue,   \* a bound on what is computed
    Size        \* the number of characters; they are 1, 2, ...

ASSUME GXPassAssumption == Literal \subseteq Int /\ MaxValue \in Nat /\ Size \in Nat \ {0}

VARIABLES
    phase,      \* "computing", "permuting" or "done"
    n,          \* the number
    exact,      \* the integer that was computed
    unreliable, \* something was added to a zero of several digits
    asked,      \* the number whose permutation was asked for
    charset,    \* the characters left
    result      \* the characters chosen

gxpassVars == <<phase, n, exact, unreliable, asked, charset, result>>

Charset == [i \in 1..Size |-> i]

GXPassTypeOK ==
    /\ phase \in {"computing", "permuting", "done"}
    /\ n.len \in Int /\ Magnitude(n.len) <= Len(n.digits)
    /\ \A i \in 1..Magnitude(n.len) : n.digits[i] \in 0..9
    /\ exact \in -MaxValue..MaxValue
    /\ unreliable \in BOOLEAN
    /\ asked \in Int
    /\ ToSet(charset) \cup ToSet(result) = 1..Size
    /\ Len(charset) + Len(result) = Size

Init ==
    /\ phase = "computing"
    /\ n = FromInt(0) /\ exact = 0 /\ unreliable = FALSE
    /\ asked = 0
    /\ charset = Charset /\ result = <<>>

\* 12 - 12 is a zero of two digits.  It compares greater than any number of one,
\* so that a subtraction borrows from a digit it has not got, which may be past
\* the vector's end.  Nothing is said of what becomes of the number then.
WideZero(v) == IntOf(v) = 0 /\ Magnitude(v.len) > 1

-----------------------------------------------------------------------------
(* What a user of NCint does.                                              *)

\* A number that is not reliable is not computed with.
Becomes(number, value, additive) ==
    /\ phase = "computing" /\ ~unreliable
    /\ value \in -MaxValue..MaxValue
    /\ n' = number
    /\ exact' = value
    /\ unreliable' = (additive /\ WideZero(n))
    /\ UNCHANGED <<phase, asked, charset, result>>

AddTo(m) == Becomes(Add(n, FromInt(m)), exact + m, TRUE)

SubtractFrom(m) == Becomes(Sub(n, FromInt(m)), exact - m, TRUE)

MultiplyBy(m) == Becomes(Mul(n, FromInt(m)), exact * m, FALSE)

\* Division by zero throws.
DivideBy(m) ==
    /\ m # 0
    /\ LET quotient == Magnitude(exact) \div Magnitude(m)
       IN  Becomes(Div(n, FromInt(m)), IF (exact < 0) # (m < 0) THEN -quotient ELSE quotient, FALSE)

TakeModulo(m) ==
    /\ m # 0
    /\ LET remainder == Magnitude(exact) % Magnitude(m)
       IN  Becomes(Mod(n, FromInt(m)), IF exact < 0 THEN -remainder ELSE remainder, FALSE)

-----------------------------------------------------------------------------
(* getPermutationAfterN.                                                   *)

\* jiecheng, the factorials.
jiecheng[i \in Nat] == IF i = 0 THEN FromInt(1) ELSE Mul(jiecheng[i - 1], FromInt(i))

\* The first step: n is taken modulo the number of permutations.
getPermutationAfterN ==
    /\ phase = "computing" /\ ~unreliable
    /\ IntOf(n) >= 0
    /\ phase' = "permuting"
    /\ asked' = IntOf(n)
    /\ n' = Mod(n, jiecheng[Size])
    /\ UNCHANGED <<exact, unreliable, charset, result>>

\* Of k characters left: with the number of permutations of k, not of k - 1.
IndexAmongAll(k) == IntOf(Div(n, jiecheng[k]))

Index(k) == IntOf(Div(n, jiecheng[k - 1]))

\* One round of the loop.
ChooseChar ==
    /\ phase = "permuting" /\ charset # <<>>
    /\ LET index == Index(Len(charset))
       IN  /\ result' = Append(result, charset[index + 1])
           /\ charset' = RemoveAt(charset, index + 1)
    /\ n' = Mod(n, jiecheng[Len(charset) - 1])
    /\ UNCHANGED <<phase, exact, unreliable, asked>>

Return ==
    /\ phase = "permuting" /\ charset = <<>>
    /\ phase' = "done"
    /\ UNCHANGED <<n, exact, unreliable, asked, charset, result>>

Next ==
    \/ \E m \in Literal : \/ AddTo(m) \/ SubtractFrom(m) \/ MultiplyBy(m)
                          \/ DivideBy(m) \/ TakeModulo(m)
    \/ getPermutationAfterN
    \/ ChooseChar
    \/ Return

Spec == Init /\ [][Next]_gxpassVars

-----------------------------------------------------------------------------
(* Properties.                                                             *)

(* NCint computes what the integers compute, through carries, borrows, signs *)
(* and vectors of any length, until something is added to a zero of several  *)
(* digits.                                                                   *)
ValueAgrees == phase = "computing" /\ ~unreliable => IntOf(n) = exact

Factorial[i \in Nat] == IF i = 0 THEN 1 ELSE i * Factorial[i - 1]

\* The permutations before s in lexicographic order.
Rank(s) ==
    MapThenSumSet(
        LAMBDA i : Cardinality({j \in (i + 1)..Len(s) : s[j] < s[i]}) * Factorial[Len(s) - i],
        DOMAIN s)

(* The permutation is the one the number stands for, zeros of several digits *)
(* and vectors longer than their number notwithstanding.                     *)
PermutationRanked == phase = "done" => Rank(result) = asked % Factorial[Size]

=============================================================================
