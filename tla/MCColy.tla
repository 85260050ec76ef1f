------------------------------- MODULE MCColy -------------------------------
(***************************************************************************)
(* TLC instance of Coly: every program that marks a position, defines a    *)
(* code of a compiled language, and goes on with two lines of Rest and one *)
(* of Last.  The names of codes d and e compile to one name, so that they  *)
(* share a file.                                                           *)
(***************************************************************************)
EXTENDS Coly

CONSTANTS c, d, e, p, v, a, b

S(op, of, behind) == [op |-> op, of |-> of, behind |-> behind, reads |-> {}]

Reads1(statement, n) == [statement EXCEPT !.reads = {n}]

Inline(n, text) ==
    [op |-> "inline", of |-> n, behind |-> "", reads |-> {}, says |-> text]

FileOf == [x \in CodeName |-> IF x = c THEN 1 ELSE 2]

Begins == <<S("position", p, ""), S("code", c, ""), S("|", a, ""), S("#", NoName, "")>>

Rest ==
    {S("code", c, ""), S("code", e, "if"), Inline(d, b), S("|", b, ""), S("use", d, "do"),
     S("usewithoutwait", c, ""), S("call", c, ""), S("jump", p, "if"), S("jump", c, "if"),
     S("position", p, "do"), S("var", v, "if"), S("empty var", v, ""),
     Reads1(S("print", NoName, ""), c), S("import", NoName, "if")}

Last ==
    {S("|", b, ""), S("use", c, ""), S("jump", p, "if"), S("import", NoName, "if"),
     S("commitvaroperation", NoName, "")}

Programs == {Begins \o r : r \in Rest \X Rest \X Last}

Imported == <<S("jump", p, "if"), S("exit", NoName, "if")>>

\* An earlier session left a binary of the code that is compiled.
Left == {[f \in File |-> IF f = 1 THEN <<b, b>> ELSE Undefined]}

OfOthers == {<<b>>}

=============================================================================
