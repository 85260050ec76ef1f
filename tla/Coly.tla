-------------------------------- MODULE Coly --------------------------------
(***************************************************************************)
(* The interpreter of Coly programs in src/src-tauri/Tools/Coly.hpp:       *)
(* useCly with its line counter, addressline with its static definition in *)
(* progress, judgedefine, usedefine, and the pump of module Pump for codes *)
(* used without waiting.                                                   *)
(*                                                                         *)
(* A line is a statement: its operation, the name or the text it is about, *)
(* whether it stands alone or behind "do" or "if", and the names it reads  *)
(* as variables ("$name").  One step is one line, with every request it    *)
(* makes of the sync server.  The server has what it was told, or what     *)
(* other clients put there (Foreign), and any request of it may fail.      *)
(*                                                                         *)
(* The program that would call useCly, the languages' commands and their   *)
(* map LanguageMap.json are external; the last is taken to be there.  What *)
(* variables hold beside lines, and private definitions, which never go to *)
(* the server, are left out.                                               *)
(***************************************************************************)
EXTENDS Pump, Sequences, FiniteSets

CONSTANTS
    CodeName, VarName, PosName, \* the names that programs give
    Text,           \* the lines a code may have
    Compiled,       \* the codes in a language that needs to be compiled
    Codename,       \* of each code, number2ABC(compile(name)), its file's name
    Program,        \* the programs
    Library,        \* what readCly makes of the file a program may import: its
                    \* lines, or one of an unknown operation
    Leftover,       \* what each file of TempPATH may hold when the program starts
    Foreign,        \* what other clients may have given a name
    Undefined, NoName

Name == CodeName \cup VarName \cup PosName

Prefix == {"", "do", "if"}

Some == SUBSET Name

\* A code's definition may have its text on the line ("inline", what that comes
\* to, which is cut at its first space); a variable's may have no value.
Statement ==
    [op : {"code", "use", "usewithoutwait", "call"}, of : CodeName, behind : Prefix, reads : Some]
    \cup [op : {"inline"}, of : CodeName, behind : Prefix, reads : Some, says : Text]
    \cup [op : {"position"}, of : PosName, behind : Prefix, reads : Some]
    \cup [op : {"jump"}, of : CodeName \cup PosName, behind : Prefix, reads : Some]
    \cup [op : {"var", "empty var"}, of : VarName, behind : Prefix, reads : Some]
    \cup [op : {"|"}, of : Text, behind : {""}, reads : {{}}]
    \cup [op : {"import", "exit", "print", "commitvaroperation", "unknown"}, of : {NoName},
          behind : Prefix, reads : Some]
    \cup [op : {"#"}, of : {NoName}, behind : {""}, reads : {{}}]

ASSUME ProgramAssumption ==
    /\ \A p \in Program \cup {Library} : p \in Seq(Statement)
    /\ Compiled \subseteq CodeName
    /\ DOMAIN Codename = CodeName
    /\ VarName # {}

ASSUME ForeignAssumption == Foreign \subseteq Seq(Text)

ASSUME NullAssumption == Undefined \notin Int /\ NoName \notin Name

VARIABLES
    program,    \* the lines of useCly's first call
    frames,     \* the calls of useCly, innermost first: the lines each has, its
                \* lineid, and what addressline still has to commit behind it
    outcome,    \* "running", "ended", "exited" or "aborted"
    mem         \* the maps and the static variables: see Memory

colyVars == <<program, frames, outcome, mem>>

File == {Codename[c] : c \in CodeName}

Lines == Seq(Text) \cup {Undefined}

ASSUME LeftoverAssumption == Leftover \subseteq [File -> Lines]

\* defining and info are addressline's; compiledcode is by file; binary is what
\* each file was compiled from; synced, what the server was last told of each
\* name; ran, the code that ran last, the lines that ran, and whether they were
\* the program's.  Of what the code itself does not remember: taken, the names
\* whose lines the server's have replaced; untold, those the server did not take
\* when last sent; foreign, the files not compiled from lines of the program.
Memory ==
    [definedvar : [Name -> Lines], definedline : [Name -> Int \cup {Undefined}],
     definedposition : SUBSET PosName, compiledcode : SUBSET File,
     defining : BOOLEAN, info : [name : Name \cup {NoName}, lines : Seq(Text)],
     binary : [File -> Lines], synced : [Name -> Lines],
     ran : [name : CodeName \cup {NoName}, lines : Seq(Text), ours : BOOLEAN],
     taken : SUBSET Name, untold : SUBSET Name, foreign : SUBSET File]

Empty == [name |-> NoName, lines |-> <<>>]

ColyTypeOK ==
    /\ program \in Seq(Statement)
    /\ \A i \in DOMAIN frames :
        /\ frames[i].lines \in {program, Library}
        /\ frames[i].at \in -1..(Len(program) + Len(Library))
        /\ frames[i].over \in BOOLEAN
    /\ outcome \in {"running", "ended", "exited", "aborted"}
    /\ mem \in Memory
    /\ mem.defining => mem.info.name \in CodeName \cup VarName
    /\ PumpTypeOK

ColyInit ==
    /\ program \in Program
    /\ frames = <<[lines |-> program, at |-> 0, over |-> FALSE]>>
    /\ outcome = "running"
    /\ \E left \in Leftover :
        mem = [definedvar |-> [n \in Name |-> Undefined],
               definedline |-> [n \in Name |-> Undefined],
               definedposition |-> {}, compiledcode |-> {},
               defining |-> FALSE, info |-> Empty,
               binary |-> left, synced |-> [n \in Name |-> Undefined],
               ran |-> [name |-> NoName, lines |-> <<>>, ours |-> FALSE],
               taken |-> {}, untold |-> {}, foreign |-> File]
    /\ PumpInit

-----------------------------------------------------------------------------
(* What a line does to the memory m.  An operation has a set of results:   *)
(* the memory, lineid after it, what becomes of the program, whether a     *)
(* process is started, and overdefine.                                     *)

Result(m, at, outcm, over) ==
    [mem |-> m, at |-> at, outcome |-> outcm, started |-> FALSE, over |-> over]

\* A reply that does not parse, as that of a lost connection, which is empty, or a
\* language without an entry: the exception is caught by nobody.
Aborted(m, at) == Result(m, at, "aborted", FALSE)

\* The line behind a definition's lines completes it.
FlushForgets(m) == [m EXCEPT !.defining = FALSE]

Flush(m) ==
    IF m.defining
      THEN [m EXCEPT !.defining = FALSE, !.definedvar[m.info.name] = m.info.lines]
      ELSE m

\* The names a line reads: behind "do" and "if", and in what is printed, given to
\* a variable or a function, or made a code on its line.
Reads(s) ==
    IF s.behind = "" /\ s.op \notin {"print", "var", "inline", "call"} THEN {} ELSE s.reads

\* getvalue of a name: the server knows it not, or its lines become the name's.
Values(m, n) == {m.definedvar[n]} \cup ({m.synced[n]} \ {Undefined}) \cup Foreign

\* GetVarValue of each of the names; one that the interpreter does not know only
\* has its value asked for.
Reading(m, names) ==
    LET known == {n \in names : m.definedvar[n] # Undefined}
        Got(f) == [m EXCEPT
            !.definedvar = [n \in Name |-> IF n \in known THEN f[n] ELSE @[n]],
            !.taken = @ \cup {n \in known : f[n] # m.definedvar[n]}]
    IN  {Got(f) : f \in {g \in [known -> UNION {Values(m, n) : n \in known}] :
                            \A n \in known : g[n] \in Values(m, n)}}

\* Only what the server has never been told is synced.
CommitOnce(m, over, told) ==
    IF over /\ m.info.name # NoName /\ m.synced[m.info.name] = Undefined /\ told
      THEN [m EXCEPT !.synced[m.info.name] = m.info.lines, !.untold = @ \ {m.info.name}]
      ELSE m

\* "sync var" of the static info, whatever it is by now; told unless the server
\* refuses it or is not reached, and either way the interpreter goes on.
Commit(m, over, told) ==
    IF ~over \/ m.info.name = NoName
      THEN m
      ELSE IF told
             THEN [m EXCEPT !.synced[m.info.name] = m.info.lines, !.untold = @ \ {m.info.name}]
             ELSE [m EXCEPT !.untold = @ \cup {m.info.name}]

\* A name is defined as lines, at line at.
Defined(m, n, lines, at, defining) ==
    [m EXCEPT !.defining = defining, !.info = [name |-> n, lines |-> lines],
              !.definedvar[n] = lines, !.definedline[n] = at, !.taken = @ \ {n}]

\* The lines of the definition before stay.
DefineKeepsLines(m, c, at, over) ==
    {Result(Defined(m, c, m.info.lines, at, TRUE), at, "running", over)}

DefineCode(m, c, at, over) == {Result(Defined(m, c, <<>>, at, TRUE), at, "running", over)}

DefineInline(m, c, says, at) == {Result(Defined(m, c, <<says>>, at, FALSE), at, "running", TRUE)}

DefineVar(m, v, at) == {Result(Defined(m, v, <<>>, at, FALSE), at, "running", TRUE)}

\* Without a value the definition stays open, like a code's.
DefineEmptyVar(m, v, at, over) == {Result(Defined(m, v, <<>>, at, TRUE), at, "running", over)}

\* A position remains in definition.
PositionStaysOpen(m, p, at) ==
    {Result([m EXCEPT !.definedposition = @ \cup {p}, !.definedline[p] = at,
                      !.info = Empty, !.defining = TRUE],
            at, "running", FALSE)}

\* The line after it is taken for the position's.
PositionBehind(m, p, at) ==
    {Result([m EXCEPT !.definedposition = @ \cup {p}, !.definedline[p] = at + 1,
                      !.info = Empty],
            at, "running", FALSE)}

DefinePosition(m, p, at) ==
    {Result([m EXCEPT !.definedposition = @ \cup {p}, !.definedline[p] = at,
                      !.info = Empty],
            at, "running", FALSE)}

\* The run command, or the compile-and-run command if the file is not marked.
Run(m, c) ==
    LET f == Codename[c]
        marked == c \in Compiled /\ f \in m.compiledcode
        lines == IF marked THEN m.binary[f] ELSE m.definedvar[c]
        ours == IF marked THEN f \notin m.foreign ELSE c \notin m.taken
    IN  IF lines = Undefined
          THEN m
          ELSE [m EXCEPT !.ran = [name |-> c, lines |-> lines, ours |-> ours],
                         !.binary[f] = IF c \in Compiled THEN lines ELSE @,
                         !.foreign = IF c \notin Compiled THEN @
                                     ELSE IF ours THEN @ \ {f} ELSE @ \cup {f}]

Mark(m, c) == [m EXCEPT !.compiledcode = @ \cup {Codename[c]}]

\* usedefine: the file cannot be written, or the process is not registered, or
\* its command fails, or the code runs.  The file is marked before any of the
\* last three.
usedefine(m, n, at, wait, over) ==
    IF m.definedline[n] = Undefined
      THEN {Result(m, at, "running", over)}
      ELSE IF n \notin CodeName \/ m.definedvar[n] = Undefined
             THEN {Aborted(m, at)}
             ELSE {Aborted(m, at), Result(m, at, "running", over),
                   Result(Mark(m, n), at, "running", over),
                   [Result(Mark(m, n), at, "running", over) EXCEPT !.started = ~wait],
                   [Result(Mark(Run(m, n), n), at, "running", over) EXCEPT !.started = ~wait]}

\* operator[] makes a line 0 for a name that has none.
Jump(m, n, over) ==
    LET there == IF m.definedline[n] = Undefined THEN 0 ELSE m.definedline[n]
        known == [m EXCEPT !.definedline[n] = there]
    IN  IF n \in m.definedposition
          THEN {Result(known, there, "running", over)}
          ELSE usedefine(known, n, there, TRUE, over)

\* A function: its parameter is defined as a variable, and its code used; the
\* call returns before it would complete or commit anything itself.
Call(m, c, at) ==
    LET parameter == CHOOSE v \in VarName : TRUE
        defined == Defined(m, parameter, <<>>, at, FALSE)
    IN  UNION {usedefine(Commit(defined, TRUE, told), c, at, TRUE, FALSE) : told \in BOOLEAN}

\* An operation of the server that it refuses ends the line, which commits nothing.
CommitOperation(m, at, over) ==
    {Result(m, at, "running", over), Result(Commit(m, over, FALSE), at, "running", FALSE)}

\* One statement; at is what *lineid is, over whether the line has completed a
\* definition.
Operation(m, s, at, over) ==
    CASE s.op = "code"      -> DefineCode(m, s.of, at, over)
      [] s.op = "inline"    -> DefineInline(m, s.of, s.says, at)
      [] s.op = "var"       -> DefineVar(m, s.of, at)
      [] s.op = "empty var" -> DefineEmptyVar(m, s.of, at, over)
      [] s.op = "position"  -> DefinePosition(m, s.of, at)
      [] s.op = "use"       -> usedefine(m, s.of, at, TRUE, over)
      [] s.op = "usewithoutwait" -> usedefine(m, s.of, at, FALSE, over)
      [] s.op = "jump"      -> Jump(m, s.of, over)
      [] s.op = "call"      -> Call(m, s.of, at)
      [] s.op = "exit"      -> {Result(m, at, "exited", FALSE)}
      [] s.op = "commitvaroperation" -> CommitOperation(m, at, over)
      [] OTHER              -> {Result(m, at, "running", over)}

Committed(results) ==
    UNION {IF r.outcome = "running"
             THEN {[r EXCEPT !.mem = Commit(@, r.over, told)] : told \in BOOLEAN}
             ELSE {r} : r \in results}

\* The line on the memory m, completed and read for.  Behind "do" *lineid is
\* another, -1; an "if" holds or is passed over.
Does(m, s, at, over) ==
    LET Inner(l) ==
            {[r EXCEPT !.over = over] : r \in Committed(Operation(m, s, l, FALSE))}
    IN  CASE s.behind = ""   -> Committed(Operation(m, s, at, over))
          [] s.behind = "do" -> Committed({[r EXCEPT !.at = at] : r \in Inner(-1)})
          [] s.behind = "if" -> Committed(Inner(at) \cup {Result(m, at, "running", over)})

\* addressline.
addressline(m, s, at) ==
    (UNION {Does(k, s, at, m.defining) : k \in Reading(Flush(m), Reads(s))})
    \cup (IF Reads(s) # {} \/ s.behind = "if" THEN {Aborted(m, at)} ELSE {})

-----------------------------------------------------------------------------
Top == Head(frames)

Running == outcome = "running" /\ frames # <<>>

\* lineid < lines.size() compares as unsigned numbers: -1 is past the end.
AtEnd == Top.at = -1 \/ Top.at >= Len(Top.lines)

ThisLine == Top.lines[Top.at + 1]

\* The loop's lineid++, or where a jump has set it.
After(at) == IF at # Top.at THEN at ELSE at + 1

Move(at) == frames' = <<[Top EXCEPT !.at = at]>> \o Tail(frames)

\* The process ends, and with it the pump.
Leave(how) ==
    /\ outcome' = how
    /\ IF how = "running" THEN UNCHANGED pumpVars ELSE PumpKilled

\* A line of the code being defined.
DefinitionLine ==
    /\ Running /\ ~AtEnd
    /\ ThisLine.op = "|"
    /\ mem.defining
    /\ mem' = [mem EXCEPT !.info.lines = Append(@, ThisLine.of)]
    /\ Move(Top.at + 1)
    /\ UNCHANGED <<program, outcome, pumpVars>>

\* useCly itself passes over comments.
Comment ==
    /\ Running /\ ~AtEnd
    /\ ThisLine.op = "#"
    /\ Move(Top.at + 1)
    /\ UNCHANGED <<program, outcome, mem, pumpVars>>

\* Any other line, and an import behind an "if" that does not hold.  One process
\* at a time is started without waiting.
Line ==
    /\ Running /\ ~AtEnd
    /\ ThisLine.op # "#" /\ (ThisLine.op = "import" => ThisLine.behind = "if")
    /\ ThisLine.op = "|" => ~mem.defining
    /\ \E r \in addressline(mem, ThisLine, Top.at) :
        /\ mem' = r.mem
        /\ Move(After(r.at))
        /\ IF r.started
             THEN /\ outcome' = "running"
                  /\ pump \in {"none", "ended"} /\ process # "alive" /\ ~heir
                  /\ StartProcess
             ELSE Leave(r.outcome)
    /\ UNCHANGED program

\* "import lib", where readCly has not replaced it: another useCly, with line
\* numbers of its own and the same maps.
Import ==
    /\ Running /\ ~AtEnd
    /\ ThisLine.op = "import"
    /\ mem' \in Reading(Flush(mem), Reads(ThisLine))
    /\ frames' = <<[lines |-> Library, at |-> 0, over |-> FALSE],
                   [Top EXCEPT !.over = mem.defining]>> \o Tail(frames)
    /\ UNCHANGED <<program, outcome, pumpVars>>

\* The end of the lines: of the program, or of the file imported; the line that
\* imported it then commits what it has to.
EndOfLines ==
    /\ Running /\ AtEnd
    /\ IF Len(frames) = 1
         THEN Leave("ended") /\ UNCHANGED <<frames, mem>>
         ELSE LET importing == frames[2]
              IN  /\ \E told \in BOOLEAN : mem' = Commit(mem, importing.over, told)
                  /\ frames' = <<[importing EXCEPT !.at = @ + 1, !.over = FALSE]>>
                               \o SubSeq(frames, 3, Len(frames))
                  /\ UNCHANGED <<outcome, pumpVars>>
    /\ UNCHANGED program

InterpreterStep == DefinitionLine \/ Comment \/ Line \/ Import \/ EndOfLines

Threads == (PumpStep \/ ProcessStep) /\ UNCHANGED colyVars

ColyNext == InterpreterStep \/ Threads

-----------------------------------------------------------------------------
(* Properties.                                                             *)

\* The lines "|" behind line l of a file, up to the first that is none of a code.
BlockLines(lines, l) ==
    {k \in (l + 2)..Len(lines) :
        lines[k].op = "|" /\ \A j \in (l + 2)..k : lines[j].op \in {"|", "#"}}

\* What the lines in block say, in their order.
Spells(texts, lines, block) ==
    /\ Len(texts) = Cardinality(block)
    /\ \A k \in block : texts[Cardinality(block \cap 1..k)] = lines[k].of

IsBlock(texts, lines, l) == Spells(texts, lines, BlockLines(lines, l))

\* What the definition at line l gives its code.
IsWritten(texts, lines, l) ==
    IF lines[l + 1].op = "inline" THEN texts = <<lines[l + 1].says>> ELSE IsBlock(texts, lines, l)

OfCode == {"code", "inline"}

\* The names a file defines behind "do" have no line.
Plain(lines, ops) == \A i \in DOMAIN lines : lines[i].op \in ops => lines[i].behind # "do"

Defines(lines, n) ==
    \E i \in DOMAIN lines : lines[i].op \in OfCode \cup {"position"} /\ lines[i].of = n

\* The maps of the interpreter do not tell a code from a variable or a position.
OneKind(n) == n \notin (CodeName \cap VarName) \cup (CodeName \cap PosName) \cup (VarName \cap PosName)

\* Where n is defined by program alone, and is no name of anything else.
Own(n) == Defines(program, n) /\ ~Defines(Library, n) /\ OneKind(n)

InDefinition(c) == mem.defining /\ mem.info.name = c

(* A code that is defined, and not being defined, is all the lines that      *)
(* follow its definition in the program, or the text on it, whatever came    *)
(* between and however often the definition is passed; unless it was read as *)
(* a variable, which gives it the lines the server has.                      *)
WholeCode ==
    Plain(program, OfCode) =>
        \A c \in CodeName :
            Own(c) /\ mem.definedvar[c] # Undefined /\ ~InDefinition(c) /\ c \notin mem.taken =>
                IsWritten(mem.definedvar[c], program, mem.definedline[c])

\* The first line behind line i that is neither one of a code nor a comment.
Follows(lines, i, j) ==
    /\ i < j /\ lines[j].op \notin {"|", "#"}
    /\ \A k \in (i + 1)..(j - 1) : lines[k].op \in {"|", "#"}

Defining == OfCode \cup {"var", "empty var", "position", "call"}

\* No code is directly followed by another definition: the code that is complete
\* by then is not synced, and what is synced is the new one, without its lines.
DefinitionsApart(lines) ==
    \A i, j \in DOMAIN lines :
        lines[i].op \in {"code", "empty var"} /\ Follows(lines, i, j) => lines[j].op \notin Defining

(* The sync server was told of every code that is complete, and told all its *)
(* lines, where definitions are apart, the library defines nothing, the      *)
(* server took what it was last sent of the code, and did not give it other  *)
(* lines.                                                                    *)
SyncedAgrees ==
    /\ outcome \in {"running", "ended"} /\ Len(frames) = 1
    /\ DefinitionsApart(program)
    /\ \A i \in DOMAIN Library : Library[i].op \notin Defining
    => \A c \in CodeName \ (mem.taken \cup mem.untold) :
        mem.definedvar[c] # Undefined /\ ~InDefinition(c) =>
            mem.synced[c] = mem.definedvar[c]

\* The lines that define a code kept in file f.
DefiningLines(lines, f) ==
    {i \in DOMAIN lines : lines[i].op \in OfCode /\ Codename[lines[i].of] = f}

(* What runs under a code's name is what the program wrote for it, whichever *)
(* way the run was reached and whatever was compiled before, if no other     *)
(* definition shares its file, and nothing else a name in it; unless it was  *)
(* read as a variable, or its file was marked and never compiled.            *)
RunsWhatWasWritten ==
    mem.ran.name # NoName /\ mem.ran.ours =>
        LET f == Codename[mem.ran.name]
            defining == DefiningLines(program, f)
        IN  /\ Cardinality(defining) = 1 /\ DefiningLines(Library, f) = {}
            /\ \A c \in CodeName : Codename[c] = f => OneKind(c)
            => \A i \in defining : IsWritten(mem.ran.lines, program, i - 1)

Jumps ==
    /\ Line /\ ThisLine.op = "jump" /\ ThisLine.behind # "do"
    /\ frames'[1].at # Top.at + 1

(* A jump to a position that is defined goes on at a line that defines it,   *)
(* where the program alone does so, and not behind "do".                     *)
JumpsLand ==
    [][\A p \in PosName :
        Jumps /\ ThisLine.of = p /\ p \in mem.definedposition
        /\ Own(p) /\ Plain(program, {"position"}) /\ Len(frames) = 1
        => LET there == program[frames'[1].at + 1]
           IN  there.op = "position" /\ there.of = p]_colyVars

ColySpec ==
    /\ ColyInit /\ [][ColyNext]_<<colyVars, pumpVars>>
    /\ WF_<<colyVars, pumpVars>>(PumpStep /\ UNCHANGED colyVars)

=============================================================================
