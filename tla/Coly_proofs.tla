---------------------------- MODULE Coly_proofs ----------------------------
(***************************************************************************)
(* Theorems about module Coly, for any programs, any library and any       *)
(* names, whatever an earlier session left behind and other clients have   *)
(* given the server.                                                       *)
(***************************************************************************)
EXTENDS Coly, FiniteSetTheorems, SequenceTheorems, TLAPS

\* Line numbers, of the program or of the library, are below this one.
Span == Len(program) + Len(Library)

Line0 == -1..(Span - 1)

\* The memory is of its type, what is being defined is a code or a variable, and the
\* names that have a line have one there is, or -1.
MemoryOK(m) ==
    /\ m \in Memory
    /\ m.defining => m.info.name \in CodeName \cup VarName
    /\ \A n \in Name : m.definedline[n] \in Line0 \cup {Undefined}

\* The results of an operation are of their type, and so is their memory.
Outcome == [mem : Memory, at : Line0, outcome : {"running", "exited", "aborted"},
            started : BOOLEAN, over : BOOLEAN]

ResultOK(r) == r \in Outcome /\ MemoryOK(r.mem)

Info == [name : Name \cup {NoName}, lines : Seq(Text)]

-----------------------------------------------------------------------------
(* What each change of the memory does to its type.                        *)

\* The completion of a definition.
LEMMA FlushOK ==
    ASSUME NEW m, MemoryOK(m)
    PROVE  MemoryOK(Flush(m)) /\ Flush(m).defining = FALSE
  BY DEF MemoryOK, Flush, Memory, Lines, Name

\* A request to the server.
LEMMA CommitOK ==
    ASSUME NEW m, MemoryOK(m), NEW over, NEW told
    PROVE  MemoryOK(Commit(m, over, told))
  BY DEF MemoryOK, Commit, Memory, Lines

\* The memory k is m but for lines of names that the server has taken over.
Reread(m, k) ==
    /\ k.definedline = m.definedline /\ k.definedposition = m.definedposition
    /\ k.defining = m.defining /\ k.info = m.info
    /\ k.binary = m.binary /\ k.foreign = m.foreign /\ k.ran = m.ran
    /\ k.synced = m.synced /\ k.untold = m.untold
    /\ m.taken \subseteq k.taken
    /\ \A n \in Name : n \notin k.taken => k.definedvar[n] = m.definedvar[n]

\* Names are read.
LEMMA ReadingOK ==
    ASSUME NEW m, MemoryOK(m), NEW names \in SUBSET Name, NEW k \in Reading(m, names)
    PROVE  MemoryOK(k) /\ Reread(m, k)
  <1> DEFINE known == {n \in names : m.definedvar[n] # Undefined}
             Got(f) == [m EXCEPT
                 !.definedvar = [n \in Name |-> IF n \in known THEN f[n] ELSE @[n]],
                 !.taken = @ \cup {n \in known : f[n] # m.definedvar[n]}]
  <1>1. PICK f \in [known -> UNION {Values(m, n) : n \in known}] :
          /\ \A n \in known : f[n] \in Values(m, n)
          /\ k = Got(f)
    BY DEF Reading
  <1>2. m \in Memory /\ m.definedvar \in [Name -> Lines] /\ m.synced \in [Name -> Lines]
        /\ m.taken \in SUBSET Name /\ known \subseteq Name
    BY DEF MemoryOK, Memory
  <1>3. \A n \in known : f[n] \in Lines
    BY <1>1, <1>2, ForeignAssumption DEF Values, Lines
  <1> DEFINE vals == [n \in Name |-> IF n \in known THEN f[n] ELSE m.definedvar[n]]
             got == m.taken \cup {n \in known : f[n] # m.definedvar[n]}
  <1>4. k = [m EXCEPT !.definedvar = vals, !.taken = got]
    BY <1>1
  <1>5. vals \in [Name -> Lines] /\ got \in SUBSET Name
    BY <1>2, <1>3
  <1>6. \A n \in Name : n \notin got => vals[n] = m.definedvar[n]
    OBVIOUS
  <1>7. m.taken \subseteq got
    OBVIOUS
  <1> HIDE DEF vals, got, known
  <1>8. /\ k \in Memory /\ k.definedvar = vals /\ k.taken = got
        /\ k.definedline = m.definedline /\ k.definedposition = m.definedposition
        /\ k.defining = m.defining /\ k.info = m.info
        /\ k.binary = m.binary /\ k.foreign = m.foreign /\ k.ran = m.ran
        /\ k.synced = m.synced /\ k.untold = m.untold
    BY <1>2, <1>4, <1>5 DEF Memory
  <1>9. MemoryOK(k)
    BY <1>8 DEF MemoryOK
  <1> QED  BY <1>6, <1>7, <1>8, <1>9 DEF Reread

\* A code runs, and its file is marked.
LEMMA RunOK ==
    ASSUME NEW m, MemoryOK(m), NEW c \in CodeName
    PROVE  MemoryOK(Run(m, c)) /\ MemoryOK(Mark(m, c))
  <1>1. MemoryOK(Mark(m, c))
    BY DEF MemoryOK, Mark, Memory, File
  <1> DEFINE f == Codename[c]
             marked == c \in Compiled /\ f \in m.compiledcode
             lines == IF marked THEN m.binary[f] ELSE m.definedvar[c]
             ours == IF marked THEN f \notin m.foreign ELSE c \notin m.taken
             bin == [m.binary EXCEPT ![f] = IF c \in Compiled THEN lines ELSE @]
             fore == IF c \notin Compiled THEN m.foreign
                     ELSE IF ours THEN m.foreign \ {f} ELSE m.foreign \cup {f}
             n == [m EXCEPT !.ran = [name |-> c, lines |-> lines, ours |-> ours],
                            !.binary = bin, !.foreign = fore]
  <1>2. /\ f \in File /\ c \in Name /\ m \in Memory /\ lines \in Lines /\ ours \in BOOLEAN
        /\ m.binary \in [File -> Lines] /\ m.foreign \in SUBSET File
    BY DEF File, Name, MemoryOK, Memory
  <1>3. CASE lines = Undefined
    <2>1. Run(m, c) = m
      BY <1>3, Zenon DEF Run
    <2> QED  BY <1>1, <2>1
  <1>4. CASE lines # Undefined
    <2>1. Run(m, c) = n
      BY <1>2, <1>4 DEF Run, Memory
    <2>2. bin \in [File -> Lines] /\ fore \in SUBSET File /\ lines \in Seq(Text)
      BY <1>2, <1>4 DEF Lines
    <2> HIDE DEF bin, fore, lines, ours, f
    <2>3. n \in Memory /\ n.defining = m.defining /\ n.info = m.info /\ n.definedline = m.definedline
      BY <1>2, <2>2 DEF Memory
    <2> HIDE DEF n
    <2>4. MemoryOK(n)
      BY <2>3 DEF MemoryOK
    <2> QED  BY <1>1, <2>1, <2>4
  <1> QED  BY <1>3, <1>4

\* A result is right if its memory and its line are.
LEMMA ResultIsOK ==
    ASSUME NEW m, MemoryOK(m), NEW at \in Line0,
           NEW out \in {"running", "exited", "aborted"}, NEW over \in BOOLEAN
    PROVE  ResultOK(Result(m, at, out, over))
  <1>1. m \in Memory
    BY DEF MemoryOK
  <1>2. Result(m, at, out, over) \in Outcome
    BY <1>1 DEF Result, Outcome
  <1>3. Result(m, at, out, over).mem = m
    BY DEF Result
  <1> QED  BY <1>2, <1>3, Zenon DEF ResultOK

\* A name is defined.
LEMMA DefinedOK ==
    ASSUME NEW m, MemoryOK(m), NEW n \in CodeName \cup VarName, NEW at \in Line0,
           NEW lines \in Seq(Text), NEW defining \in BOOLEAN
    PROVE  LET d == Defined(m, n, lines, at, defining) IN
             /\ MemoryOK(d) /\ d.defining = defining /\ d.info = [name |-> n, lines |-> lines]
             /\ d.definedposition = m.definedposition /\ d.binary = m.binary
             /\ d.foreign = m.foreign /\ d.ran = m.ran
             /\ d.synced = m.synced /\ d.untold = m.untold
             /\ d.taken = m.taken \ {n}
             /\ \A x \in Name : d.definedvar[x] = IF x = n THEN lines ELSE m.definedvar[x]
             /\ \A x \in Name : d.definedline[x] = IF x = n THEN at ELSE m.definedline[x]
  <1> DEFINE d == Defined(m, n, lines, at, defining)
             info == [name |-> n, lines |-> lines]
             vals == [m.definedvar EXCEPT ![n] = lines]
             at2 == [m.definedline EXCEPT ![n] = at]
  <1>1. n \in Name /\ at \in Int /\ m \in Memory
    BY DEF Name, Line0, MemoryOK
  <1>2. info \in Info /\ info.name = n
    BY <1>1 DEF Info
  <1>3. /\ vals \in [Name -> Lines] /\ at2 \in [Name -> Int \cup {Undefined}]
        /\ \A x \in Name : vals[x] = IF x = n THEN lines ELSE m.definedvar[x]
        /\ \A x \in Name : at2[x] = IF x = n THEN at ELSE m.definedline[x]
    <2>1. m.definedvar \in [Name -> Lines] /\ m.definedline \in [Name -> Int \cup {Undefined}]
      BY <1>1 DEF Memory
    <2>2. lines \in Lines /\ at \in Int \cup {Undefined}
      BY <1>1 DEF Lines
    <2>3. vals \in [Name -> Lines] /\ at2 \in [Name -> Int \cup {Undefined}]
      BY <1>1, <2>1, <2>2
    <2>4. \A x \in Name : vals[x] = IF x = n THEN lines ELSE m.definedvar[x]
      BY <1>1, <2>1
    <2>5. \A x \in Name : at2[x] = IF x = n THEN at ELSE m.definedline[x]
      BY <1>1, <2>1
    <2> QED  BY <2>3, <2>4, <2>5
  <1>4. d = [m EXCEPT !.defining = defining, !.info = info, !.definedvar = vals,
                      !.definedline = at2, !.taken = m.taken \ {n}]
    BY <1>1 DEF Defined, Memory
  <1> HIDE DEF d, info, vals, at2
  <1>5. /\ d \in Memory /\ d.defining = defining /\ d.info = info
        /\ d.definedposition = m.definedposition /\ d.binary = m.binary
        /\ d.foreign = m.foreign /\ d.ran = m.ran
        /\ d.synced = m.synced /\ d.untold = m.untold
        /\ d.taken = m.taken \ {n} /\ d.definedvar = vals /\ d.definedline = at2
    BY <1>1, <1>2, <1>3, <1>4 DEF Memory, Info
  <1>6. MemoryOK(d)
    <2>1. d.info.name \in CodeName \cup VarName
      BY <1>2, <1>5
    <2>2. \A x \in Name : d.definedline[x] \in Line0 \cup {Undefined}
      BY <1>3, <1>5 DEF MemoryOK
    <2> QED  BY <1>5, <2>1, <2>2 DEF MemoryOK
  <1>7. /\ \A x \in Name : d.definedvar[x] = IF x = n THEN lines ELSE m.definedvar[x]
        /\ \A x \in Name : d.definedline[x] = IF x = n THEN at ELSE m.definedline[x]
    BY <1>3, <1>5
  <1>8. d.info = [name |-> n, lines |-> lines]
    BY <1>5 DEF info
  <1> QED  BY <1>5, <1>6, <1>7, <1>8, Zenon DEF d

\* A code, a variable, with a value or without.
LEMMA DefineOK ==
    ASSUME NEW m, MemoryOK(m), NEW n \in CodeName \cup VarName, NEW at \in Line0,
           NEW over \in BOOLEAN, NEW says \in Text,
           NEW r, \/ r \in DefineCode(m, n, at, over)
                  \/ r \in DefineInline(m, n, says, at)
                  \/ r \in DefineVar(m, n, at)
                  \/ r \in DefineEmptyVar(m, n, at, over)
    PROVE  ResultOK(r)
  <1>1. <<>> \in Seq(Text) /\ <<says>> \in Seq(Text) /\ TRUE \in BOOLEAN /\ FALSE \in BOOLEAN
    OBVIOUS
  <1>2. \/ r = Result(Defined(m, n, <<>>, at, TRUE), at, "running", over)
        \/ r = Result(Defined(m, n, <<says>>, at, FALSE), at, "running", TRUE)
        \/ r = Result(Defined(m, n, <<>>, at, FALSE), at, "running", TRUE)
    BY Zenon DEF DefineCode, DefineInline, DefineVar, DefineEmptyVar
  <1>3. /\ MemoryOK(Defined(m, n, <<>>, at, TRUE))
        /\ MemoryOK(Defined(m, n, <<says>>, at, FALSE))
        /\ MemoryOK(Defined(m, n, <<>>, at, FALSE))
    BY <1>1, DefinedOK
  <1> QED  BY <1>1, <1>2, <1>3, ResultIsOK, Zenon

\* A position.
LEMMA DefinePositionOK ==
    ASSUME NEW m, MemoryOK(m), ~m.defining, NEW p \in PosName, NEW at \in Line0,
           NEW r \in DefinePosition(m, p, at)
    PROVE  ResultOK(r)
  <1> DEFINE after == [m EXCEPT !.definedposition = @ \cup {p}, !.definedline[p] = at,
                                !.info = Empty]
  <1>1. r = Result(after, at, "running", FALSE)
    BY Zenon DEF DefinePosition
  <1>2. p \in Name /\ at \in Int /\ Empty \in Info /\ m \in Memory
    BY DEF Name, Line0, Empty, Info, MemoryOK
  <1>3. after \in Memory /\ ~after.defining
    BY <1>2 DEF Memory, Info
  <1>4. \A x \in Name : after.definedline[x] = IF x = p THEN at ELSE m.definedline[x]
    BY <1>2 DEF Memory
  <1> HIDE DEF after
  <1>5. MemoryOK(after)
    BY <1>3, <1>4 DEF MemoryOK
  <1>6. FALSE \in BOOLEAN
    OBVIOUS
  <1> QED  BY <1>1, <1>5, <1>6, ResultIsOK, Zenon

\* A result may start a process.
LEMMA StartsOK ==
    ASSUME NEW x, ResultOK(x), NEW started \in BOOLEAN
    PROVE  ResultOK([x EXCEPT !.started = started])
  <1> DEFINE y == [x EXCEPT !.started = started]
  <1>1. y \in Outcome /\ y.mem = x.mem
    BY DEF ResultOK, Outcome
  <1> HIDE DEF y
  <1>2. ResultOK(y)
    BY <1>1, Zenon DEF ResultOK
  <1> QED  BY <1>2 DEF y

\* A code is used.
LEMMA UseOK ==
    ASSUME NEW m, MemoryOK(m), NEW n \in Name, NEW at \in Line0, NEW wait \in BOOLEAN,
           NEW over \in BOOLEAN, NEW r \in usedefine(m, n, at, wait, over)
    PROVE  ResultOK(r)
  <1>0. ResultOK(Result(m, at, "running", over)) /\ ResultOK(Result(m, at, "aborted", FALSE))
    BY ResultIsOK
  <1>1. CASE m.definedline[n] = Undefined
    <2>1. r = Result(m, at, "running", over)
      BY <1>1, Zenon DEF usedefine
    <2> QED  BY <1>0, <2>1
  <1>2. CASE m.definedline[n] # Undefined /\ (n \notin CodeName \/ m.definedvar[n] = Undefined)
    <2>1. r = Result(m, at, "aborted", FALSE)
      BY <1>2, Zenon DEF usedefine, Aborted
    <2> QED  BY <1>0, <2>1
  <1>3. CASE m.definedline[n] # Undefined /\ n \in CodeName /\ m.definedvar[n] # Undefined
    <2> DEFINE marked == Result(Mark(m, n), at, "running", over)
               ran == Result(Mark(Run(m, n), n), at, "running", over)
    <2>1. \/ r = Result(m, at, "aborted", FALSE)
          \/ r = Result(m, at, "running", over)
          \/ r = marked
          \/ r = [marked EXCEPT !.started = ~wait]
          \/ r = [ran EXCEPT !.started = ~wait]
      BY <1>3, Zenon DEF usedefine, Aborted
    <2>2. MemoryOK(Mark(m, n)) /\ MemoryOK(Mark(Run(m, n), n))
      BY <1>3, RunOK
    <2>3. ResultOK(marked) /\ ResultOK(ran)
      BY <2>2, ResultIsOK, Zenon
    <2>4. (~wait) \in BOOLEAN
      BY Zenon
    <2> HIDE DEF marked, ran
    <2> QED  BY <1>0, <2>1, <2>3, <2>4, StartsOK, Zenon
  <1> QED  BY <1>1, <1>2, <1>3

\* A jump.
LEMMA JumpOK ==
    ASSUME NEW m, MemoryOK(m), NEW n \in Name, 0 \in Line0, NEW over \in BOOLEAN,
           NEW r \in Jump(m, n, over)
    PROVE  ResultOK(r)
  <1> DEFINE there == IF m.definedline[n] = Undefined THEN 0 ELSE m.definedline[n]
             known == [m EXCEPT !.definedline[n] = there]
  <1>1. there \in Line0
    BY DEF MemoryOK
  <1>2. MemoryOK(known)
    <2>1. there \in Int
      BY <1>1 DEF Line0
    <2> HIDE DEF there
    <2>2. known \in Memory
      BY <2>1 DEF MemoryOK, Memory
    <2> QED  BY <1>1, <2>2 DEF MemoryOK, Memory
  <1>3. r = Result(known, there, "running", over) \/ r \in usedefine(known, n, there, TRUE, over)
    BY Zenon DEF Jump
  <1> HIDE DEF there, known
  <1>4. TRUE \in BOOLEAN
    OBVIOUS
  <1> QED  BY <1>1, <1>2, <1>3, <1>4, ResultIsOK, UseOK, Zenon

\* A call.
LEMMA CallOK ==
    ASSUME NEW m, MemoryOK(m), NEW c \in CodeName, NEW at \in Line0, NEW r \in Call(m, c, at)
    PROVE  ResultOK(r)
  <1> DEFINE parameter == CHOOSE v \in VarName : TRUE
  <1>1. parameter \in VarName
    BY ProgramAssumption
  <1> DEFINE defined == Defined(m, parameter, <<>>, at, FALSE)
  <1>2. PICK told \in BOOLEAN : r \in usedefine(Commit(defined, TRUE, told), c, at, TRUE, FALSE)
    BY Zenon DEF Call
  <1> HIDE DEF parameter
  <1>3. MemoryOK(defined)
    <2>1. parameter \in CodeName \cup VarName /\ <<>> \in Seq(Text) /\ FALSE \in BOOLEAN
      BY <1>1
    <2> QED  BY <2>1, DefinedOK, Zenon
  <1>4. MemoryOK(Commit(defined, TRUE, told))
    BY <1>3, CommitOK, Zenon
  <1>5. c \in Name /\ TRUE \in BOOLEAN /\ FALSE \in BOOLEAN
    BY DEF Name
  <1> QED  BY <1>2, <1>4, <1>5, UseOK, Zenon

\* What statements are about.
LEMMA StatementOf ==
    ASSUME NEW s \in Statement
    PROVE  /\ s.op \in {"code", "inline", "use", "usewithoutwait", "call"} => s.of \in CodeName
           /\ s.op = "inline" => s.says \in Text
           /\ s.op = "position" => s.of \in PosName
           /\ s.op = "jump" => s.of \in CodeName \cup PosName
           /\ s.op \in {"var", "empty var"} => s.of \in VarName
           /\ s.op = "|" => s.of \in Text
           /\ s.behind \in Prefix
           /\ Reads(s) \in SUBSET Name
  <1>1. s.reads \in SUBSET Name
    BY DEF Statement, Some
  <1>2. Reads(s) \in SUBSET Name
    BY <1>1 DEF Reads
  <1>3. s.behind \in Prefix
    BY DEF Statement, Prefix
  <1>4. /\ s.op \in {"code", "inline", "use", "usewithoutwait", "call"} => s.of \in CodeName
        /\ s.op = "inline" => s.says \in Text
        /\ s.op = "position" => s.of \in PosName
        /\ s.op = "jump" => s.of \in CodeName \cup PosName
        /\ s.op \in {"var", "empty var"} => s.of \in VarName
        /\ s.op = "|" => s.of \in Text
    BY DEF Statement
  <1> QED  BY <1>2, <1>3, <1>4

\* The operations with a meaning of their own.
Plainly == {"code", "inline", "var", "empty var", "position", "use", "usewithoutwait", "jump",
            "call", "exit", "commitvaroperation"}

\* The operations one by one.
LEMMA OperationCases ==
    ASSUME NEW m, NEW s, NEW at, NEW over, NEW r \in Operation(m, s, at, over)
    PROVE  \/ s.op = "code" /\ r \in DefineCode(m, s.of, at, over)
           \/ s.op = "inline" /\ r \in DefineInline(m, s.of, s.says, at)
           \/ s.op = "var" /\ r \in DefineVar(m, s.of, at)
           \/ s.op = "empty var" /\ r \in DefineEmptyVar(m, s.of, at, over)
           \/ s.op = "position" /\ r \in DefinePosition(m, s.of, at)
           \/ s.op = "use" /\ r \in usedefine(m, s.of, at, TRUE, over)
           \/ s.op = "usewithoutwait" /\ r \in usedefine(m, s.of, at, FALSE, over)
           \/ s.op = "jump" /\ r \in Jump(m, s.of, over)
           \/ s.op = "call" /\ r \in Call(m, s.of, at)
           \/ s.op = "exit" /\ r \in {Result(m, at, "exited", FALSE)}
           \/ s.op = "commitvaroperation" /\ r \in CommitOperation(m, at, over)
           \/ s.op \notin Plainly /\ r \in {Result(m, at, "running", over)}
  <1>1. CASE s.op = "code"
    BY <1>1, Zenon DEF Operation
  <1>2. CASE s.op = "inline"
    BY <1>2 DEF Operation
  <1>3. CASE s.op = "var"
    BY <1>3 DEF Operation
  <1>4. CASE s.op = "empty var"
    BY <1>4 DEF Operation
  <1>5. CASE s.op = "position"
    BY <1>5 DEF Operation
  <1>6. CASE s.op = "use"
    BY <1>6 DEF Operation
  <1>7. CASE s.op = "usewithoutwait"
    BY <1>7 DEF Operation
  <1>8. CASE s.op = "jump"
    BY <1>8 DEF Operation
  <1>9. CASE s.op = "call"
    BY <1>9 DEF Operation
  <1>10. CASE s.op = "exit"
    BY <1>10 DEF Operation
  <1>11. CASE s.op = "commitvaroperation"
    BY <1>11 DEF Operation
  <1>12. CASE s.op \notin Plainly
    BY <1>12 DEF Operation, Plainly
  <1> QED  BY <1>1, <1>2, <1>3, <1>4, <1>5, <1>6, <1>7, <1>8, <1>9, <1>10, <1>11, <1>12,
              Zenon DEF Plainly

\* An operation that the server is asked for.
LEMMA CommitOperationOK ==
    ASSUME NEW m, MemoryOK(m), NEW at \in Line0, NEW over \in BOOLEAN,
           NEW r \in CommitOperation(m, at, over)
    PROVE  ResultOK(r)
  <1>1. \/ r = Result(m, at, "running", over)
        \/ r = Result(Commit(m, over, FALSE), at, "running", FALSE)
    BY Zenon DEF CommitOperation
  <1>2. MemoryOK(Commit(m, over, FALSE)) /\ FALSE \in BOOLEAN
    BY CommitOK
  <1> QED  BY <1>1, <1>2, ResultIsOK, Zenon

\* Any statement.
LEMMA OperationOK ==
    ASSUME NEW m, MemoryOK(m), ~m.defining, NEW s \in Statement, NEW at \in Line0, 0 \in Line0,
           NEW over \in BOOLEAN, NEW r \in Operation(m, s, at, over)
    PROVE  ResultOK(r)
  <1>1. TRUE \in BOOLEAN /\ FALSE \in BOOLEAN
    OBVIOUS
  <1>2. CASE s.op = "inline" /\ r \in DefineInline(m, s.of, s.says, at)
    <2>1. s.of \in CodeName \cup VarName /\ s.says \in Text
      BY <1>2, StatementOf
    <2> QED  BY <1>2, <2>1, DefineOK
  <1>3. CASE \/ s.op = "code" /\ r \in DefineCode(m, s.of, at, over)
             \/ s.op = "var" /\ r \in DefineVar(m, s.of, at)
             \/ s.op = "empty var" /\ r \in DefineEmptyVar(m, s.of, at, over)
    <2>1. s.of \in CodeName \cup VarName
      BY <1>3, StatementOf
    <2>2. <<>> \in Seq(Text)
      OBVIOUS
    <2>3. \/ r = Result(Defined(m, s.of, <<>>, at, TRUE), at, "running", over)
          \/ r = Result(Defined(m, s.of, <<>>, at, FALSE), at, "running", TRUE)
      BY <1>3, Zenon DEF DefineCode, DefineVar, DefineEmptyVar
    <2>4. /\ MemoryOK(Defined(m, s.of, <<>>, at, TRUE))
          /\ MemoryOK(Defined(m, s.of, <<>>, at, FALSE))
      BY <1>1, <2>1, <2>2, DefinedOK
    <2> QED  BY <1>1, <2>3, <2>4, ResultIsOK, Zenon
  <1>4. CASE s.op = "position" /\ r \in DefinePosition(m, s.of, at)
    BY <1>4, DefinePositionOK, StatementOf
  <1>5. CASE \/ s.op = "use" /\ r \in usedefine(m, s.of, at, TRUE, over)
             \/ s.op = "usewithoutwait" /\ r \in usedefine(m, s.of, at, FALSE, over)
    <2>1. s.of \in Name
      BY <1>5, StatementOf DEF Name
    <2> QED  BY <1>1, <1>5, <2>1, UseOK, Zenon
  <1>6. CASE s.op = "jump" /\ r \in Jump(m, s.of, over)
    <2>1. s.of \in Name
      BY <1>6, StatementOf DEF Name
    <2> QED  BY <1>6, <2>1, JumpOK
  <1>7. CASE s.op = "call" /\ r \in Call(m, s.of, at)
    BY <1>7, CallOK, StatementOf
  <1>8. CASE \/ r \in {Result(m, at, "exited", FALSE)}
             \/ r \in {Result(m, at, "running", over)}
    BY <1>1, <1>8, ResultIsOK
  <1>9. CASE r \in CommitOperation(m, at, over)
    BY <1>9, CommitOperationOK
  <1> QED  BY <1>2, <1>3, <1>4, <1>5, <1>6, <1>7, <1>8, <1>9, OperationCases, Zenon

\* The requests a line makes at its end.
LEMMA CommittedIs ==
    ASSUME NEW R, NEW r \in Committed(R)
    PROVE  \E q \in R : IF q.outcome = "running"
                          THEN \E told \in BOOLEAN : r = [q EXCEPT !.mem = Commit(q.mem, q.over, told)]
                          ELSE r = q
  BY Zenon DEF Committed

LEMMA CommittedOK ==
    ASSUME NEW R, \A q \in R : ResultOK(q), NEW r \in Committed(R)
    PROVE  ResultOK(r)
  <1>1. PICK q \in R : IF q.outcome = "running"
                         THEN \E told \in BOOLEAN : r = [q EXCEPT !.mem = Commit(q.mem, q.over, told)]
                         ELSE r = q
    BY CommittedIs
  <1>2. ResultOK(q)
    BY <1>1
  <1>3. ASSUME NEW told \in BOOLEAN, r = [q EXCEPT !.mem = Commit(q.mem, q.over, told)]
        PROVE  ResultOK(r)
    <2>1. MemoryOK(Commit(q.mem, q.over, told))
      BY <1>2, CommitOK, Zenon DEF ResultOK
    <2>2. Commit(q.mem, q.over, told) \in Memory
      BY <2>1 DEF MemoryOK
    <2>3. r \in Outcome /\ r.mem = Commit(q.mem, q.over, told)
      BY <1>2, <1>3, <2>2 DEF ResultOK, Outcome
    <2> QED  BY <2>1, <2>3, Zenon DEF ResultOK
  <1> QED  BY <1>1, <1>2, <1>3

\* A result of another memory, line or overdefine.
LEMMA ChangedOK ==
    ASSUME NEW q, ResultOK(q), NEW at \in Line0, NEW over \in BOOLEAN
    PROVE  ResultOK([q EXCEPT !.over = over]) /\ ResultOK([q EXCEPT !.at = at])
  <1> DEFINE x == [q EXCEPT !.over = over]
             y == [q EXCEPT !.at = at]
  <1>1. x \in Outcome /\ x.mem = q.mem /\ y \in Outcome /\ y.mem = q.mem
    BY DEF ResultOK, Outcome
  <1> HIDE DEF x, y
  <1>2. ResultOK(x) /\ ResultOK(y)
    BY <1>1, Zenon DEF ResultOK
  <1> QED  BY <1>2 DEF x, y

\* A line on the memory that is completed and read for.
LEMMA DoesOK ==
    ASSUME NEW m, MemoryOK(m), ~m.defining, NEW s \in Statement, NEW at \in Line0, 0 \in Line0,
           -1 \in Line0, NEW over \in BOOLEAN, NEW r \in Does(m, s, at, over)
    PROVE  ResultOK(r)
  <1> DEFINE Inner(l) ==
               {[q EXCEPT !.over = over] : q \in Committed(Operation(m, s, l, FALSE))}
  <1>1. \A l \in Line0 : \A q \in Inner(l) : ResultOK(q)
    <2> SUFFICES ASSUME NEW l \in Line0, NEW q \in Inner(l) PROVE ResultOK(q)
      OBVIOUS
    <2>1. PICK x \in Committed(Operation(m, s, l, FALSE)) : q = [x EXCEPT !.over = over]
      OBVIOUS
    <2>2. \A y \in Operation(m, s, l, FALSE) : ResultOK(y)
      BY OperationOK
    <2>3. ResultOK(x)
      BY <2>1, <2>2, CommittedOK
    <2> QED  BY <2>1, <2>3, ChangedOK
  <1>2. \/ r \in Committed(Operation(m, s, at, over))
        \/ r \in Committed({[q EXCEPT !.at = at] : q \in Inner(-1)})
        \/ r \in Committed(Inner(at) \cup {Result(m, at, "running", over)})
    BY StatementOf DEF Does, Prefix
  <1> HIDE DEF Inner
  <1>3. CASE r \in Committed(Operation(m, s, at, over))
    <2>1. \A q \in Operation(m, s, at, over) : ResultOK(q)
      BY OperationOK
    <2> QED  BY <1>3, <2>1, CommittedOK
  <1>4. CASE r \in Committed({[q EXCEPT !.at = at] : q \in Inner(-1)})
    <2>1. \A q \in {[x EXCEPT !.at = at] : x \in Inner(-1)} : ResultOK(q)
      BY <1>1, ChangedOK
    <2> QED  BY <1>4, <2>1, CommittedOK
  <1>5. CASE r \in Committed(Inner(at) \cup {Result(m, at, "running", over)})
    <2>1. ResultOK(Result(m, at, "running", over))
      BY ResultIsOK, Zenon
    <2>2. \A q \in Inner(at) \cup {Result(m, at, "running", over)} : ResultOK(q)
      BY <1>1, <2>1
    <2> QED  BY <1>5, <2>2, CommittedOK
  <1> QED  BY <1>2, <1>3, <1>4, <1>5

\* A line, behind "do" or "if" or alone.
LEMMA LineOK ==
    ASSUME NEW m, MemoryOK(m), NEW s \in Statement, NEW at \in Line0, 0 \in Line0, -1 \in Line0,
           NEW r \in addressline(m, s, at)
    PROVE  ResultOK(r)
  <1>1. MemoryOK(Flush(m)) /\ ~Flush(m).defining /\ m.defining \in BOOLEAN
    BY FlushOK, Zenon DEF MemoryOK, Memory
  <1>2. \/ \E k \in Reading(Flush(m), Reads(s)) : r \in Does(k, s, at, m.defining)
        \/ r = Aborted(m, at)
    BY Zenon DEF addressline
  <1>3. ASSUME NEW k \in Reading(Flush(m), Reads(s)), r \in Does(k, s, at, m.defining)
        PROVE  ResultOK(r)
    <2>1. MemoryOK(k) /\ Reread(Flush(m), k)
      BY <1>1, StatementOf, ReadingOK
    <2>2. ~k.defining
      BY <1>1, <2>1 DEF Reread
    <2> QED  BY <1>1, <1>3, <2>1, <2>2, DoesOK, Zenon
  <1>4. CASE r = Aborted(m, at)
    <2>1. FALSE \in BOOLEAN
      OBVIOUS
    <2> QED  BY <1>4, <2>1, ResultIsOK, Zenon DEF Aborted
  <1> QED  BY <1>2, <1>3, <1>4

-----------------------------------------------------------------------------
(* The calls of useCly, a stack with the innermost first.                  *)

\* The innermost call is replaced.
LEMMA TopReplaced ==
    ASSUME NEW S, NEW q \in Seq(S), q # <<>>, NEW a \in S
    PROVE  LET r == <<a>> \o Tail(q) IN
             /\ r \in Seq(S) /\ Len(r) = Len(q)
             /\ r[1] = a /\ \A i \in 2 .. Len(q) : r[i] = q[i]
  OBVIOUS

\* A call is made, and the one that makes it is replaced.
LEMMA CallPushed ==
    ASSUME NEW S, NEW q \in Seq(S), q # <<>>, NEW a \in S, NEW b \in S
    PROVE  LET r == <<a, b>> \o Tail(q) IN
             /\ r \in Seq(S) /\ Len(r) = Len(q) + 1
             /\ r[1] = a /\ r[2] = b /\ \A i \in 3 .. Len(q) + 1 : r[i] = q[i - 1]
  OBVIOUS

\* The innermost call ends, and the one behind it is replaced.
LEMMA CallPopped ==
    ASSUME NEW S, NEW q \in Seq(S), NEW n \in Nat, n = Len(q), n >= 2, NEW a \in S
    PROVE  LET r == <<a>> \o SubSeq(q, 3, Len(q)) IN
             /\ r \in Seq(S) /\ Len(r) = n - 1
             /\ r[1] = a /\ \A i \in 2 .. n - 1 : r[i] = q[i + 1]
  <1> DEFINE rest == SubSeq(q, 3, n)
  <1>2. rest \in Seq(S) /\ Len(rest) = n - 2 /\ \A i \in 1 .. n - 2 : rest[i] = q[i + 2]
    <2>1. \A i \in 3 .. n : q[i] \in S
      OBVIOUS
    <2>2. /\ rest \in Seq(S)
          /\ Len(rest) = IF 3 <= n THEN n - 3 + 1 ELSE 0
          /\ \A i \in 1 .. n - 3 + 1 : rest[i] = q[3 + i - 1]
      BY <2>1, SubSeqProperties
    <2>3. Len(rest) = n - 2
      BY <2>2
    <2>4. ASSUME NEW i \in 1 .. n - 2 PROVE rest[i] = q[i + 2]
      <3>1. i \in 1 .. n - 3 + 1 /\ 3 + i - 1 = i + 2
        OBVIOUS
      <3> QED  BY <2>2, <3>1
    <2> QED  BY <2>2, <2>3, <2>4
  <1> HIDE DEF rest
  <1>3. /\ <<a>> \o rest \in Seq(S) /\ Len(<<a>> \o rest) = 1 + Len(rest)
        /\ (<<a>> \o rest)[1] = a
        /\ \A i \in 1 .. Len(rest) : (<<a>> \o rest)[i + 1] = rest[i]
    BY <1>2
  <1>4. \A i \in 2 .. n - 1 : (<<a>> \o rest)[i] = q[i + 1]
    <2> SUFFICES ASSUME NEW i \in 2 .. n - 1 PROVE (<<a>> \o rest)[i] = q[i + 1]
      OBVIOUS
    <2>1. i - 1 \in 1 .. Len(rest) /\ (i - 1) + 1 = i /\ (i - 1) + 2 = i + 1
      BY <1>2
    <2> QED  BY <1>2, <1>3, <2>1
  <1> QED  BY <1>2, <1>3, <1>4 DEF rest

\* A call of useCly: the lines it has, and where it stands in them.
Frame == [lines : {program, Library}, at : -1..Span, over : BOOLEAN]

\* The outermost call is of the program, the others are of the library, each at the
\* line that made the next.
FramesOK ==
    /\ frames \in Seq(Frame) /\ frames # <<>>
    /\ \A i \in 1 .. Len(frames) : frames[i].lines = IF i = Len(frames) THEN program ELSE Library
    /\ \A i \in 2 .. Len(frames) : frames[i].at \in 0 .. (Len(frames[i].lines) - 1)

\* What the interpreter's types need to be inductive.
TypesInv ==
    /\ program \in Program
    /\ FramesOK
    /\ outcome \in {"running", "ended", "exited", "aborted"}
    /\ MemoryOK(mem)
    /\ PumpTypeOK

\* Programs and the library are statements.
LEMMA LengthsOK ==
    ASSUME program \in Program
    PROVE  /\ program \in Seq(Statement) /\ Library \in Seq(Statement)
           /\ Len(program) \in Nat /\ Len(Library) \in Nat /\ Span \in Nat
  BY ProgramAssumption, LenProperties DEF Span

\* The line that comes next.
LEMMA ThisLineOK ==
    ASSUME TypesInv, ~AtEnd
    PROVE  /\ Top = frames[1] /\ Top \in Frame /\ Len(frames) \in Nat \ {0}
           /\ Top.lines \in Seq(Statement)
           /\ Top.at \in 0 .. (Len(Top.lines) - 1) /\ Top.at + 1 \in 1 .. Len(Top.lines)
           /\ ThisLine \in Statement
           /\ Top.at \in Line0 /\ 0 \in Line0 /\ -1 \in Line0 /\ Top.at + 1 \in -1..Span
           /\ Line0 \subseteq -1..Span
  <1>1. Top = frames[1] /\ Top \in Frame /\ Len(frames) \in Nat \ {0}
    BY EmptySeq DEF TypesInv, FramesOK, Top
  <1>2. Top.lines \in {program, Library} /\ Top.at \in -1..Span
    BY <1>1 DEF Frame
  <1>3. Top.lines \in Seq(Statement) /\ Len(Top.lines) \in 0..Span /\ Span \in Nat
    BY <1>2, LengthsOK DEF TypesInv, Span
  <1>4. Top.at \in 0 .. (Len(Top.lines) - 1) /\ Top.at + 1 \in 1 .. Len(Top.lines)
    BY <1>2, <1>3 DEF AtEnd
  <1>5. ThisLine \in Statement
    BY <1>3, <1>4 DEF ThisLine
  <1>6. Top.at \in Line0 /\ 0 \in Line0 /\ -1 \in Line0 /\ Top.at + 1 \in -1..Span
        /\ Line0 \subseteq -1..Span
    BY <1>3, <1>4 DEF Line0
  <1> QED  BY <1>1, <1>3, <1>4, <1>5, <1>6

\* The calls after a move within the innermost one.
LEMMA MoveOK ==
    ASSUME FramesOK, program' = program, NEW at \in -1..Span, Move(at)
    PROVE  /\ FramesOK'
           /\ Len(frames') = Len(frames)
           /\ frames'[1] = [frames[1] EXCEPT !.at = at]
           /\ \A i \in 2 .. Len(frames) : frames'[i] = frames[i]
  <1> DEFINE a == [Top EXCEPT !.at = at]
  <1>1. frames \in Seq(Frame) /\ frames # <<>> /\ Len(frames) \in Nat \ {0}
    BY EmptySeq DEF FramesOK
  <1>2. Top = frames[1] /\ Top \in Frame
    BY <1>1 DEF Top
  <1>3. a \in Frame /\ a.lines = Top.lines
    BY <1>2 DEF Frame
  <1>4. frames' = <<a>> \o Tail(frames)
    BY DEF Move
  <1> HIDE DEF a
  <1>5. /\ frames' \in Seq(Frame) /\ Len(frames') = Len(frames)
        /\ frames'[1] = a /\ \A i \in 2 .. Len(frames) : frames'[i] = frames[i]
    BY <1>1, <1>3, <1>4, TopReplaced
  <1>6. Frame' = Frame
    BY DEF Frame, Span
  <1>7. frames' # <<>>
    BY <1>1, <1>5
  <1>8. ASSUME NEW i \in 1 .. Len(frames)
        PROVE  frames'[i].lines = IF i = Len(frames) THEN program ELSE Library
    <2>1. frames'[i].lines = frames[i].lines
      BY <1>1, <1>2, <1>3, <1>5, <1>8
    <2> QED  BY <2>1, <1>8 DEF FramesOK
  <1>9. \A i \in 2 .. Len(frames) : frames'[i].at \in 0 .. (Len(frames'[i].lines) - 1)
    BY <1>5 DEF FramesOK
  <1>10. FramesOK'
    BY <1>5, <1>6, <1>7, <1>8, <1>9 DEF FramesOK
  <1> QED  BY <1>2, <1>5, <1>10 DEF a

-----------------------------------------------------------------------------
(* The types.                                                              *)

\* What the process and the thread that prints do.
LEMMA PumpTypes ==
    ASSUME PumpTypeOK,
           StartProcess \/ PumpKilled \/ UNCHANGED pumpVars \/ PumpStep \/ ProcessStep
    PROVE  PumpTypeOK'
  <1>1. heir' \in BOOLEAN
    BY Zenon DEF PumpTypeOK, StartProcess, PumpKilled, PumpStep, PeekRead, PeekNothing, CheckExit,
                 ProcessStep, Writes, Inherits, HeirEnds, Exits, pumpVars
  <1>2. /\ process' \in {"none", "alive", "exited", "exited 259"}
        /\ pump' \in {"none", "peek", "check", "ended"}
    BY DEF PumpTypeOK, StartProcess, PumpKilled, PumpStep, PeekRead, PeekNothing, CheckExit,
           ProcessStep, Writes, Inherits, HeirEnds, Exits, pumpVars
  <1>3. \/ written' = 0 /\ taken' = 0
        \/ written' = written /\ taken' = taken
        \/ written < MaxWritten /\ written' = written + 1 /\ taken' = taken
        \/ /\ written > taken /\ written' = written
           /\ taken' = IF written - taken <= Buffer THEN written ELSE taken + Buffer
    BY Zenon DEF StartProcess, PumpKilled, PumpStep, PeekRead, PeekNothing, CheckExit,
                 ProcessStep, Writes, Inherits, HeirEnds, Exits, pumpVars
  <1>4. written \in 0..MaxWritten /\ taken \in 0..written
    BY DEF PumpTypeOK
  <1>5. written' \in 0..MaxWritten /\ taken' \in 0..written'
    BY <1>3, <1>4, PumpAssumption
  <1> QED  BY <1>1, <1>2, <1>5 DEF PumpTypeOK

\* Where a program is, its line numbers are the same after a step.
LEMMA SameSpan ==
    ASSUME program' = program
    PROVE  Span' = Span /\ Line0' = Line0 /\ Frame' = Frame
  BY DEF Span, Line0, Frame

\* A memory that is of its type is so in the next state.
LEMMA MemorySpan ==
    ASSUME program' = program, NEW m, MemoryOK(m), mem' = m
    PROVE  MemoryOK(mem)'
  BY SameSpan DEF MemoryOK

\* A line of a code.
LEMMA DefinitionLineTypes ==
    ASSUME TypesInv, DefinitionLine
    PROVE  TypesInv'
  <1>1. /\ program' = program /\ outcome' = outcome /\ UNCHANGED pumpVars
        /\ Move(Top.at + 1) /\ ThisLine.op = "|"
        /\ mem' = [mem EXCEPT !.info.lines = Append(@, ThisLine.of)]
    BY DEF DefinitionLine
  <1>2. ThisLine.of \in Text /\ Top.at + 1 \in -1..Span
    BY <1>1, ThisLineOK, StatementOf DEF DefinitionLine
  <1>3. FramesOK'
    BY <1>1, <1>2, MoveOK DEF TypesInv
  <1> DEFINE m == [mem EXCEPT !.info.lines = Append(@, ThisLine.of)]
  <1>4. mem.info.lines \in Seq(Text) /\ Append(mem.info.lines, ThisLine.of) \in Seq(Text)
    BY <1>2 DEF TypesInv, MemoryOK, Memory
  <1>5. m \in Memory /\ m.info.name = mem.info.name /\ m.definedline = mem.definedline
    BY <1>4 DEF TypesInv, MemoryOK, Memory
  <1>6. m.defining = mem.defining
    BY DEF TypesInv, MemoryOK, Memory
  <1>7. MemoryOK(m)
    <2>1. m.defining => m.info.name \in CodeName \cup VarName
      BY <1>5, <1>6 DEF TypesInv, MemoryOK
    <2>2. \A n \in Name : m.definedline[n] \in Line0 \cup {Undefined}
      BY <1>5 DEF TypesInv, MemoryOK
    <2> HIDE DEF m
    <2> QED  BY <1>5, <2>1, <2>2 DEF MemoryOK
  <1> HIDE DEF m
  <1>8. MemoryOK(mem)'
    BY <1>1, <1>7, MemorySpan DEF m
  <1>9. PumpTypeOK'
    BY <1>1, PumpTypes DEF TypesInv
  <1> QED  BY <1>1, <1>3, <1>8, <1>9 DEF TypesInv

\* A comment.
LEMMA CommentTypes ==
    ASSUME TypesInv, Comment
    PROVE  TypesInv'
  <1>1. /\ program' = program /\ outcome' = outcome /\ UNCHANGED pumpVars /\ mem' = mem
        /\ Move(Top.at + 1) /\ Top.at + 1 \in -1..Span
    BY ThisLineOK DEF Comment
  <1>2. FramesOK'
    BY <1>1, MoveOK DEF TypesInv
  <1>3. MemoryOK(mem)' /\ PumpTypeOK'
    BY <1>1, MemorySpan, PumpTypes DEF TypesInv
  <1> QED  BY <1>1, <1>2, <1>3 DEF TypesInv

\* What a line does, whatever it does.
LEMMA LineResult ==
    ASSUME TypesInv, Line
    PROVE  \E r \in addressline(mem, ThisLine, Top.at) :
              /\ ResultOK(r) /\ mem' = r.mem /\ Move(After(r.at)) /\ After(r.at) \in -1..Span
              /\ program' = program
              /\ \/ outcome' = "running" /\ StartProcess
                 \/ Leave(r.outcome)
  <1>1. PICK r \in addressline(mem, ThisLine, Top.at) :
          /\ mem' = r.mem /\ Move(After(r.at))
          /\ \/ outcome' = "running" /\ StartProcess
             \/ Leave(r.outcome)
    BY DEF Line
  <1>2. ~AtEnd /\ program' = program
    BY DEF Line
  <1>3. ResultOK(r)
    BY <1>1, <1>2, ThisLineOK, LineOK DEF TypesInv
  <1>4. After(r.at) \in -1..Span
    <2>1. r.at \in Line0
      BY <1>3 DEF ResultOK, Outcome
    <2> QED  BY <1>2, <2>1, ThisLineOK DEF After
  <1> QED  BY <1>1, <1>2, <1>3, <1>4

\* Any other line.
LEMMA LineTypes ==
    ASSUME TypesInv, Line
    PROVE  TypesInv'
  <1>1. PICK r \in addressline(mem, ThisLine, Top.at) :
          /\ ResultOK(r) /\ mem' = r.mem /\ Move(After(r.at)) /\ After(r.at) \in -1..Span
          /\ program' = program
          /\ \/ outcome' = "running" /\ StartProcess
             \/ Leave(r.outcome)
    BY LineResult
  <1>2. FramesOK'
    BY <1>1, MoveOK DEF TypesInv
  <1>3. MemoryOK(mem)'
    BY <1>1, MemorySpan DEF ResultOK
  <1>4. outcome' \in {"running", "ended", "exited", "aborted"}
    BY <1>1 DEF Leave, ResultOK, Outcome
  <1>5. PumpTypeOK'
    BY <1>1, PumpTypes DEF TypesInv, Leave
  <1> QED  BY <1>1, <1>2, <1>3, <1>4, <1>5 DEF TypesInv

\* The calls after an import.
LEMMA PushOK ==
    ASSUME TypesInv, Import
    PROVE  /\ FramesOK' /\ Len(frames') = Len(frames) + 1
           /\ frames'[1] = [lines |-> Library, at |-> 0, over |-> FALSE]
           /\ frames'[2] = [frames[1] EXCEPT !.over = mem.defining]
           /\ \A i \in 3 .. Len(frames) + 1 : frames'[i] = frames[i - 1]
  <1> DEFINE a == [lines |-> Library, at |-> 0, over |-> FALSE]
             b == [Top EXCEPT !.over = mem.defining]
  <1>1. /\ frames \in Seq(Frame) /\ frames # <<>> /\ Len(frames) \in Nat \ {0}
        /\ Top = frames[1] /\ Top \in Frame /\ Top.at \in 0 .. (Len(Top.lines) - 1)
        /\ program' = program
    BY ThisLineOK DEF TypesInv, FramesOK, Import
  <1>2. a \in Frame
    <2>1. 0 \in -1..Span /\ FALSE \in BOOLEAN
      BY LengthsOK DEF TypesInv
    <2> QED  BY <2>1 DEF Frame
  <1>3. b \in Frame /\ b.lines = Top.lines /\ b.at = Top.at
    <2>1. mem.defining \in BOOLEAN
      BY Zenon DEF TypesInv, MemoryOK, Memory
    <2> HIDE DEF TypesInv
    <2> QED  BY <1>1, <2>1 DEF Frame
  <1>4. frames' = <<a, b>> \o Tail(frames) /\ a.lines = Library
    BY DEF Import
  <1> HIDE DEF a, b
  <1>5. /\ frames' \in Seq(Frame) /\ Len(frames') = Len(frames) + 1
        /\ frames'[1] = a /\ frames'[2] = b
        /\ \A i \in 3 .. Len(frames) + 1 : frames'[i] = frames[i - 1]
    BY <1>1, <1>2, <1>3, <1>4, CallPushed
  <1>6. frames' # <<>>
    BY <1>1, <1>5
  <1>7. ASSUME NEW i \in 1 .. Len(frames')
        PROVE  frames'[i].lines = IF i = Len(frames') THEN program ELSE Library
    <2>1. CASE i = 1
      BY <1>1, <1>4, <1>5, <2>1
    <2>2. CASE i = 2
      BY <1>1, <1>3, <1>5, <2>2 DEF TypesInv, FramesOK
    <2>3. CASE i >= 3
      <3>1. i - 1 \in 1 .. Len(frames) /\ frames'[i] = frames[i - 1]
            /\ (i - 1 = Len(frames) <=> i = Len(frames'))
        BY <1>1, <1>5, <1>7, <2>3
      <3> QED  BY <3>1 DEF TypesInv, FramesOK
    <2> QED  BY <1>1, <1>5, <1>7, <2>1, <2>2, <2>3
  <1>8. ASSUME NEW i \in 2 .. Len(frames')
        PROVE  frames'[i].at \in 0 .. (Len(frames'[i].lines) - 1)
    <2>1. CASE i = 2
      BY <1>1, <1>3, <1>5, <2>1
    <2>2. CASE i >= 3
      <3>1. i - 1 \in 2 .. Len(frames) /\ frames'[i] = frames[i - 1]
        BY <1>1, <1>5, <1>8, <2>2
      <3> QED  BY <3>1 DEF TypesInv, FramesOK
    <2> QED  BY <1>1, <1>5, <1>8, <2>1, <2>2
  <1>9. FramesOK'
    BY <1>1, <1>5, <1>6, <1>7, <1>8, SameSpan DEF FramesOK
  <1> QED  BY <1>1, <1>5, <1>9 DEF a, b

\* The calls after the end of an imported file.
LEMMA PopOK ==
    ASSUME TypesInv, EndOfLines, Len(frames) # 1
    PROVE  /\ FramesOK' /\ Len(frames) >= 2 /\ Len(frames') = Len(frames) - 1
           /\ frames'[1] = [frames[2] EXCEPT !.at = @ + 1, !.over = FALSE]
           /\ \A i \in 2 .. Len(frames) - 1 : frames'[i] = frames[i + 1]
  <1>1. /\ frames \in Seq(Frame) /\ frames # <<>> /\ Len(frames) \in Nat \ {0} /\ program' = program
    BY EmptySeq DEF TypesInv, FramesOK, EndOfLines
  <1>2. PICK n \in Nat : n = Len(frames) /\ n >= 2
    <2>1. PICK n \in Nat \ {0} : n = Len(frames)
      BY <1>1
    <2>2. n # 1
      BY <2>1
    <2>3. n >= 2
      BY <2>2
    <2> QED  BY <2>1, <2>3
  <1>3. /\ frames[2] \in Frame /\ frames[2].at \in 0 .. (Len(frames[2].lines) - 1)
        /\ frames[2].lines = IF n = 2 THEN program ELSE Library
    <2>1. 2 \in 1 .. Len(frames) /\ 2 \in 2 .. Len(frames)
      BY <1>2
    <2> QED  BY <1>1, <1>2, <2>1 DEF TypesInv, FramesOK
  <1> DEFINE a == [frames[2] EXCEPT !.at = @ + 1, !.over = FALSE]
  <1>4. a \in Frame /\ a.lines = frames[2].lines
    <2>1. frames[2].at + 1 \in -1..Span
      BY <1>3, LengthsOK DEF TypesInv, Span
    <2> HIDE DEF TypesInv
    <2> QED  BY <1>3, <2>1 DEF Frame
  <1>5. frames' = <<a>> \o SubSeq(frames, 3, Len(frames))
    BY <1>2 DEF EndOfLines
  <1> HIDE DEF a
  <1>6. /\ frames' \in Seq(Frame) /\ Len(frames') = n - 1
        /\ frames'[1] = a
        /\ \A i \in 2 .. n - 1 : frames'[i] = frames[i + 1]
    BY <1>1, <1>2, <1>4, <1>5, CallPopped
  <1>7. frames' # <<>>
    BY <1>2, <1>6
  <1>8. ASSUME NEW i \in 1 .. n - 1
        PROVE  frames'[i].lines = IF i = n - 1 THEN program ELSE Library
    <2>1. CASE i = 1
      BY <1>2, <1>3, <1>4, <1>6, <2>1
    <2>2. CASE i >= 2
      <3>1. i + 1 \in 1 .. Len(frames) /\ frames'[i] = frames[i + 1]
            /\ (i + 1 = Len(frames) <=> i = n - 1)
        BY <1>2, <1>6, <1>8, <2>2
      <3> QED  BY <3>1 DEF TypesInv, FramesOK
    <2> QED  BY <1>2, <1>8, <2>1, <2>2
  <1>9. ASSUME NEW i \in 2 .. n - 1
        PROVE  frames'[i].at \in 0 .. (Len(frames'[i].lines) - 1)
    <2>1. i + 1 \in 2 .. Len(frames) /\ frames'[i] = frames[i + 1]
      BY <1>2, <1>6, <1>9
    <2> QED  BY <2>1 DEF TypesInv, FramesOK
  <1>10. FramesOK'
    BY <1>1, <1>6, <1>7, <1>8, <1>9, SameSpan DEF FramesOK
  <1> QED  BY <1>2, <1>6, <1>10 DEF a

\* An import.
LEMMA ImportTypes ==
    ASSUME TypesInv, Import
    PROVE  TypesInv'
  <1>1. /\ program' = program /\ outcome' = outcome /\ UNCHANGED pumpVars
        /\ mem' \in Reading(Flush(mem), Reads(ThisLine)) /\ ~AtEnd
    BY DEF Import
  <1>2. MemoryOK(mem)'
    <2>1. ThisLine \in Statement /\ MemoryOK(Flush(mem))
      BY <1>1, ThisLineOK, FlushOK DEF TypesInv
    <2>2. MemoryOK(mem')
      BY <1>1, <2>1, StatementOf, ReadingOK
    <2> QED  BY <1>1, <2>2, MemorySpan
  <1>3. PumpTypeOK'
    BY <1>1, PumpTypes DEF TypesInv
  <1> QED  BY <1>1, <1>2, <1>3, PushOK DEF TypesInv

\* The end of the program or of the library.
LEMMA EndOfLinesTypes ==
    ASSUME TypesInv, EndOfLines
    PROVE  TypesInv'
  <1>1. CASE Len(frames) = 1
    <2>1. program' = program /\ frames' = frames /\ mem' = mem /\ Leave("ended")
      BY <1>1 DEF EndOfLines
    <2>2. FramesOK'
      BY <2>1, SameSpan DEF TypesInv, FramesOK
    <2>3. MemoryOK(mem)' /\ PumpTypeOK' /\ outcome' = "ended"
      BY <2>1, MemorySpan, PumpTypes DEF TypesInv, Leave
    <2> QED  BY <2>1, <2>2, <2>3 DEF TypesInv
  <1>2. CASE Len(frames) # 1
    <2>1. /\ program' = program /\ outcome' = outcome /\ UNCHANGED pumpVars
          /\ \E told \in BOOLEAN : mem' = Commit(mem, frames[2].over, told)
      BY <1>2 DEF EndOfLines
    <2>2. MemoryOK(mem)'
      BY <2>1, CommitOK, MemorySpan DEF TypesInv
    <2>3. PumpTypeOK'
      BY <2>1, PumpTypes DEF TypesInv
    <2> QED  BY <1>2, <2>1, <2>2, <2>3, PopOK DEF TypesInv
  <1> QED  BY <1>1, <1>2

\* The beginning.
LEMMA TypesInit == ColyInit => TypesInv
  <1> SUFFICES ASSUME ColyInit PROVE TypesInv
    OBVIOUS
  <1>1. program \in Program /\ outcome = "running"
    BY DEF ColyInit
  <1>2. FramesOK
    <2> DEFINE a == [lines |-> program, at |-> 0, over |-> FALSE]
    <2>1. frames = <<a>>
      BY DEF ColyInit
    <2>2. 0 \in -1..Span /\ FALSE \in BOOLEAN
      BY <1>1, LengthsOK
    <2>3. a \in Frame /\ a.lines = program
      BY <2>2 DEF Frame
    <2> HIDE DEF a
    <2>4. frames \in Seq(Frame) /\ Len(frames) = 1 /\ frames # <<>> /\ frames[1] = a
      BY <2>1, <2>3
    <2> QED  BY <2>3, <2>4 DEF FramesOK
  <1>3. MemoryOK(mem)
    <2>1. Empty \in [name : Name \cup {NoName}, lines : Seq(Text)] /\ <<>> \in Seq(Text)
      BY DEF Empty
    <2>2. PICK left \in Leftover :
            mem = [definedvar |-> [n \in Name |-> Undefined],
                   definedline |-> [n \in Name |-> Undefined],
                   definedposition |-> {}, compiledcode |-> {},
                   defining |-> FALSE, info |-> Empty,
                   binary |-> left, synced |-> [n \in Name |-> Undefined],
                   ran |-> [name |-> NoName, lines |-> <<>>, ours |-> FALSE],
                   taken |-> {}, untold |-> {}, foreign |-> File]
      BY DEF ColyInit
    <2>3. left \in [File -> Lines]
      BY LeftoverAssumption
    <2>4. mem \in Memory /\ mem.defining = FALSE /\ \A n \in Name : mem.definedline[n] = Undefined
      BY <2>1, <2>2, <2>3 DEF Memory, Lines
    <2> QED  BY <2>4 DEF MemoryOK
  <1>4. PumpTypeOK
    <2>1. heir \in BOOLEAN
      BY Zenon DEF ColyInit, PumpInit
    <2> QED  BY <2>1, PumpAssumption DEF ColyInit, PumpInit, PumpTypeOK
  <1> QED  BY <1>1, <1>2, <1>3, <1>4 DEF TypesInv

\* Every step.
LEMMA TypesNext == TypesInv /\ [ColyNext]_<<colyVars, pumpVars>> => TypesInv'
  <1> SUFFICES ASSUME TypesInv, [ColyNext]_<<colyVars, pumpVars>> PROVE TypesInv'
    OBVIOUS
  <1>1. CASE DefinitionLine \/ Comment \/ Line \/ Import \/ EndOfLines
    BY <1>1, DefinitionLineTypes, CommentTypes, LineTypes, ImportTypes, EndOfLinesTypes
  <1>2. CASE Threads \/ UNCHANGED <<colyVars, pumpVars>>
    <2>1. /\ program' = program /\ frames' = frames /\ outcome' = outcome /\ mem' = mem
          /\ PumpStep \/ ProcessStep \/ UNCHANGED pumpVars
      BY <1>2 DEF Threads, colyVars
    <2>2. FramesOK'
      BY <2>1, SameSpan DEF TypesInv, FramesOK
    <2>3. MemoryOK(mem)' /\ PumpTypeOK'
      BY <2>1, MemorySpan, PumpTypes DEF TypesInv
    <2> QED  BY <2>1, <2>2, <2>3 DEF TypesInv
  <1> QED  BY <1>1, <1>2 DEF ColyNext, InterpreterStep

(* The state of useCly and addressline (src/src-tauri/Tools/Coly.hpp) keeps  *)
(* its type: lineid stays within the longest file, whatever jumps and        *)
(* imports there are, and only a code or a variable is ever in definition.   *)
THEOREM ColyTypeCorrect == ColySpec => []ColyTypeOK
  <1>1. TypesInv => ColyTypeOK
    <2> SUFFICES ASSUME TypesInv PROVE ColyTypeOK
      OBVIOUS
    <2>1. \A i \in DOMAIN frames : frames[i] \in Frame
      BY DEF TypesInv, FramesOK
    <2>2. \A i \in DOMAIN frames :
            /\ frames[i].lines \in {program, Library}
            /\ frames[i].at \in -1..(Len(program) + Len(Library))
            /\ frames[i].over \in BOOLEAN
      BY <2>1 DEF Frame, Span
    <2>3. program \in Seq(Statement)
      BY LengthsOK DEF TypesInv
    <2> QED  BY <2>2, <2>3 DEF TypesInv, MemoryOK, ColyTypeOK
  <1> QED  BY <1>1, TypesInit, TypesNext, PTL DEF ColySpec
-----------------------------------------------------------------------------
(* What the memory says of the program.                                    *)

\* A name that the library does not define, and that is given to one kind of thing.
Clean(n) == ~Defines(Library, n) /\ OneKind(n)

\* Code c is defined in line i of the program, its first line counting as 1.
CodeLine(c, i) == i \in 1 .. Len(program) /\ program[i].op \in OfCode /\ program[i].of = c

\* A position that is defined has a line that defines it.
PlacesOK(m) ==
    \A p \in PosName :
        Clean(p) /\ Plain(program, {"position"}) /\ p \in m.definedposition =>
            \E i \in 1 .. Len(program) :
                m.definedline[p] = i - 1 /\ program[i].op = "position" /\ program[i].of = p

Being(m, c) == m.defining /\ m.info.name = c

\* Texts are what the definition in line i of the program says, and its line is known.
Says(m, texts, c, i) ==
    /\ CodeLine(c, i)
    /\ IsWritten(texts, program, i - 1)
    /\ program[i].behind # "do" => m.definedline[c] = i - 1

\* A code that is defined, and is not being defined, is what one of its definitions
\* says, unless the server's lines have replaced it.
CodesOK(m) ==
    \A c \in CodeName :
        Clean(c) /\ m.definedvar[c] # Undefined /\ ~Being(m, c) /\ c \notin m.taken =>
            \E i \in 1 .. Len(program) : Says(m, m.definedvar[c], c, i)

\* File f is written by the definition in line i of the program only.
Sole(f, i) ==
    /\ DefiningLines(program, f) = {i} /\ DefiningLines(Library, f) = {}
    /\ \A c \in CodeName : Codename[c] = f => OneKind(c)

\* What was compiled, and what ran last, is what that definition says, where it is
\* the program's.
RunsOK(m) ==
    \A f \in File, i \in 1 .. Len(program) : Sole(f, i) =>
        /\ f \notin m.foreign => IsWritten(m.binary[f], program, i - 1)
        /\ m.ran.name # NoName /\ m.ran.ours /\ Codename[m.ran.name] = f =>
             IsWritten(m.ran.lines, program, i - 1)

Sound(m) == PlacesOK(m) /\ CodesOK(m) /\ RunsOK(m)

\* A code that is being defined has all the lines it will have.
Complete(m) ==
    m.defining /\ m.info.name \in CodeName /\ Clean(m.info.name) =>
        \E i \in 1 .. Len(program) : Says(m, m.info.lines, m.info.name, i)

\* Two memories say the same of the program.
SaysSame(m, n) ==
    /\ n.definedvar = m.definedvar /\ n.definedline = m.definedline
    /\ n.definedposition = m.definedposition
    /\ n.defining = m.defining /\ n.info = m.info
    /\ n.binary = m.binary /\ n.ran = m.ran
    /\ n.taken = m.taken /\ n.foreign = m.foreign

\* What says the same is as sound.
LEMMA SoundSame ==
    ASSUME NEW m, NEW n, Sound(m), SaysSame(m, n)
    PROVE  Sound(n)
  BY DEF Sound, SaysSame, PlacesOK, CodesOK, RunsOK, Says, Being

\* Lines that the server replaces are not said to be the program's.
LEMMA SoundReread ==
    ASSUME NEW m, NEW k, Sound(m), Reread(m, k)
    PROVE  Sound(k)
  <1>1. PlacesOK(k)
    BY DEF Sound, Reread, PlacesOK
  <1>2. CodesOK(k)
    <2> SUFFICES ASSUME NEW c \in CodeName, Clean(c), k.definedvar[c] # Undefined, ~Being(k, c),
                        c \notin k.taken
                 PROVE  \E i \in 1 .. Len(program) : Says(k, k.definedvar[c], c, i)
      BY DEF CodesOK
    <2>1. c \in Name /\ c \notin m.taken /\ k.definedvar[c] = m.definedvar[c] /\ ~Being(m, c)
      BY DEF Reread, Name, Being
    <2>2. PICK i \in 1 .. Len(program) : Says(m, m.definedvar[c], c, i)
      BY <2>1 DEF Sound, CodesOK
    <2> QED  BY <2>1, <2>2 DEF Says, Reread
  <1>3. RunsOK(k)
    BY DEF Sound, Reread, RunsOK
  <1> QED  BY <1>1, <1>2, <1>3 DEF Sound

\* What the server is told says nothing of the program.
LEMMA SoundCommit ==
    ASSUME NEW m, MemoryOK(m), Sound(m), NEW over, NEW told
    PROVE  Sound(Commit(m, over, told))
  <1>1. SaysSame(m, Commit(m, over, told))
    BY DEF SaysSame, Commit, MemoryOK, Memory
  <1> QED  BY <1>1, SoundSame

\* Nor does what is marked as compiled.
LEMMA SoundMark ==
    ASSUME NEW m, MemoryOK(m), Sound(m), NEW c
    PROVE  Sound(Mark(m, c))
  <1>1. SaysSame(m, Mark(m, c))
    BY DEF SaysSame, Mark, MemoryOK, Memory
  <1> QED  BY <1>1, SoundSame

\* A definition that is complete.
LEMMA SoundFlush ==
    ASSUME NEW m, MemoryOK(m), Sound(m), Complete(m)
    PROVE  Sound(Flush(m))
  <1> DEFINE n == [m EXCEPT !.defining = FALSE, !.definedvar[m.info.name] = m.info.lines]
             d == m.info.name
  <1>1. CASE ~m.defining
    BY <1>1 DEF Flush
  <1>2. CASE m.defining
    <2>1. Flush(m) = n
      BY <1>2 DEF Flush
    <2>2. /\ n.definedline = m.definedline /\ n.definedposition = m.definedposition
          /\ n.binary = m.binary /\ n.ran = m.ran /\ ~n.defining
          /\ n.taken = m.taken /\ n.foreign = m.foreign
          /\ \A c \in Name : n.definedvar[c] = IF c = d THEN m.info.lines ELSE m.definedvar[c]
      BY <1>2 DEF MemoryOK, Memory, Name
    <2> HIDE DEF n, d
    <2>3. PlacesOK(n) /\ RunsOK(n)
      BY <2>2 DEF Sound, PlacesOK, RunsOK
    <2>4. ASSUME NEW c \in CodeName, Clean(c), n.definedvar[c] # Undefined, c \notin n.taken
          PROVE  \E i \in 1 .. Len(program) : Says(n, n.definedvar[c], c, i)
      <3>1. CASE c = d
        BY <1>2, <2>2, <2>4, <3>1 DEF Complete, Says, Name, d
      <3>2. CASE c # d
        <4>1. n.definedvar[c] = m.definedvar[c] /\ ~Being(m, c) /\ c \notin m.taken
          BY <2>2, <2>4, <3>2 DEF Being, Name, d
        <4>2. PICK i \in 1 .. Len(program) : Says(m, m.definedvar[c], c, i)
          BY <2>4, <4>1 DEF Sound, CodesOK
        <4> QED  BY <2>2, <4>1, <4>2 DEF Says
      <3> QED  BY <3>1, <3>2
    <2>5. CodesOK(n)
      BY <2>4 DEF CodesOK
    <2> QED  BY <2>1, <2>3, <2>5 DEF Sound
  <1> QED  BY <1>1, <1>2

\* What runs as the program's is what it says.
LEMMA RunWritten ==
    ASSUME program \in Program, NEW m, MemoryOK(m), Sound(m), ~m.defining,
           NEW c \in CodeName, m.definedvar[c] # Undefined, c \notin m.taken,
           NEW i \in 1 .. Len(program), Sole(Codename[c], i)
    PROVE  IsWritten(m.definedvar[c], program, i - 1)
  <1> DEFINE f == Codename[c]
  <1>1. OneKind(c) /\ ~Being(m, c)
    BY DEF Sole, Being
  <1>2. ASSUME NEW j \in DOMAIN Library,
               Library[j].op \in OfCode \cup {"position"} /\ Library[j].of = c
        PROVE  FALSE
    <2>1. Library[j] \in Statement
      BY LengthsOK
    <2>2. c \notin PosName
      BY <1>1 DEF OneKind
    <2>3. Library[j].op \in OfCode
      BY <1>2, <2>1, <2>2, StatementOf
    <2>4. j \in DefiningLines(Library, f)
      BY <1>2, <2>3 DEF DefiningLines
    <2> QED  BY <2>4 DEF Sole
  <1>3. Clean(c)
    BY <1>1, <1>2 DEF Clean, Defines
  <1>4. PICK k \in 1 .. Len(program) : Says(m, m.definedvar[c], c, k)
    BY <1>1, <1>3 DEF Sound, CodesOK
  <1>5. k \in DefiningLines(program, f)
    BY <1>4, LengthsOK DEF Says, CodeLine, DefiningLines
  <1>6. k = i
    BY <1>5 DEF Sole
  <1> QED  BY <1>4, <1>6 DEF Says

\* A code runs.
LEMMA SoundRun ==
    ASSUME program \in Program, NEW m, MemoryOK(m), Sound(m), ~m.defining,
           NEW c \in CodeName, m.definedvar[c] # Undefined
    PROVE  Sound(Run(m, c))
  <1> DEFINE f == Codename[c]
             marked == c \in Compiled /\ f \in m.compiledcode
             lines == IF marked THEN m.binary[f] ELSE m.definedvar[c]
             ours == IF marked THEN f \notin m.foreign ELSE c \notin m.taken
             bin == [m.binary EXCEPT ![f] = IF c \in Compiled THEN lines ELSE @]
             fore == IF c \notin Compiled THEN m.foreign
                     ELSE IF ours THEN m.foreign \ {f} ELSE m.foreign \cup {f}
             n == [m EXCEPT !.ran = [name |-> c, lines |-> lines, ours |-> ours],
                            !.binary = bin, !.foreign = fore]
  <1>1. CASE lines = Undefined
    <2>1. Run(m, c) = m
      BY <1>1, Zenon DEF Run
    <2> QED  BY <2>1
  <1>2. CASE lines # Undefined
    <2>1. /\ f \in File /\ m \in Memory /\ m.binary \in [File -> Lines]
          /\ m.foreign \in SUBSET File
      BY DEF File, MemoryOK, Memory
    <2>2. Run(m, c) = n
      BY <1>2, <2>1 DEF Run, Memory
    <2>3. ASSUME NEW i \in 1 .. Len(program), Sole(f, i), ours
          PROVE  IsWritten(lines, program, i - 1)
      <3>1. CASE marked
        BY <2>1, <2>3, <3>1 DEF Sound, RunsOK
      <3>2. CASE ~marked
        BY <2>3, <3>2, RunWritten
      <3> QED  BY <3>1, <3>2
    <2>4. /\ \A g \in File : g # f => bin[g] = m.binary[g] /\ (g \in fore <=> g \in m.foreign)
          /\ f \notin fore => \/ bin[f] = m.binary[f] /\ f \notin m.foreign
                              \/ bin[f] = lines /\ ours
      <3>1. \A g \in File : bin[g] = IF g = f /\ c \in Compiled THEN lines ELSE m.binary[g]
        BY <2>1
      <3> HIDE DEF bin, lines, ours, f
      <3>2. \A g \in File : g # f => bin[g] = m.binary[g] /\ (g \in fore <=> g \in m.foreign)
        BY <3>1
      <3>3. CASE c \notin Compiled
        <4>1. fore = m.foreign /\ bin[f] = m.binary[f]
          BY <2>1, <3>1, <3>3
        <4> HIDE DEF fore
        <4>2. f \notin fore => bin[f] = m.binary[f] /\ f \notin m.foreign
          BY <4>1
        <4> QED  BY <3>2, <4>2, Zenon
      <3>4. CASE c \in Compiled
        <4>1. bin[f] = lines
          BY <2>1, <3>1, <3>4
        <4>2. f \notin fore => ours
          BY <3>4
        <4> QED  BY <3>2, <4>1, <4>2
      <3> QED  BY <3>3, <3>4
    <2> HIDE DEF lines, ours, bin, fore
    <2>5. /\ n.definedline = m.definedline /\ n.definedposition = m.definedposition
          /\ n.definedvar = m.definedvar /\ n.defining = m.defining /\ n.info = m.info
          /\ n.taken = m.taken /\ n.binary = bin /\ n.foreign = fore
          /\ n.ran = [name |-> c, lines |-> lines, ours |-> ours]
      BY <2>1 DEF Memory
    <2> HIDE DEF n
    <2>6. PlacesOK(n) /\ CodesOK(n)
      BY <2>5 DEF Sound, PlacesOK, CodesOK, Says, Being
    <2>7. n.ran.name = c /\ n.ran.lines = lines /\ n.ran.ours = ours
      BY <2>5
    <2>8. RunsOK(n)
      <3> SUFFICES ASSUME NEW g \in File, NEW i \in 1 .. Len(program), Sole(g, i)
                   PROVE  /\ g \notin n.foreign => IsWritten(n.binary[g], program, i - 1)
                          /\ n.ran.name # NoName /\ n.ran.ours /\ Codename[n.ran.name] = g
                               => IsWritten(n.ran.lines, program, i - 1)
        BY DEF RunsOK
      <3>1. g \notin fore => IsWritten(bin[g], program, i - 1)
        <4>1. g \notin m.foreign => IsWritten(m.binary[g], program, i - 1)
          BY DEF Sound, RunsOK
        <4>2. CASE g = f
          BY <2>3, <2>4, <4>1, <4>2
        <4>3. CASE g # f
          BY <2>4, <4>1, <4>3
        <4> QED  BY <4>2, <4>3
      <3>2. ours /\ f = g => IsWritten(lines, program, i - 1)
        BY <2>3
      <3> QED  BY <2>5, <2>7, <3>1, <3>2 DEF f
    <2> QED  BY <2>2, <2>6, <2>8 DEF Sound
  <1> QED  BY <1>1, <1>2

\* A statement of the program is in its line, unless it is behind "do" or only in
\* the library.
Here(s, l) ==
    s.op \in OfCode \cup {"position"} /\ ~Defines(Library, s.of) =>
        \E i \in 1 .. Len(program) : program[i] = s /\ (s.behind # "do" => l = i - 1)

\* A code or a variable is entered into the maps; a code whose definition is over,
\* with what its line says.
LEMMA SoundEntry ==
    ASSUME NEW m, MemoryOK(m), Sound(m), ~m.defining, NEW c \in CodeName \cup VarName,
           NEW l \in Line0, NEW lines \in Seq(Text), NEW defining \in BOOLEAN,
           c \in CodeName /\ Clean(c) /\ ~defining =>
             \E i \in 1 .. Len(program) :
                /\ CodeLine(c, i) /\ IsWritten(lines, program, i - 1)
                /\ program[i].behind # "do" => l = i - 1
    PROVE  Sound(Defined(m, c, lines, l, defining))
  <1> DEFINE n == Defined(m, c, lines, l, defining)
  <1>1. /\ n.definedposition = m.definedposition /\ n.binary = m.binary /\ n.ran = m.ran
        /\ n.foreign = m.foreign /\ n.taken = m.taken \ {c}
        /\ n.defining = defining /\ n.info = [name |-> c, lines |-> lines]
        /\ \A x \in Name : n.definedvar[x] = IF x = c THEN lines ELSE m.definedvar[x]
        /\ \A x \in Name : n.definedline[x] = IF x = c THEN l ELSE m.definedline[x]
    BY DefinedOK
  <1>2. n.info.name = c /\ c \in Name
    BY <1>1 DEF Name
  <1> HIDE DEF n
  <1>3. PlacesOK(n)
    <2> SUFFICES ASSUME NEW p \in PosName, Clean(p), Plain(program, {"position"}),
                        p \in n.definedposition
                 PROVE  \E i \in 1 .. Len(program) :
                          n.definedline[p] = i - 1 /\ program[i].op = "position" /\ program[i].of = p
      BY DEF PlacesOK
    <2>1. p # c /\ p \in Name
      BY DEF Clean, OneKind, Name
    <2> QED  BY <1>1, <2>1 DEF Sound, PlacesOK
  <1>4. CodesOK(n)
    <2> SUFFICES ASSUME NEW d \in CodeName, Clean(d), n.definedvar[d] # Undefined, ~Being(n, d),
                        d \notin n.taken
                 PROVE  \E i \in 1 .. Len(program) : Says(n, n.definedvar[d], d, i)
      BY DEF CodesOK
    <2>1. d \in Name
      BY DEF Name
    <2>2. CASE d = c
      <3>1. ~defining
        BY <1>1, <1>2, <2>2 DEF Being
      <3>2. PICK i \in 1 .. Len(program) :
              /\ CodeLine(c, i) /\ IsWritten(lines, program, i - 1)
              /\ program[i].behind # "do" => l = i - 1
        BY <2>2, <3>1
      <3>3. n.definedvar[d] = lines /\ n.definedline[c] = l
        BY <1>1, <2>1, <2>2
      <3> QED  BY <2>2, <3>2, <3>3 DEF Says
    <2>3. CASE d # c
      <3>1. ~Being(m, d) /\ d \notin m.taken /\ n.definedvar[d] = m.definedvar[d]
            /\ n.definedline[d] = m.definedline[d]
        BY <1>1, <2>1, <2>3 DEF Being
      <3>2. PICK i \in 1 .. Len(program) : Says(m, m.definedvar[d], d, i)
        BY <3>1 DEF Sound, CodesOK
      <3> QED  BY <3>1, <3>2 DEF Says
    <2> QED  BY <2>2, <2>3
  <1>5. RunsOK(n)
    BY <1>1 DEF Sound, RunsOK
  <1> QED  BY <1>3, <1>4, <1>5 DEF Sound, n

\* A position is.
LEMMA SoundPlace ==
    ASSUME program \in Program, NEW m, MemoryOK(m), Sound(m), ~m.defining,
           NEW s \in Statement, s.op = "position", NEW l \in Line0, Here(s, l)
    PROVE  Sound([m EXCEPT !.definedposition = @ \cup {s.of}, !.definedline[s.of] = l,
                           !.info = Empty])
  <1> DEFINE q == s.of
             n == [m EXCEPT !.definedposition = @ \cup {q}, !.definedline[q] = l, !.info = Empty]
  <1>0. q \in PosName
    BY StatementOf
  <1>1. /\ n.definedposition = m.definedposition \cup {q} /\ n.binary = m.binary /\ n.ran = m.ran
        /\ n.taken = m.taken /\ n.foreign = m.foreign
        /\ n.defining = m.defining /\ n.definedvar = m.definedvar
        /\ \A x \in Name : n.definedline[x] = IF x = q THEN l ELSE m.definedline[x]
    BY <1>0 DEF MemoryOK, Memory, Name
  <1> HIDE DEF n
  <1>2. PlacesOK(n)
    <2> SUFFICES ASSUME NEW p \in PosName, Clean(p), Plain(program, {"position"}),
                        p \in n.definedposition
                 PROVE  \E i \in 1 .. Len(program) :
                          n.definedline[p] = i - 1 /\ program[i].op = "position" /\ program[i].of = p
      BY DEF PlacesOK
    <2>1. CASE p = q
      <3>1. PICK i \in 1 .. Len(program) : program[i] = s /\ (s.behind # "do" => l = i - 1)
        BY <2>1 DEF Here, Clean
      <3>2. s.behind # "do"
        BY <3>1, LengthsOK DEF Plain
      <3> QED  BY <1>0, <1>1, <2>1, <3>1, <3>2 DEF Name
    <2>2. CASE p # q
      BY <1>1, <2>2 DEF Sound, PlacesOK, Name
    <2> QED  BY <2>1, <2>2
  <1>3. CodesOK(n)
    <2> SUFFICES ASSUME NEW d \in CodeName, Clean(d), n.definedvar[d] # Undefined, ~Being(n, d),
                        d \notin n.taken
                 PROVE  \E i \in 1 .. Len(program) : Says(n, n.definedvar[d], d, i)
      BY DEF CodesOK
    <2>1. d # q /\ d \in Name /\ ~Being(m, d) /\ d \notin m.taken
      BY <1>0, <1>1 DEF Clean, OneKind, Name, Being
    <2>2. PICK i \in 1 .. Len(program) : Says(m, m.definedvar[d], d, i)
      BY <1>1, <2>1 DEF Sound, CodesOK
    <2> QED  BY <1>1, <2>1, <2>2 DEF Says
  <1>4. RunsOK(n)
    BY <1>1 DEF Sound, RunsOK
  <1> QED  BY <1>2, <1>3, <1>4 DEF Sound, n

\* A jump gives a name a line that has none: no code and no position that is
\* defined is without one.
LEMMA SoundKnown ==
    ASSUME program \in Program, NEW m, MemoryOK(m), Sound(m), ~m.defining, NEW x \in Name,
           m.definedline[x] = Undefined, NEW l \in Line0
    PROVE  Sound([m EXCEPT !.definedline[x] = l])
  <1> DEFINE n == [m EXCEPT !.definedline[x] = l]
  <1>1. /\ n.definedposition = m.definedposition /\ n.binary = m.binary /\ n.ran = m.ran
        /\ n.taken = m.taken /\ n.foreign = m.foreign
        /\ n.defining = m.defining /\ n.definedvar = m.definedvar
        /\ \A y \in Name : y # x => n.definedline[y] = m.definedline[y]
    BY DEF MemoryOK, Memory, Name
  <1>2. \A i \in 1 .. Len(program) : i - 1 # Undefined
    BY NullAssumption, LengthsOK
  <1> HIDE DEF n
  <1>3. PlacesOK(n)
    BY <1>1, <1>2 DEF Sound, PlacesOK, Name
  <1>4. CodesOK(n)
    <2> SUFFICES ASSUME NEW d \in CodeName, Clean(d), n.definedvar[d] # Undefined, ~Being(n, d),
                        d \notin n.taken
                 PROVE  \E i \in 1 .. Len(program) : Says(n, n.definedvar[d], d, i)
      BY DEF CodesOK
    <2>1. d \in Name /\ ~Being(m, d) /\ d \notin m.taken
      BY <1>1 DEF Name, Being
    <2>2. PICK i \in 1 .. Len(program) : Says(m, m.definedvar[d], d, i)
      BY <1>1, <2>1 DEF Sound, CodesOK
    <2> QED  BY <1>1, <1>2, <2>1, <2>2 DEF Says
  <1>5. RunsOK(n)
    BY <1>1 DEF Sound, RunsOK
  <1> QED  BY <1>3, <1>4, <1>5 DEF Sound, n
-----------------------------------------------------------------------------
(* What a statement does to that, and to what the server was told.         *)

\* The definitions that following lines are taken into.
Opening == {"code", "empty var"}

\* Two memories hold the same codes, variables and definition in progress, and the
\* server was told the same, though not more of it may be known to have arrived.
Agree(m, n) ==
    /\ n.definedvar = m.definedvar /\ n.synced = m.synced
    /\ n.defining = m.defining /\ n.info = m.info
    /\ n.taken = m.taken /\ m.untold \subseteq n.untold

\* The server was told of every code that is complete, but for the one in info if it
\* is about to be told of that, those it did not take, and those it has replaced.
SyncOK(m, over) ==
    \A c \in CodeName \ m.taken : m.definedvar[c] # Undefined /\ ~Being(m, c) =>
        IF over /\ m.info.name = c
          THEN m.info.lines = m.definedvar[c]
          ELSE c \notin m.untold => m.synced[c] = m.definedvar[c]

\* A result that starts a process goes on.
Goes(r) == r.started => r.outcome = "running"

\* What a statement that defines nothing gives, which goes on behind line at.
Quiet(m, r, at, over) ==
    /\ Sound(r.mem) /\ Goes(r) /\ r.at = at /\ ~r.mem.defining
    /\ r.outcome = "running" /\ SyncOK(m, over) => SyncOK(r.mem, r.over)
    /\ r.outcome = "running" /\ ~over => Agree(m, r.mem) /\ ~r.over

\* Where a jump to n goes.
Landing(m, n) == IF m.definedline[n] = Undefined THEN 0 ELSE m.definedline[n]

\* What a statement in line l gives that defines something.
Makes(m, s, l, r) ==
    /\ Sound(r.mem) /\ Goes(r)
    /\ r.mem.defining =>
         /\ s.op \in Opening /\ r.at = l
         /\ r.mem.info = [name |-> s.of, lines |-> <<>>] /\ r.mem.definedline[s.of] = l
    /\ r.outcome = "running" /\ SyncOK(m, FALSE) => SyncOK(r.mem, r.over)

\* The server knows of two memories that agree the same.
LEMMA SyncAgree ==
    ASSUME NEW m, NEW n, Agree(m, n), NEW over \in BOOLEAN, SyncOK(m, over)
    PROVE  SyncOK(n, over)
  <1> SUFFICES ASSUME NEW c \in CodeName \ n.taken, n.definedvar[c] # Undefined, ~Being(n, c)
               PROVE  IF over /\ n.info.name = c
                        THEN n.info.lines = n.definedvar[c]
                        ELSE c \notin n.untold => n.synced[c] = n.definedvar[c]
    BY DEF SyncOK
  <1>1. /\ c \notin m.taken /\ m.definedvar[c] # Undefined /\ ~Being(m, c)
        /\ c \notin n.untold => c \notin m.untold
    BY DEF Agree, Being
  <1>2. IF over /\ m.info.name = c
          THEN m.info.lines = m.definedvar[c]
          ELSE c \notin m.untold => m.synced[c] = m.definedvar[c]
    BY <1>1 DEF SyncOK
  <1> QED  BY <1>1, <1>2 DEF Agree

\* And of one whose names are read.
LEMMA SyncReread ==
    ASSUME NEW m, NEW k, Reread(m, k), NEW over \in BOOLEAN, SyncOK(m, over)
    PROVE  SyncOK(k, over)
  <1> SUFFICES ASSUME NEW c \in CodeName \ k.taken, k.definedvar[c] # Undefined, ~Being(k, c)
               PROVE  IF over /\ k.info.name = c
                        THEN k.info.lines = k.definedvar[c]
                        ELSE c \notin k.untold => k.synced[c] = k.definedvar[c]
    BY DEF SyncOK
  <1>1. c \notin m.taken /\ k.definedvar[c] = m.definedvar[c] /\ ~Being(m, c)
    BY DEF Reread, Being, Name
  <1>2. IF over /\ m.info.name = c
          THEN m.info.lines = m.definedvar[c]
          ELSE c \notin m.untold => m.synced[c] = m.definedvar[c]
    BY <1>1 DEF SyncOK
  <1> QED  BY <1>1, <1>2 DEF Reread

\* The server is told of what is in info, or not.
LEMMA SyncCommit ==
    ASSUME NEW m, MemoryOK(m), NEW over \in BOOLEAN, NEW told \in BOOLEAN, SyncOK(m, over)
    PROVE  SyncOK(Commit(m, over, told), FALSE)
  <1> DEFINE n == Commit(m, over, told)
             d == m.info.name
  <1>1. CASE ~over \/ d = NoName
    <2>1. n = m
      BY <1>1 DEF Commit
    <2>2. \A c \in CodeName : over => m.info.name # c
      BY <1>1, NullAssumption DEF Name
    <2> QED  BY <2>1, <2>2 DEF SyncOK
  <1>2. CASE over /\ d # NoName
    <2>0. d \in Name
      BY <1>2 DEF MemoryOK, Memory
    <2>1. /\ n.definedvar = m.definedvar /\ n.defining = m.defining /\ n.info = m.info
          /\ n.taken = m.taken
      BY <1>2 DEF Commit, MemoryOK, Memory
    <2>2. CASE told
      <3>1. n = [m EXCEPT !.synced[d] = m.info.lines, !.untold = @ \ {d}]
        BY <1>2, <2>2 DEF Commit
      <3>2. /\ n.untold = m.untold \ {d}
            /\ \A c \in Name : n.synced[c] = IF c = d THEN m.info.lines ELSE m.synced[c]
        BY <2>0, <3>1 DEF MemoryOK, Memory
      <3> HIDE DEF n
      <3>3. ASSUME NEW c \in CodeName \ n.taken, n.definedvar[c] # Undefined, ~Being(n, c),
                   c \notin n.untold
            PROVE  n.synced[c] = n.definedvar[c]
        <4>1. /\ c \in CodeName \ m.taken /\ m.definedvar[c] # Undefined /\ ~Being(m, c)
              /\ c \in Name
          BY <2>1, <3>3 DEF Being, Name
        <4>2. CASE c = d
          BY <1>2, <2>1, <3>2, <4>1, <4>2 DEF SyncOK
        <4>3. CASE c # d
          BY <2>1, <3>2, <3>3, <4>1, <4>3 DEF SyncOK
        <4> QED  BY <4>2, <4>3
      <3>4. SyncOK(n, FALSE)
        BY <3>3 DEF SyncOK
      <3> QED  BY <3>4 DEF n
    <2>3. CASE ~told
      <3>1. n = [m EXCEPT !.untold = @ \cup {d}]
        BY <1>2, <2>3 DEF Commit
      <3>2. n.untold = m.untold \cup {d} /\ n.synced = m.synced
        BY <2>0, <3>1 DEF MemoryOK, Memory
      <3> HIDE DEF n
      <3>3. ASSUME NEW c \in CodeName \ n.taken, n.definedvar[c] # Undefined, ~Being(n, c),
                   c \notin n.untold
            PROVE  n.synced[c] = n.definedvar[c]
        <4>1. /\ c \in CodeName \ m.taken /\ m.definedvar[c] # Undefined /\ ~Being(m, c)
              /\ c # d /\ c \notin m.untold
          BY <2>1, <3>2, <3>3 DEF Being
        <4> QED  BY <2>1, <3>2, <4>1 DEF SyncOK
      <3>4. SyncOK(n, FALSE)
        BY <3>3 DEF SyncOK
      <3> QED  BY <3>4 DEF n
    <2> QED  BY <2>2, <2>3
  <1> QED  BY <1>1, <1>2

\* A result that changes nothing of that.
LEMMA QuietSame ==
    ASSUME NEW m, ~m.defining, NEW r, Sound(r.mem), Agree(m, r.mem), Goes(r), NEW at, r.at = at,
           NEW over \in BOOLEAN, r.outcome = "running" => r.over = over
    PROVE  Quiet(m, r, at, over)
  <1>1. ~r.mem.defining
    BY DEF Agree
  <1>2. SyncOK(m, over) => SyncOK(r.mem, over)
    BY SyncAgree
  <1>3. r.outcome = "running" /\ SyncOK(m, over) => SyncOK(r.mem, r.over)
    BY <1>2, Zenon
  <1>4. r.outcome = "running" /\ ~over => Agree(m, r.mem) /\ ~r.over
    BY Zenon
  <1> QED  BY <1>1, <1>3, <1>4, Zenon DEF Quiet

\* A result without a definition.
LEMMA QuietResult ==
    ASSUME NEW m, ~m.defining, NEW n, Sound(n), Agree(m, n), NEW at, NEW over \in BOOLEAN,
           NEW out \in {"running", "exited", "aborted"}
    PROVE  Quiet(m, Result(n, at, out, over), at, over)
  <1> DEFINE r == Result(n, at, out, over)
  <1>1. r.mem = n /\ r.over = over /\ r.started = FALSE /\ r.at = at
    BY Zenon DEF Result
  <1> HIDE DEF r
  <1>2. Goes(r)
    BY <1>1, Zenon DEF Goes
  <1>3. Quiet(m, r, at, over)
    BY <1>1, <1>2, QuietSame, Zenon
  <1> QED  BY <1>3 DEF r

\* Code n is used.
LEMMA UseEffect ==
    ASSUME program \in Program, NEW m, MemoryOK(m), Sound(m), ~m.defining, NEW n \in Name,
           NEW at \in Line0, NEW wait \in BOOLEAN, NEW over \in BOOLEAN,
           NEW r \in usedefine(m, n, at, wait, over)
    PROVE  Quiet(m, r, at, over)
  <1>0. Agree(m, m)
    BY DEF Agree
  <1>1. CASE r = Result(m, at, "running", over)
    BY <1>0, <1>1, QuietResult
  <1>2. CASE r = Aborted(m, at)
    <2>1. r.mem = m /\ r.outcome = "aborted" /\ r.started = FALSE /\ r.at = at
      BY <1>2 DEF Aborted, Result
    <2> QED  BY <1>0, <2>1, QuietSame DEF Goes
  <1>3. CASE m.definedline[n] # Undefined /\ n \in CodeName /\ m.definedvar[n] # Undefined
    <2> DEFINE marked == Mark(m, n)
               ran == Mark(Run(m, n), n)
    <2>1. \/ r = Aborted(m, at)
          \/ r = Result(m, at, "running", over)
          \/ r = Result(marked, at, "running", over)
          \/ r = [Result(marked, at, "running", over) EXCEPT !.started = ~wait]
          \/ r = [Result(ran, at, "running", over) EXCEPT !.started = ~wait]
      BY <1>3, Zenon DEF usedefine
    <2>2. Sound(marked) /\ Agree(m, marked)
      BY <1>0, <1>3, SoundMark DEF Agree, Mark, MemoryOK, Memory
    <2>3. Sound(Run(m, n)) /\ MemoryOK(Run(m, n))
      BY <1>3, RunOK, SoundRun
    <2>4. Sound(ran)
      BY <2>3, SoundMark
    <2>5. Agree(m, ran)
      <3>1. Agree(m, Run(m, n))
        BY DEF Agree, Run, MemoryOK, Memory
      <3>2. Agree(Run(m, n), ran)
        BY <2>3 DEF Agree, Mark, MemoryOK, Memory
      <3> QED  BY <3>1, <3>2 DEF Agree
    <2> HIDE DEF marked, ran
    <2>6. ASSUME NEW k, Sound(k), Agree(m, k),
                 r = [Result(k, at, "running", over) EXCEPT !.started = ~wait]
          PROVE  Quiet(m, r, at, over)
      <3>1. r.mem = k /\ r.outcome = "running" /\ r.over = over /\ r.at = at
        BY <2>6 DEF Result
      <3> QED  BY <2>6, <3>1, QuietSame DEF Goes
    <2>7. CASE r = Result(marked, at, "running", over)
      BY <2>2, <2>7, QuietResult
    <2> QED  BY <1>1, <1>2, <2>1, <2>2, <2>4, <2>5, <2>6, <2>7
  <1>4. CASE ~(m.definedline[n] # Undefined /\ n \in CodeName /\ m.definedvar[n] # Undefined)
    <2>1. r = Result(m, at, "running", over) \/ r = Aborted(m, at)
      BY <1>4, Zenon DEF usedefine
    <2> QED  BY <1>1, <1>2, <2>1
  <1> QED  BY <1>3, <1>4

\* A jump to n.
LEMMA JumpEffect ==
    ASSUME program \in Program, NEW m, MemoryOK(m), Sound(m), ~m.defining, NEW n \in Name,
           0 \in Line0, NEW over \in BOOLEAN, NEW r \in Jump(m, n, over)
    PROVE  Quiet(m, r, Landing(m, n), over)
  <1> DEFINE there == Landing(m, n)
             known == [m EXCEPT !.definedline[n] = there]
  <1>1. there \in Line0
    BY DEF MemoryOK, Landing
  <1>2. r = Result(known, there, "running", over) \/ r \in usedefine(known, n, there, TRUE, over)
    BY Zenon DEF Jump, Landing
  <1>3. Sound(known) /\ Agree(m, known) /\ MemoryOK(known)
    <2>1. there \in Int /\ m \in Memory
      BY <1>1 DEF Line0, MemoryOK
    <2>2. Agree(m, known)
      BY <2>1 DEF Memory, Agree
    <2>3. MemoryOK(known)
      <3>1. known \in Memory
        BY <2>1 DEF Memory
      <3> QED  BY <1>1, <3>1 DEF MemoryOK, Memory
    <2>4. CASE m.definedline[n] = Undefined
      BY <1>1, <2>2, <2>3, <2>4, SoundKnown
    <2>5. CASE m.definedline[n] # Undefined
      <3>1. known = m
        BY <2>1, <2>5 DEF Memory, Landing
      <3> QED  BY <2>2, <2>3, <3>1
    <2> QED  BY <2>4, <2>5
  <1> HIDE DEF there, known
  <1>4. ~known.defining
    BY <1>3 DEF Agree
  <1>5. CASE r = Result(known, there, "running", over)
    BY <1>3, <1>5, QuietResult DEF there
  <1>6. CASE r \in usedefine(known, n, there, TRUE, over)
    <2>1. TRUE \in BOOLEAN
      OBVIOUS
    <2>2. Quiet(known, r, there, over)
      BY <1>1, <1>3, <1>4, <1>6, <2>1, UseEffect
    <2>3. SyncOK(m, over) => SyncOK(known, over)
      BY <1>3, SyncAgree
    <2>4. Agree(known, r.mem) => Agree(m, r.mem)
      BY <1>3 DEF Agree
    <2>5. Quiet(m, r, there, over)
      BY <2>2, <2>3, <2>4, Zenon DEF Quiet
    <2> QED  BY <2>5 DEF there
  <1> QED  BY <1>2, <1>5, <1>6

\* What is defined is about to be told, or still in definition.
LEMMA SyncDefined ==
    ASSUME NEW m, MemoryOK(m), ~m.defining, NEW c \in CodeName \cup VarName, NEW l \in Line0,
           NEW lines \in Seq(Text), NEW defining \in BOOLEAN, NEW over \in BOOLEAN,
           defining \/ over, SyncOK(m, FALSE)
    PROVE  SyncOK(Defined(m, c, lines, l, defining), over)
  <1> DEFINE n == Defined(m, c, lines, l, defining)
  <1>1. /\ n.defining = defining /\ n.info = [name |-> c, lines |-> lines]
        /\ n.synced = m.synced /\ n.untold = m.untold /\ n.taken = m.taken \ {c}
        /\ \A x \in Name : n.definedvar[x] = IF x = c THEN lines ELSE m.definedvar[x]
    BY DefinedOK
  <1>2. n.info.name = c /\ n.info.lines = lines
    BY <1>1
  <1> HIDE DEF n
  <1>3. ASSUME NEW d \in CodeName \ n.taken, n.definedvar[d] # Undefined, ~Being(n, d)
        PROVE  IF over /\ n.info.name = d
                 THEN n.info.lines = n.definedvar[d]
                 ELSE d \notin n.untold => n.synced[d] = n.definedvar[d]
    <2>1. d \in Name
      BY DEF Name
    <2>2. CASE d = c
      <3>1. ~defining
        BY <1>1, <1>2, <1>3, <2>2 DEF Being
      <3>2. n.definedvar[d] = lines
        BY <1>1, <2>1, <2>2
      <3> QED  BY <1>2, <2>2, <3>1, <3>2
    <2>3. CASE d # c
      <3>1. /\ d \in CodeName \ m.taken /\ ~Being(m, d) /\ n.definedvar[d] = m.definedvar[d]
            /\ m.definedvar[d] # Undefined
        BY <1>1, <1>3, <2>1, <2>3 DEF Being
      <3>2. d \notin m.untold => m.synced[d] = m.definedvar[d]
        BY <3>1 DEF SyncOK
      <3> QED  BY <1>1, <1>2, <2>3, <3>1, <3>2
    <2> QED  BY <2>2, <2>3
  <1>4. SyncOK(n, over)
    BY <1>3 DEF SyncOK
  <1> QED  BY <1>4 DEF n

\* A code without lines, and one with a line.
LEMMA Texts ==
    /\ <<>> \in Seq(Text) /\ \A t \in Text : <<t>> \in Seq(Text)
    /\ TRUE \in BOOLEAN /\ FALSE \in BOOLEAN
  OBVIOUS

\* A code or a variable is defined, its definition still open or already over.
LEMMA DefinedMakes ==
    ASSUME NEW m, MemoryOK(m), Sound(m), ~m.defining, NEW s \in Statement,
           s.of \in CodeName \cup VarName, NEW l \in Line0,
           NEW lines \in Seq(Text), NEW defining \in BOOLEAN, NEW over \in BOOLEAN,
           defining \/ over, defining => s.op \in Opening /\ lines = <<>>,
           s.of \in CodeName /\ Clean(s.of) /\ ~defining =>
             \E i \in 1 .. Len(program) :
                /\ CodeLine(s.of, i) /\ IsWritten(lines, program, i - 1)
                /\ program[i].behind # "do" => l = i - 1,
           NEW r, r = Result(Defined(m, s.of, lines, l, defining), l, "running", over)
    PROVE  Makes(m, s, l, r)
  <1> DEFINE n == Defined(m, s.of, lines, l, defining)
  <1>1. Sound(n)
    BY SoundEntry
  <1>2. SyncOK(m, FALSE) => SyncOK(n, over)
    BY SyncDefined
  <1>3. /\ n.defining = defining /\ n.info = [name |-> s.of, lines |-> lines]
        /\ n.definedline[s.of] = l
    BY DefinedOK DEF Name
  <1>4. r.mem = n /\ r.started = FALSE /\ r.at = l /\ r.over = over
    BY Zenon DEF Result
  <1> HIDE DEF n
  <1>5. Goes(r)
    BY <1>4, Zenon DEF Goes
  <1>6. r.mem.defining =>
         /\ s.op \in Opening /\ r.at = l
         /\ r.mem.info = [name |-> s.of, lines |-> <<>>] /\ r.mem.definedline[s.of] = l
    BY <1>3, <1>4
  <1> QED  BY <1>1, <1>2, <1>4, <1>5, <1>6, Zenon DEF Makes

\* What the text on a code's line says is written there.
LEMMA InlineWritten ==
    ASSUME program \in Program, NEW s \in Statement, s.op = "inline", NEW l, Here(s, l),
           Clean(s.of)
    PROVE  \E i \in 1 .. Len(program) :
              /\ CodeLine(s.of, i) /\ IsWritten(<<s.says>>, program, i - 1)
              /\ program[i].behind # "do" => l = i - 1
  <1>1. PICK i \in 1 .. Len(program) : program[i] = s /\ (s.behind # "do" => l = i - 1)
    BY DEF Here, Clean, OfCode
  <1>2. (i - 1) + 1 = i
    BY LengthsOK
  <1>3. IsWritten(<<s.says>>, program, i - 1)
    BY <1>1, <1>2 DEF IsWritten
  <1> QED  BY <1>1, <1>3 DEF CodeLine, OfCode

\* The four kinds of it.
LEMMA DefineEffect ==
    ASSUME program \in Program, NEW m, MemoryOK(m), Sound(m), ~m.defining, NEW s \in Statement,
           NEW l \in Line0, Here(s, l), NEW over \in BOOLEAN,
           NEW r, \/ s.op = "code" /\ r \in DefineCode(m, s.of, l, over)
                  \/ s.op = "inline" /\ r \in DefineInline(m, s.of, s.says, l)
                  \/ s.op = "var" /\ r \in DefineVar(m, s.of, l)
                  \/ s.op = "empty var" /\ r \in DefineEmptyVar(m, s.of, l, over)
    PROVE  Makes(m, s, l, r)
  <1>0. TRUE \in BOOLEAN /\ FALSE \in BOOLEAN /\ <<>> \in Seq(Text)
    BY Texts, Zenon
  <1>1. CASE \/ s.op = "code" /\ r \in DefineCode(m, s.of, l, over)
             \/ s.op = "empty var" /\ r \in DefineEmptyVar(m, s.of, l, over)
    <2>1. r = Result(Defined(m, s.of, <<>>, l, TRUE), l, "running", over)
      BY <1>1, Zenon DEF DefineCode, DefineEmptyVar
    <2>2. s.of \in CodeName \cup VarName /\ s.op \in Opening
      BY <1>1, StatementOf DEF Opening
    <2> QED  BY <1>0, <2>1, <2>2, DefinedMakes
  <1>2. CASE s.op = "inline" /\ r \in DefineInline(m, s.of, s.says, l)
    <2>1. r = Result(Defined(m, s.of, <<s.says>>, l, FALSE), l, "running", TRUE)
      BY <1>2, Zenon DEF DefineInline
    <2>2. s.of \in CodeName \cup VarName /\ <<s.says>> \in Seq(Text)
      <3>1. s.of \in CodeName /\ s.says \in Text
        BY <1>2, StatementOf, Zenon
      <3> QED  BY <3>1, Texts
    <2>3. Clean(s.of) =>
            \E i \in 1 .. Len(program) :
              /\ CodeLine(s.of, i) /\ IsWritten(<<s.says>>, program, i - 1)
              /\ program[i].behind # "do" => l = i - 1
      BY <1>2, InlineWritten
    <2> QED  BY <1>0, <2>1, <2>2, <2>3, DefinedMakes
  <1>3. CASE s.op = "var" /\ r \in DefineVar(m, s.of, l)
    <2>1. r = Result(Defined(m, s.of, <<>>, l, FALSE), l, "running", TRUE)
      BY <1>3, Zenon DEF DefineVar
    <2>2. s.of \in VarName
      BY <1>3, StatementOf
    <2>3. ~(s.of \in CodeName /\ Clean(s.of))
      BY <2>2 DEF Clean, OneKind
    <2> QED  BY <1>0, <2>1, <2>2, <2>3, DefinedMakes
  <1> QED  BY <1>1, <1>2, <1>3

\* A position is.
LEMMA DefinePositionEffect ==
    ASSUME program \in Program, NEW m, MemoryOK(m), Sound(m), ~m.defining,
           NEW s \in Statement, s.op = "position", NEW l \in Line0, Here(s, l),
           NEW r \in DefinePosition(m, s.of, l)
    PROVE  Makes(m, s, l, r)
  <1> DEFINE after == [m EXCEPT !.definedposition = @ \cup {s.of}, !.definedline[s.of] = l,
                                !.info = Empty]
  <1>1. r = Result(after, l, "running", FALSE)
    BY Zenon DEF DefinePosition
  <1>2. Sound(after)
    BY SoundPlace
  <1>3. /\ ~after.defining /\ after.synced = m.synced /\ after.definedvar = m.definedvar
        /\ after.taken = m.taken /\ after.untold = m.untold
    BY DEF MemoryOK, Memory
  <1> HIDE DEF after
  <1>4. SyncOK(m, FALSE) => SyncOK(after, FALSE)
    BY <1>3 DEF SyncOK, Being
  <1>5. /\ r.mem = after /\ r.started = FALSE /\ r.over = FALSE
    BY <1>1 DEF Result
  <1> QED  BY <1>2, <1>3, <1>4, <1>5 DEF Makes, Goes

\* A function is called: its parameter is told to the server, and its code is used.
LEMMA CallEffect ==
    ASSUME program \in Program, NEW m, MemoryOK(m), Sound(m), ~m.defining, NEW s \in Statement,
           s.op = "call", NEW l \in Line0, NEW r \in Call(m, s.of, l)
    PROVE  Makes(m, s, l, r)
  <1> DEFINE parameter == CHOOSE v \in VarName : TRUE
             d == Defined(m, parameter, <<>>, l, FALSE)
  <1>1. parameter \in VarName
    BY ProgramAssumption
  <1>2. PICK told \in BOOLEAN : r \in usedefine(Commit(d, TRUE, told), s.of, l, TRUE, FALSE)
    BY Zenon DEF Call
  <1> HIDE DEF parameter
  <1>3. /\ TRUE \in BOOLEAN /\ FALSE \in BOOLEAN /\ <<>> \in Seq(Text)
        /\ parameter \in CodeName \cup VarName /\ s.of \in Name
    <2>1. s.of \in CodeName
      BY StatementOf, Zenon
    <2>2. parameter \in CodeName \cup VarName /\ s.of \in Name
      BY <1>1, <2>1 DEF Name
    <2> QED  BY <2>2, Texts, Zenon
  <1>4. ~(parameter \in CodeName /\ Clean(parameter))
    BY <1>1 DEF Clean, OneKind
  <1>5. MemoryOK(d) /\ d.defining = FALSE
    <2>1. MemoryOK(d)
      BY <1>3, DefinedOK, Zenon
    <2>2. m \in Memory
      BY DEF MemoryOK
    <2>3. d.defining = FALSE
      BY <2>2 DEF Defined, Memory
    <2> QED  BY <2>1, <2>3
  <1>6. Sound(d)
    BY <1>3, <1>4, SoundEntry
  <1>7. SyncOK(m, FALSE) => SyncOK(d, TRUE)
    BY <1>3, SyncDefined
  <1> HIDE DEF d
  <1> DEFINE n == Commit(d, TRUE, told)
  <1>8. MemoryOK(n) /\ Sound(n)
    BY <1>5, <1>6, CommitOK, SoundCommit
  <1>9. ~n.defining
    BY <1>5 DEF Commit, MemoryOK, Memory
  <1>10. SyncOK(d, TRUE) => SyncOK(n, FALSE)
    BY <1>3, <1>5, SyncCommit
  <1> HIDE DEF n
  <1>11. Quiet(n, r, l, FALSE)
    BY <1>2, <1>3, <1>8, <1>9, UseEffect DEF n
  <1> QED  BY <1>7, <1>10, <1>11, Zenon DEF Makes, Quiet

\* The server is asked for an operation.
LEMMA CommitOperationEffect ==
    ASSUME NEW m, MemoryOK(m), Sound(m), ~m.defining, NEW l \in Line0, NEW over \in BOOLEAN,
           NEW r \in CommitOperation(m, l, over)
    PROVE  Quiet(m, r, l, over)
  <1>1. CASE r = Result(m, l, "running", over)
    <2>1. Agree(m, m)
      BY DEF Agree
    <2> QED  BY <1>1, <2>1, QuietResult
  <1>2. CASE r = Result(Commit(m, over, FALSE), l, "running", FALSE)
    <2> DEFINE n == Commit(m, over, FALSE)
    <2>1. Sound(n)
      BY SoundCommit
    <2>2. ~n.defining
      BY DEF Commit, MemoryOK, Memory
    <2>3. SyncOK(m, over) => SyncOK(n, FALSE)
      <3>1. FALSE \in BOOLEAN
        OBVIOUS
      <3> QED  BY <3>1, SyncCommit
    <2>4. ~over => Agree(m, n)
      BY DEF Agree, Commit
    <2> HIDE DEF n
    <2>5. r.mem = n /\ r.at = l /\ r.started = FALSE /\ r.over = FALSE
      BY <1>2 DEF Result, n
    <2>6. Goes(r)
      BY <2>5, Zenon DEF Goes
    <2>7. ~r.over
      BY <2>5
    <2> QED  BY <2>1, <2>2, <2>3, <2>4, <2>5, <2>6, <2>7, Zenon DEF Quiet
  <1>3. r = Result(m, l, "running", over) \/ r = Result(Commit(m, over, FALSE), l, "running", FALSE)
    BY Zenon DEF CommitOperation
  <1> QED  BY <1>1, <1>2, <1>3

\* What is true of a line's result on the memory f, but for what the server is told.
Shaped(f, s, at, r) ==
    /\ ResultOK(r) /\ Sound(r.mem) /\ Goes(r)
    /\ r.outcome = "running" /\ r.mem.defining =>
         /\ s.op \in Opening /\ r.at = at
         /\ r.mem.info = [name |-> s.of, lines |-> <<>>]
         /\ s.behind # "do" => r.mem.definedline[s.of] = at
    /\ s.op = "jump" /\ s.behind # "do" => r.at \in {at, Landing(f, s.of)}

\* What a line gives before its last request, if a definition was completed or not.
Pending(f, s, at, over, r) ==
    /\ Shaped(f, s, at, r)
    /\ r.outcome = "running" /\ (over => s.op \notin Defining) /\ SyncOK(f, over) =>
         SyncOK(r.mem, r.over)
    /\ r.outcome = "running" /\ s.op \notin Defining /\ ~over => Agree(f, r.mem) /\ ~r.over

\* And what it gives after that: no definition may be left that the server is not
\* told of.
Settled(f, s, at, over, r) ==
    /\ Shaped(f, s, at, r)
    /\ r.outcome = "running" /\ (over => s.op \notin Defining) /\ SyncOK(f, over) =>
         SyncOK(r.mem, FALSE)
    /\ r.outcome = "running" /\ s.op \notin Defining /\ ~over => Agree(f, r.mem)

\* Any statement, where it stands alone: l is at, or behind "do" -1.
LEMMA OperationEffect ==
    ASSUME program \in Program, NEW m, MemoryOK(m), Sound(m), ~m.defining, NEW s \in Statement,
           NEW l \in Line0, 0 \in Line0, Here(s, l), NEW over \in BOOLEAN,
           NEW r \in Operation(m, s, l, over)
    PROVE  IF s.op \in Defining
             THEN Makes(m, s, l, r)
             ELSE Quiet(m, r, IF s.op = "jump" THEN Landing(m, s.of) ELSE l, over)
  <1>1. TRUE \in BOOLEAN /\ FALSE \in BOOLEAN /\ Agree(m, m)
    BY DEF Agree
  <1>2. CASE \/ s.op = "code" /\ r \in DefineCode(m, s.of, l, over)
             \/ s.op = "inline" /\ r \in DefineInline(m, s.of, s.says, l)
             \/ s.op = "var" /\ r \in DefineVar(m, s.of, l)
             \/ s.op = "empty var" /\ r \in DefineEmptyVar(m, s.of, l, over)
    <2>1. Makes(m, s, l, r)
      BY <1>2, DefineEffect
    <2>2. s.op \in Defining
      BY <1>2 DEF Defining, OfCode
    <2> QED  BY <2>1, <2>2
  <1>3. CASE s.op = "position" /\ r \in DefinePosition(m, s.of, l)
    <2>1. Makes(m, s, l, r)
      BY <1>3, DefinePositionEffect
    <2> QED  BY <1>3, <2>1 DEF Defining
  <1>4. CASE s.op = "call" /\ r \in Call(m, s.of, l)
    <2>1. Makes(m, s, l, r)
      BY <1>4, CallEffect
    <2> QED  BY <1>4, <2>1 DEF Defining
  <1>5. CASE \/ s.op = "use" /\ r \in usedefine(m, s.of, l, TRUE, over)
             \/ s.op = "usewithoutwait" /\ r \in usedefine(m, s.of, l, FALSE, over)
    <2>1. s.of \in Name
      BY <1>5, StatementOf DEF Name
    <2>2. Quiet(m, r, l, over)
      BY <1>1, <1>5, <2>1, UseEffect
    <2> QED  BY <1>5, <2>2 DEF Defining, OfCode
  <1>6. CASE s.op = "jump" /\ r \in Jump(m, s.of, over)
    <2>1. s.of \in Name
      BY <1>6, StatementOf DEF Name
    <2>2. Quiet(m, r, Landing(m, s.of), over)
      BY <1>6, <2>1, JumpEffect
    <2> QED  BY <1>6, <2>2 DEF Defining, OfCode
  <1>7. CASE s.op = "exit" /\ r \in {Result(m, l, "exited", FALSE)}
    <2>1. r.mem = m /\ r.outcome = "exited" /\ r.started = FALSE /\ r.at = l /\ r.over = FALSE
      BY <1>7 DEF Result
    <2>2. Quiet(m, r, l, over)
      BY <1>1, <2>1, QuietSame DEF Goes
    <2> QED  BY <1>7, <2>2 DEF Defining, OfCode
  <1>8. CASE s.op = "commitvaroperation" /\ r \in CommitOperation(m, l, over)
    <2>1. Quiet(m, r, l, over)
      BY <1>8, CommitOperationEffect
    <2> QED  BY <1>8, <2>1 DEF Defining, OfCode
  <1>9. CASE s.op \notin Plainly /\ r \in {Result(m, l, "running", over)}
    <2>1. Quiet(m, r, l, over)
      BY <1>1, <1>9, QuietResult
    <2> QED  BY <1>9, <2>1 DEF Defining, OfCode, Plainly
  <1> QED  BY <1>2, <1>3, <1>4, <1>5, <1>6, <1>7, <1>8, <1>9, OperationCases, Zenon

\* The last request.
LEMMA CommittedSettled ==
    ASSUME NEW f, NEW s \in Statement, NEW at, NEW over \in BOOLEAN,
           NEW R, \A q \in R : Pending(f, s, at, over, q), NEW r \in Committed(R)
    PROVE  Settled(f, s, at, over, r)
  <1>1. PICK q \in R : IF q.outcome = "running"
                         THEN \E told \in BOOLEAN : r = [q EXCEPT !.mem = Commit(q.mem, q.over, told)]
                         ELSE r = q
    BY CommittedIs
  <1>2. Pending(f, s, at, over, q)
    BY <1>1
  <1>3. ResultOK(q) /\ MemoryOK(q.mem) /\ Sound(q.mem) /\ Goes(q)
    BY <1>2 DEF Pending, Shaped, ResultOK
  <1>4. q.over \in BOOLEAN /\ q \in Outcome
    BY <1>3, Zenon DEF ResultOK, Outcome
  <1>5. CASE q.outcome # "running"
    <2>1. r = q
      BY <1>1, <1>5
    <2> QED  BY <1>2, <1>5, <2>1, Zenon DEF Pending, Settled
  <1>6. ASSUME q.outcome = "running", NEW told \in BOOLEAN,
               r = [q EXCEPT !.mem = Commit(q.mem, q.over, told)]
        PROVE  Settled(f, s, at, over, r)
    <2> DEFINE n == Commit(q.mem, q.over, told)
    <2>1. MemoryOK(n) /\ Sound(n)
      BY <1>3, CommitOK, SoundCommit
    <2>2. /\ n.defining = q.mem.defining /\ n.info = q.mem.info
          /\ n.definedline = q.mem.definedline
          /\ ~q.over => n = q.mem
      BY <1>3 DEF Commit, MemoryOK, Memory
    <2>3. SyncOK(q.mem, q.over) => SyncOK(n, FALSE)
      BY <1>3, <1>4, <1>6, SyncCommit
    <2>4. n \in Memory
      BY <2>1 DEF MemoryOK
    <2> HIDE DEF n
    <2>5. /\ r.mem = n /\ r.at = q.at /\ r.outcome = q.outcome /\ r.started = q.started
          /\ r \in Outcome
      BY <1>4, <1>6, <2>4 DEF Outcome, n
    <2>6. ResultOK(r) /\ Goes(r) /\ Sound(r.mem)
      BY <1>3, <1>6, <2>1, <2>5, Zenon DEF ResultOK, Goes
    <2>7. n.defining =>
            /\ s.op \in Opening /\ r.at = at
            /\ n.info = [name |-> s.of, lines |-> <<>>]
            /\ s.behind # "do" => n.definedline[s.of] = at
      BY <1>2, <1>6, <2>2, <2>5, Zenon DEF Pending, Shaped
    <2>8. s.op = "jump" /\ s.behind # "do" => r.at \in {at, Landing(f, s.of)}
      BY <1>2, <2>5, Zenon DEF Pending, Shaped
    <2>9. Shaped(f, s, at, r)
      BY <2>5, <2>6, <2>7, <2>8, Zenon DEF Shaped
    <2>10. (over => s.op \notin Defining) /\ SyncOK(f, over) => SyncOK(n, FALSE)
      BY <1>2, <1>6, <2>3, Zenon DEF Pending
    <2>11. s.op \notin Defining /\ ~over => Agree(f, n)
      BY <1>2, <1>6, <2>2, Zenon DEF Pending
    <2> QED  BY <2>5, <2>9, <2>10, <2>11, Zenon DEF Settled
  <1> QED  BY <1>1, <1>5, <1>6

\* Any statement, with its result's type.
LEMMA OperationPending ==
    ASSUME program \in Program, NEW m, MemoryOK(m), Sound(m), ~m.defining, NEW s \in Statement,
           NEW l \in Line0, 0 \in Line0, Here(s, l), NEW over \in BOOLEAN,
           NEW r \in Operation(m, s, l, over)
    PROVE  Pending(m, s, l, over, r)
  <1>1. ResultOK(r)
    BY OperationOK
  <1>2. CASE s.op \in Defining
    <2>1. Makes(m, s, l, r)
      BY <1>2, OperationEffect
    <2>2. s.op # "jump"
      BY <1>2 DEF Defining, OfCode
    <2>3. Shaped(m, s, l, r)
      BY <1>1, <2>1, <2>2, Zenon DEF Shaped, Makes
    <2>4. CASE over
      BY <1>2, <2>3, <2>4, Zenon DEF Pending
    <2>5. CASE ~over
      <3>1. over = FALSE
        BY <2>5
      <3> QED  BY <1>2, <2>1, <2>3, <3>1, Zenon DEF Pending, Makes
    <2> QED  BY <2>4, <2>5
  <1>3. CASE s.op \notin Defining
    <2>1. Quiet(m, r, IF s.op = "jump" THEN Landing(m, s.of) ELSE l, over)
      BY <1>3, OperationEffect
    <2>2. s.op = "jump" => r.at \in {l, Landing(m, s.of)}
      BY <2>1 DEF Quiet
    <2>3. Shaped(m, s, l, r)
      BY <1>1, <2>1, <2>2, Zenon DEF Shaped, Quiet
    <2> QED  BY <2>1, <2>3, Zenon DEF Pending, Quiet
  <1> QED  BY <1>2, <1>3

\* What is settled within a line is pending in the line around it.
LEMMA InnerPending ==
    ASSUME NEW f, NEW s \in Statement, NEW at \in Line0, NEW l \in Line0, NEW outer \in BOOLEAN,
           NEW x, Settled(f, s, l, FALSE, x), NEW y \in Outcome, y.mem = x.mem,
           y.outcome = x.outcome, y.started = x.started, y.over = outer,
           s.behind # "do" => l = at, y.at = IF s.behind = "do" THEN at ELSE x.at
    PROVE  Pending(f, s, at, outer, y)
  <1>1. ResultOK(y) /\ Goes(y) /\ Sound(y.mem)
    BY Zenon DEF ResultOK, Goes, Settled, Shaped
  <1>2. y.outcome = "running" /\ y.mem.defining =>
          /\ s.op \in Opening /\ y.at = at
          /\ y.mem.info = [name |-> s.of, lines |-> <<>>]
          /\ s.behind # "do" => y.mem.definedline[s.of] = at
    BY DEF Settled, Shaped
  <1>3. s.op = "jump" /\ s.behind # "do" => y.at \in {at, Landing(f, s.of)}
    BY DEF Settled, Shaped
  <1>4. Shaped(f, s, at, y)
    BY <1>1, <1>2, <1>3, Zenon DEF Shaped
  <1>5. CASE ~outer
    <2>1. outer = FALSE /\ y.over = FALSE
      BY <1>5
    <2> QED  BY <1>4, <2>1, Zenon DEF Pending, Settled
  <1>6. CASE outer
    <2>1. outer = TRUE /\ y.over = TRUE /\ TRUE \in BOOLEAN
      BY <1>6
    <2>2. s.op \notin Defining /\ y.outcome = "running" => Agree(f, y.mem)
      BY Zenon DEF Settled
    <2>3. s.op \notin Defining /\ y.outcome = "running" /\ SyncOK(f, TRUE) => SyncOK(y.mem, TRUE)
      BY <2>1, <2>2, SyncAgree
    <2> QED  BY <1>4, <2>1, <2>3, Zenon DEF Pending
  <1> QED  BY <1>5, <1>6

\* A line on the memory that is completed and read for.
LEMMA DoesSettled ==
    ASSUME program \in Program, NEW m, MemoryOK(m), Sound(m), ~m.defining,
           NEW s \in Statement, NEW at \in Line0, 0 \in Line0, -1 \in Line0, Here(s, at),
           NEW outer \in BOOLEAN, NEW r \in Does(m, s, at, outer)
    PROVE  Settled(m, s, at, outer, r)
  <1> DEFINE Inner(l) ==
               {[q EXCEPT !.over = outer] : q \in Committed(Operation(m, s, l, FALSE))}
  <1>1. ASSUME NEW l \in Line0, Here(s, l), NEW q \in Committed(Operation(m, s, l, FALSE))
        PROVE  Settled(m, s, l, FALSE, q)
    <2>1. FALSE \in BOOLEAN
      OBVIOUS
    <2>2. \A x \in Operation(m, s, l, FALSE) : Pending(m, s, l, FALSE, x)
      BY <1>1, <2>1, OperationPending
    <2> QED  BY <1>1, <2>1, <2>2, CommittedSettled
  <1>2. \/ r \in Committed(Operation(m, s, at, outer))
        \/ s.behind = "do" /\ r \in Committed({[q EXCEPT !.at = at] : q \in Inner(-1)})
        \/ s.behind = "if" /\ r \in Committed(Inner(at) \cup {Result(m, at, "running", outer)})
    BY StatementOf DEF Does, Prefix
  <1> HIDE DEF Inner
  <1>3. CASE r \in Committed(Operation(m, s, at, outer))
    <2>1. \A q \in Operation(m, s, at, outer) : Pending(m, s, at, outer, q)
      BY OperationPending
    <2> QED  BY <1>3, <2>1, CommittedSettled
  <1>4. CASE s.behind = "do" /\ r \in Committed({[q EXCEPT !.at = at] : q \in Inner(-1)})
    <2>1. Here(s, -1)
      BY <1>4 DEF Here
    <2>2. PICK l \in Line0 : l = -1
      OBVIOUS
    <2>3. ASSUME NEW x, Settled(m, s, l, FALSE, x), NEW q,
                 q = [[x EXCEPT !.over = outer] EXCEPT !.at = at]
          PROVE  Pending(m, s, at, outer, q)
      <3>1. x \in Outcome
        BY <2>3, Zenon DEF Settled, Shaped, ResultOK
      <3>2. /\ q \in Outcome /\ q.mem = x.mem /\ q.outcome = x.outcome /\ q.started = x.started
            /\ q.over = outer /\ q.at = at
        BY <2>3, <3>1 DEF Outcome
      <3>3. s.behind = "do"
        BY <1>4
      <3> QED  BY <2>3, <3>2, <3>3, InnerPending
    <2>4. ASSUME NEW q \in {[x EXCEPT !.at = at] : x \in Inner(-1)}
          PROVE  Pending(m, s, at, outer, q)
      <3>1. PICK z \in Inner(-1) : q = [z EXCEPT !.at = at]
        BY <2>4
      <3>2. PICK x \in Committed(Operation(m, s, -1, FALSE)) : z = [x EXCEPT !.over = outer]
        BY DEF Inner
      <3>3. Settled(m, s, l, FALSE, x)
        BY <1>1, <2>1, <2>2
      <3> QED  BY <2>3, <3>1, <3>2, <3>3
    <2> QED  BY <1>4, <2>4, CommittedSettled
  <1>5. CASE s.behind = "if" /\ r \in Committed(Inner(at) \cup {Result(m, at, "running", outer)})
    <2>1. ASSUME NEW q \in Inner(at)
          PROVE  Pending(m, s, at, outer, q)
      <3>1. PICK x \in Committed(Operation(m, s, at, FALSE)) : q = [x EXCEPT !.over = outer]
        BY DEF Inner
      <3>2. Settled(m, s, at, FALSE, x)
        BY <1>1
      <3>3. x \in Outcome
        BY <3>2, Zenon DEF Settled, Shaped, ResultOK
      <3>4. /\ q \in Outcome /\ q.mem = x.mem /\ q.outcome = x.outcome /\ q.started = x.started
            /\ q.over = outer /\ q.at = x.at
        BY <3>1, <3>3 DEF Outcome
      <3>5. s.behind # "do" /\ q.at = IF s.behind = "do" THEN at ELSE x.at
        BY <1>5, <3>4
      <3> QED  BY <3>2, <3>4, <3>5, InnerPending
    <2>2. Pending(m, s, at, outer, Result(m, at, "running", outer))
      <3> DEFINE q == Result(m, at, "running", outer)
      <3>1. ResultOK(q)
        BY ResultIsOK
      <3>2. /\ q.mem = m /\ q.at = at /\ q.outcome = "running" /\ q.started = FALSE /\ q.over = outer
        BY Zenon DEF Result
      <3>3. Agree(m, m)
        BY DEF Agree
      <3> HIDE DEF q
      <3>4. q.at \in {at, Landing(m, s.of)}
        BY <3>2
      <3>5. Shaped(m, s, at, q)
        BY <3>1, <3>2, <3>4, Zenon DEF Shaped, Goes
      <3>6. Pending(m, s, at, outer, q)
        BY <3>2, <3>3, <3>5, Zenon DEF Pending
      <3> QED  BY <3>6 DEF q
    <2>3. \A q \in Inner(at) \cup {Result(m, at, "running", outer)} : Pending(m, s, at, outer, q)
      BY <2>1, <2>2
    <2> QED  BY <1>5, <2>3, CommittedSettled
  <1> QED  BY <1>2, <1>3, <1>4, <1>5

\* A line, alone, or behind "do" or "if".
LEMMA LineSettled ==
    ASSUME program \in Program, NEW m, MemoryOK(m), Sound(m), Sound(Flush(m)),
           NEW s \in Statement, NEW at \in Line0, 0 \in Line0, -1 \in Line0, Here(s, at),
           NEW r \in addressline(m, s, at)
    PROVE  \E k : Reread(Flush(m), k) /\ Settled(k, s, at, m.defining, r)
  <1> DEFINE f == Flush(m)
  <1>1. MemoryOK(f) /\ ~f.defining /\ m.defining \in BOOLEAN
    BY FlushOK, Zenon DEF MemoryOK, Memory
  <1>2. \/ \E k \in Reading(f, Reads(s)) : r \in Does(k, s, at, m.defining)
        \/ r = Aborted(m, at)
    BY Zenon DEF addressline
  <1> HIDE DEF f
  <1>3. ASSUME NEW k \in Reading(f, Reads(s)), r \in Does(k, s, at, m.defining)
        PROVE  Reread(f, k) /\ Settled(k, s, at, m.defining, r)
    <2>1. MemoryOK(k) /\ Reread(f, k)
      BY <1>1, StatementOf, ReadingOK
    <2>2. Sound(k) /\ ~k.defining
      BY <1>1, <2>1, SoundReread DEF f, Reread
    <2> QED  BY <1>1, <1>3, <2>1, <2>2, DoesSettled
  <1>4. CASE r = Aborted(m, at)
    <2>1. FALSE \in BOOLEAN
      OBVIOUS
    <2>2. ResultOK(r)
      BY <1>4, <2>1, ResultIsOK, Zenon DEF Aborted
    <2>3. r.mem = m /\ r.at = at /\ r.outcome = "aborted" /\ r.started = FALSE
      BY <1>4, Zenon DEF Aborted, Result
    <2>4. r.at \in {at, Landing(f, s.of)} /\ r.outcome # "running"
      BY <2>3
    <2>5. Settled(f, s, at, m.defining, r)
      BY <2>2, <2>3, <2>4, Zenon DEF Settled, Shaped, Goes
    <2>6. Reread(f, f)
      BY DEF Reread
    <2> QED  BY <2>5, <2>6 DEF f
  <1> QED  BY <1>2, <1>3, <1>4 DEF f

-----------------------------------------------------------------------------
(* A definition as far as it has been read.                                *)

\* The lines of the definition in line i of the program, up to line at.
CodeLinesUpTo(i, at) == {k \in (i + 1) .. at : program[k].op = "|"}

\* A definition that following lines are taken into.
Opens(lines, n) == \E i \in DOMAIN lines : lines[i].op \in Opening /\ lines[i].of = n

\* What is being defined is what line i opened, as far as it has been read.
Partial(m, i, at) ==
    /\ program[i].op \in Opening /\ program[i].of = m.info.name /\ i <= at
    /\ \A k \in (i + 1) .. at : program[k].op \in {"|", "#"}
    /\ Spells(m.info.lines, program, CodeLinesUpTo(i, at))
    /\ program[i].behind # "do" => m.definedline[m.info.name] = i - 1

\* A definition is open only in the program, unless the library opens one of its name.
OpenOK ==
    outcome = "running" /\ mem.defining /\ ~Opens(Library, mem.info.name) =>
        /\ Len(frames) = 1
        /\ \E i \in 1 .. Len(program) : Partial(mem, i, frames[1].at)

\* At its first line that is none of a code, a definition has been read to its end.
LEMMA BlockRead ==
    ASSUME program \in Program, NEW i \in 1 .. Len(program), NEW at \in Nat, i <= at,
           at + 1 \in 1 .. Len(program), program[at + 1].op \notin {"|", "#"},
           \A k \in (i + 1) .. at : program[k].op \in {"|", "#"}
    PROVE  BlockLines(program, i - 1) = CodeLinesUpTo(i, at)
  <1>1. Len(program) \in Nat /\ i \in Nat
    BY LengthsOK
  <1>2. (i - 1) + 2 = i + 1
    BY <1>1
  <1>3. ASSUME NEW k \in BlockLines(program, i - 1) PROVE k \in CodeLinesUpTo(i, at)
    <2>1. /\ k \in (i + 1) .. Len(program) /\ program[k].op = "|"
          /\ \A j \in (i + 1) .. k : program[j].op \in {"|", "#"}
      BY <1>2, <1>3 DEF BlockLines
    <2>2. k <= at
      <3>1. CASE at + 1 <= k
        <4>1. at + 1 \in (i + 1) .. k
          BY <1>1, <2>1, <3>1
        <4> QED  BY <2>1, <4>1
      <3>2. CASE ~(at + 1 <= k)
        BY <1>1, <2>1, <3>2
      <3> QED  BY <3>1, <3>2
    <2> QED  BY <1>1, <2>1, <2>2 DEF CodeLinesUpTo
  <1>4. ASSUME NEW k \in CodeLinesUpTo(i, at) PROVE k \in BlockLines(program, i - 1)
    <2>1. k \in (i + 1) .. at /\ program[k].op = "|"
      BY <1>4 DEF CodeLinesUpTo
    <2>2. k \in (i + 1) .. Len(program) /\ \A j \in (i + 1) .. k : program[j].op \in {"|", "#"}
      BY <1>1, <2>1
    <2> QED  BY <1>2, <2>1, <2>2 DEF BlockLines
  <1> QED  BY <1>3, <1>4

\* Nothing has been read.
LEMMA SpellsNone ==
    ASSUME NEW i \in Nat
    PROVE  Spells(<<>>, program, CodeLinesUpTo(i, i))
  <1>1. CodeLinesUpTo(i, i) = {}
    BY DEF CodeLinesUpTo
  <1>2. Cardinality({}) = 0
    BY FS_EmptySet
  <1> QED  BY <1>1, <1>2 DEF Spells

\* A comment has.
LEMMA SpellsSame ==
    ASSUME NEW i \in Nat, NEW at \in Nat, i <= at, program[at + 1].op # "|"
    PROVE  CodeLinesUpTo(i, at + 1) = CodeLinesUpTo(i, at)
  <1>1. \A k \in (i + 1) .. (at + 1) : k \in (i + 1) .. at \/ k = at + 1
    OBVIOUS
  <1>2. \A k \in (i + 1) .. at : k \in (i + 1) .. (at + 1)
    OBVIOUS
  <1> QED  BY <1>1, <1>2 DEF CodeLinesUpTo

\* A line of the code has.
LEMMA SpellsOneMore ==
    ASSUME NEW i \in Nat, NEW at \in Nat, i <= at, program[at + 1].op = "|",
           NEW texts \in Seq(Text), program[at + 1].of \in Text,
           Spells(texts, program, CodeLinesUpTo(i, at))
    PROVE  Spells(Append(texts, program[at + 1].of), program, CodeLinesUpTo(i, at + 1))
  <1> DEFINE A == CodeLinesUpTo(i, at)
             B == CodeLinesUpTo(i, at + 1)
             t == program[at + 1].of
             more == Append(texts, t)
  <1>1. B = A \cup {at + 1} /\ at + 1 \notin A
    <2>1. \A k : k \in (i + 1) .. (at + 1) <=> (k \in (i + 1) .. at \/ k = at + 1)
      OBVIOUS
    <2>2. at + 1 \notin (i + 1) .. at
      OBVIOUS
    <2> QED  BY <2>1, <2>2 DEF CodeLinesUpTo
  <1>2. A \subseteq 1 .. at /\ B \subseteq 1 .. (at + 1)
    BY DEF CodeLinesUpTo
  <1> HIDE DEF A, B
  <1>3. IsFiniteSet(A)
    <2>1. IsFiniteSet(1 .. at)
      BY FS_Interval
    <2> QED  BY <1>2, <2>1, FS_Subset
  <1>4. /\ Cardinality(A) \in Nat /\ Cardinality(B) = Cardinality(A) + 1
    BY <1>1, <1>3, FS_AddElement, FS_CardinalityType
  <1>5. Len(texts) = Cardinality(A) /\ \A k \in A : texts[Cardinality(A \cap 1 .. k)] = program[k].of
    BY DEF Spells, A
  <1>6. /\ Len(more) = Cardinality(B) /\ more[Cardinality(B)] = t
        /\ \A k \in 1 .. Cardinality(A) : more[k] = texts[k]
    BY <1>4, <1>5
  <1> HIDE DEF more
  <1>7. ASSUME NEW k \in A PROVE more[Cardinality(B \cap 1 .. k)] = program[k].of
    <2>1. k \in 1 .. at
      BY <1>2
    <2>2. B \cap 1 .. k = A \cap 1 .. k
      BY <1>1, <2>1
    <2>3. IsFiniteSet(A \cap 1 .. k) /\ Cardinality(A \cap 1 .. k) <= Cardinality(A)
      BY <1>3, FS_Subset
    <2>4. k \in A \cap 1 .. k
      BY <2>1
    <2>5. Cardinality(A \cap 1 .. k) \in Nat /\ Cardinality(A \cap 1 .. k) # 0
      BY <2>3, <2>4, FS_EmptySet, FS_CardinalityType
    <2>6. Cardinality(A \cap 1 .. k) \in 1 .. Cardinality(A)
      BY <1>4, <2>3, <2>5
    <2> QED  BY <1>5, <1>6, <2>2, <2>6
  <1>8. more[Cardinality(B \cap 1 .. (at + 1))] = t
    <2>1. B \cap 1 .. (at + 1) = B
      BY <1>2
    <2> QED  BY <1>6, <2>1
  <1>9. Spells(more, program, B)
    BY <1>1, <1>6, <1>7, <1>8 DEF Spells
  <1> QED  BY <1>9 DEF more, B

\* What is defined, compiled and run is what is written, and what is in definition is
\* what has been read of it.
SoundInv == TypesInv /\ Sound(mem) /\ OpenOK

\* The line that comes next is the program's in the outermost call, and otherwise
\* the library's.
LEMMA LineHere ==
    ASSUME TypesInv, ~AtEnd
    PROVE  /\ Here(ThisLine, Top.at)
           /\ Len(frames) = 1 => /\ Top.at + 1 \in 1 .. Len(program)
                                 /\ ThisLine = program[Top.at + 1]
           /\ Len(frames) # 1 => /\ Top.at + 1 \in DOMAIN Library
                                 /\ ThisLine = Library[Top.at + 1]
           /\ ThisLine.op \in Opening /\ ~Opens(Library, ThisLine.of) => Len(frames) = 1
  <1>1. /\ Top = frames[1] /\ Len(frames) \in Nat \ {0} /\ Top.at \in Nat
        /\ Top.at + 1 \in 1 .. Len(Top.lines)
    BY ThisLineOK
  <1>2. Top.lines = IF 1 = Len(frames) THEN program ELSE Library
    <2>1. 1 \in 1 .. Len(frames)
      BY <1>1
    <2>2. FramesOK
      BY DEF TypesInv
    <2> QED  BY <1>1, <2>1, <2>2 DEF FramesOK
  <1>3. CASE Len(frames) = 1
    <2>1. Top.at + 1 \in 1 .. Len(program) /\ ThisLine = program[Top.at + 1]
      BY <1>1, <1>2, <1>3 DEF ThisLine
    <2>2. Top.at = (Top.at + 1) - 1
      BY <1>1
    <2>3. Here(ThisLine, Top.at)
      BY <2>1, <2>2 DEF Here
    <2> QED  BY <1>3, <2>1, <2>3
  <1>4. CASE Len(frames) # 1
    <2>1. Top.at + 1 \in DOMAIN Library /\ ThisLine = Library[Top.at + 1]
      BY <1>1, <1>2, <1>4, LengthsOK DEF ThisLine, TypesInv
    <2>2. /\ ThisLine.op \in OfCode \cup {"position"} => Defines(Library, ThisLine.of)
          /\ ThisLine.op \in Opening => Opens(Library, ThisLine.of)
      BY <2>1 DEF Defines, Opens
    <2>3. Here(ThisLine, Top.at)
      BY <2>2 DEF Here
    <2> QED  BY <1>4, <2>1, <2>2, <2>3
  <1> QED  BY <1>3, <1>4

\* A line that is none of a code finds the definition before it complete.
LEMMA CompleteHere ==
    ASSUME SoundInv, Running, ~AtEnd, ThisLine.op \notin {"|", "#"}
    PROVE  Complete(mem) /\ Sound(Flush(mem))
  <1>0. TypesInv /\ OpenOK /\ Sound(mem) /\ MemoryOK(mem) /\ program \in Program
    BY DEF SoundInv, TypesInv
  <1>1. Complete(mem)
    <2> DEFINE n == mem.info.name
    <2> SUFFICES ASSUME mem.defining, n \in CodeName, Clean(n)
                 PROVE  \E i \in 1 .. Len(program) : Says(mem, mem.info.lines, n, i)
      BY DEF Complete
    <2>1. n \notin VarName
      BY DEF Clean, OneKind
    <2>2. ~Opens(Library, n)
      <3> SUFFICES ASSUME NEW j \in DOMAIN Library, Library[j].op \in Opening, Library[j].of = n
                   PROVE  FALSE
        BY DEF Opens
      <3>1. Library[j] \in Statement
        BY <1>0, LengthsOK
      <3>2. Library[j].op = "code"
        BY <2>1, <3>1, StatementOf DEF Opening
      <3> QED  BY <3>2 DEF Clean, Defines, OfCode
    <2>3. PICK i \in 1 .. Len(program) : Len(frames) = 1 /\ Partial(mem, i, Top.at)
      BY <1>0, <2>2, ThisLineOK DEF OpenOK, Running
    <2>4. /\ Top.at \in Nat /\ Top.at + 1 \in 1 .. Len(program)
          /\ program[Top.at + 1].op \notin {"|", "#"}
      BY <1>0, <2>3, ThisLineOK, LineHere
    <2>5. /\ i <= Top.at /\ \A k \in (i + 1) .. Top.at : program[k].op \in {"|", "#"}
          /\ Spells(mem.info.lines, program, CodeLinesUpTo(i, Top.at))
          /\ program[i].op \in Opening /\ program[i].of = n
          /\ program[i].behind # "do" => mem.definedline[n] = i - 1
      BY <2>3 DEF Partial
    <2>6. BlockLines(program, i - 1) = CodeLinesUpTo(i, Top.at)
      BY <1>0, <2>4, <2>5, BlockRead
    <2>7. program[i] \in Statement /\ (i - 1) + 1 = i
      BY <1>0, LengthsOK
    <2>8. program[i].op = "code"
      BY <2>1, <2>5, <2>7, StatementOf DEF Opening
    <2>9. CodeLine(n, i)
      BY <2>5, <2>8 DEF CodeLine, OfCode
    <2> HIDE DEF n
    <2>10. IsWritten(mem.info.lines, program, i - 1)
      BY <2>5, <2>6, <2>7, <2>8 DEF IsWritten, IsBlock
    <2> QED  BY <2>5, <2>9, <2>10 DEF Says
  <1> QED  BY <1>0, <1>1, SoundFlush

\* The memory of the next state says of its program what it says of this one's.
LEMMA SameProgram ==
    ASSUME program' = program, NEW m, mem' = m, Sound(m)
    PROVE  Sound(mem)'
  BY DEF Sound, PlacesOK, CodesOK, RunsOK, Says, Being, CodeLine, Sole

\* A line of a code.
LEMMA DefinitionLineSound ==
    ASSUME SoundInv, DefinitionLine
    PROVE  Sound(mem)' /\ OpenOK'
  <1>0. TypesInv /\ OpenOK /\ Sound(mem) /\ MemoryOK(mem) /\ FramesOK /\ ~AtEnd
    BY DEF SoundInv, TypesInv, DefinitionLine
  <1> DEFINE t == ThisLine.of
             n == [mem EXCEPT !.info.lines = Append(@, t)]
  <1>1. /\ program' = program /\ outcome' = outcome /\ outcome = "running"
        /\ Move(Top.at + 1) /\ ThisLine.op = "|" /\ mem.defining /\ mem' = n
    BY DEF DefinitionLine, Running
  <1>2. /\ n.info.name = mem.info.name /\ n.info.lines = Append(mem.info.lines, t)
        /\ n.defining = mem.defining /\ n.definedvar = mem.definedvar
        /\ n.definedline = mem.definedline /\ n.definedposition = mem.definedposition
        /\ n.binary = mem.binary /\ n.ran = mem.ran /\ mem.info.lines \in Seq(Text)
        /\ n.taken = mem.taken /\ n.foreign = mem.foreign
    BY <1>0 DEF MemoryOK, Memory
  <1> HIDE DEF n, t
  <1>3. Sound(n)
    BY <1>0, <1>2 DEF Sound, PlacesOK, CodesOK, RunsOK, Says, Being
  <1>4. Sound(mem)'
    BY <1>1, <1>3, SameProgram
  <1>5. /\ Len(frames') = Len(frames) /\ frames'[1].at = Top.at + 1
        /\ Top = frames[1] /\ Top.at \in Nat /\ t \in Text
    <2>0. /\ Top = frames[1] /\ Top \in Frame /\ Top.at \in Nat /\ Top.at + 1 \in -1..Span
          /\ ThisLine \in Statement
      BY <1>0, ThisLineOK
    <2>1. /\ Top = frames[1] /\ Top \in Frame /\ Top.at \in Nat /\ Top.at + 1 \in -1..Span
          /\ t \in Text
      BY <1>1, <2>0, StatementOf, Zenon DEF t
    <2>2. Len(frames') = Len(frames) /\ frames'[1] = [frames[1] EXCEPT !.at = Top.at + 1]
      BY <1>0, <1>1, <2>1, MoveOK
    <2> QED  BY <2>1, <2>2 DEF Frame
  <1>6. OpenOK'
    <2> SUFFICES ASSUME ~Opens(Library, n.info.name)
                 PROVE  /\ Len(frames') = 1
                        /\ \E i \in 1 .. Len(program) : Partial(n, i, Top.at + 1)
      BY <1>1, <1>5 DEF OpenOK, Partial, CodeLinesUpTo
    <2>1. PICK i \in 1 .. Len(program) : Len(frames) = 1 /\ Partial(mem, i, Top.at)
      BY <1>0, <1>1, <1>2, <1>5 DEF OpenOK
    <2>2. program[Top.at + 1].op = "|" /\ program[Top.at + 1].of = t /\ i \in Nat
      BY <1>0, <1>1, <2>1, LineHere DEF t
    <2>3. i <= Top.at /\ Spells(mem.info.lines, program, CodeLinesUpTo(i, Top.at))
      BY <2>1 DEF Partial
    <2>4. Spells(n.info.lines, program, CodeLinesUpTo(i, Top.at + 1))
      BY <1>2, <1>5, <2>2, <2>3, SpellsOneMore
    <2>5. \A k \in (i + 1) .. (Top.at + 1) : program[k].op \in {"|", "#"}
      <3>1. \A k \in (i + 1) .. (Top.at + 1) : k \in (i + 1) .. Top.at \/ k = Top.at + 1
        BY <1>5
      <3> QED  BY <2>1, <2>2, <3>1 DEF Partial
    <2>6. i <= Top.at + 1
      BY <1>5, <2>2, <2>3
    <2> QED  BY <1>2, <1>5, <2>1, <2>4, <2>5, <2>6 DEF Partial
  <1> QED  BY <1>4, <1>6

\* A comment.
LEMMA CommentSound ==
    ASSUME SoundInv, Comment
    PROVE  Sound(mem)' /\ OpenOK'
  <1>0. TypesInv /\ OpenOK /\ Sound(mem) /\ FramesOK /\ ~AtEnd
    BY DEF SoundInv, TypesInv, Comment
  <1>1. /\ program' = program /\ outcome' = outcome /\ Move(Top.at + 1) /\ ThisLine.op = "#"
        /\ mem' = mem
    BY DEF Comment
  <1>2. /\ Len(frames') = Len(frames) /\ frames'[1].at = Top.at + 1
        /\ Top = frames[1] /\ Top.at \in Nat
    <2>1. Top = frames[1] /\ Top \in Frame /\ Top.at \in Nat /\ Top.at + 1 \in -1..Span
      BY <1>0, ThisLineOK
    <2>2. Len(frames') = Len(frames) /\ frames'[1] = [frames[1] EXCEPT !.at = Top.at + 1]
      BY <1>0, <1>1, <2>1, MoveOK
    <2> QED  BY <2>1, <2>2 DEF Frame
  <1>3. OpenOK'
    <2> SUFFICES ASSUME outcome = "running", mem.defining, ~Opens(Library, mem.info.name)
                 PROVE  /\ Len(frames') = 1
                        /\ \E i \in 1 .. Len(program) : Partial(mem, i, Top.at + 1)
      BY <1>1, <1>2 DEF OpenOK, Partial, CodeLinesUpTo
    <2>1. PICK i \in 1 .. Len(program) : Len(frames) = 1 /\ Partial(mem, i, Top.at)
      BY <1>0, <1>2 DEF OpenOK
    <2>2. program[Top.at + 1].op = "#" /\ i \in Nat
      BY <1>0, <1>1, <2>1, LineHere
    <2>3. i <= Top.at
      BY <2>1 DEF Partial
    <2>4. CodeLinesUpTo(i, Top.at + 1) = CodeLinesUpTo(i, Top.at)
      BY <1>2, <2>2, <2>3, SpellsSame
    <2>5. \A k \in (i + 1) .. (Top.at + 1) : program[k].op \in {"|", "#"}
      <3>1. \A k \in (i + 1) .. (Top.at + 1) : k \in (i + 1) .. Top.at \/ k = Top.at + 1
        BY <1>2
      <3> QED  BY <2>1, <2>2, <3>1 DEF Partial
    <2>6. i <= Top.at + 1
      BY <1>2, <2>2, <2>3
    <2> QED  BY <1>2, <2>1, <2>4, <2>5, <2>6 DEF Partial
  <1> QED  BY <1>0, <1>1, <1>3, SameProgram

\* What a line does, whatever it does.
LEMMA LineGives ==
    ASSUME SoundInv, Line
    PROVE  \E r, k : /\ Reread(Flush(mem), k)
                     /\ Settled(k, ThisLine, Top.at, mem.defining, r)
                     /\ mem' = r.mem /\ program' = program /\ outcome' = r.outcome
                     /\ Len(frames') = Len(frames)
                     /\ frames'[1] = [frames[1] EXCEPT !.at = After(r.at)]
                     /\ \A i \in 2 .. Len(frames) : frames'[i] = frames[i]
  <1>0. /\ TypesInv /\ Sound(mem) /\ MemoryOK(mem) /\ FramesOK /\ program \in Program
        /\ Running /\ ~AtEnd /\ program' = program /\ ThisLine.op # "#"
        /\ ThisLine.op = "|" => ~mem.defining
    BY DEF SoundInv, TypesInv, Line
  <1>1. PICK r \in addressline(mem, ThisLine, Top.at) :
          /\ mem' = r.mem /\ Move(After(r.at))
          /\ IF r.started THEN outcome' = "running" ELSE Leave(r.outcome)
    BY DEF Line
  <1>2. /\ ThisLine \in Statement /\ Top = frames[1] /\ Top.at \in Line0
        /\ 0 \in Line0 /\ -1 \in Line0 /\ Here(ThisLine, Top.at)
    BY <1>0, ThisLineOK, LineHere
  <1>3. Sound(Flush(mem))
    <2>1. CASE ThisLine.op = "|"
      BY <1>0, <2>1 DEF Flush
    <2>2. CASE ThisLine.op # "|"
      BY <1>0, <2>2, CompleteHere
    <2> QED  BY <2>1, <2>2
  <1>4. PICK k : Reread(Flush(mem), k) /\ Settled(k, ThisLine, Top.at, mem.defining, r)
    BY <1>0, <1>2, <1>3, LineSettled
  <1>5. ResultOK(r) /\ r.at \in Line0 /\ Goes(r)
    BY <1>4 DEF Settled, Shaped, ResultOK, Outcome
  <1>6. After(r.at) \in -1..Span
    BY <1>0, <1>5, ThisLineOK DEF After
  <1>7. /\ Len(frames') = Len(frames)
        /\ frames'[1] = [frames[1] EXCEPT !.at = After(r.at)]
        /\ \A i \in 2 .. Len(frames) : frames'[i] = frames[i]
    BY <1>0, <1>1, <1>6, MoveOK
  <1>8. outcome' = r.outcome
    BY <1>1, <1>5 DEF Goes, Leave
  <1> QED  BY <1>0, <1>1, <1>4, <1>7, <1>8

\* Any other line.
LEMMA LineSound ==
    ASSUME SoundInv, Line
    PROVE  Sound(mem)' /\ OpenOK'
  <1>0. TypesInv /\ FramesOK /\ ~AtEnd
    BY DEF SoundInv, TypesInv, Line
  <1>1. PICK r, k : /\ Settled(k, ThisLine, Top.at, mem.defining, r)
                    /\ mem' = r.mem /\ program' = program /\ outcome' = r.outcome
                    /\ Len(frames') = Len(frames)
                    /\ frames'[1] = [frames[1] EXCEPT !.at = After(r.at)]
    BY LineGives
  <1>2. Sound(mem)'
    BY <1>1, SameProgram DEF Settled, Shaped
  <1>3. /\ Top = frames[1] /\ Top \in Frame /\ Top.at \in Nat
    BY <1>0, ThisLineOK
  <1>4. OpenOK'
    <2> DEFINE s == ThisLine
               at == Top.at
               n == r.mem
    <2>1. frames'[1].at = After(r.at)
      BY <1>1, <1>3 DEF Frame
    <2> SUFFICES ASSUME r.outcome = "running", n.defining, ~Opens(Library, n.info.name)
                 PROVE  /\ Len(frames) = 1
                        /\ \E i \in 1 .. Len(program) : Partial(n, i, After(r.at))
      BY <1>1, <2>1 DEF OpenOK, Partial, CodeLinesUpTo
    <2>2. /\ s.op \in Opening /\ r.at = at /\ n.info = [name |-> s.of, lines |-> <<>>]
          /\ s.behind # "do" => n.definedline[s.of] = at
      BY <1>1 DEF Settled, Shaped
    <2>3. n.info.name = s.of /\ n.info.lines = <<>>
      BY <2>2
    <2>4. After(r.at) = at + 1
      BY <2>2 DEF After
    <2>5. Len(frames) = 1 /\ at + 1 \in 1 .. Len(program) /\ s = program[at + 1]
      BY <1>0, <2>2, <2>3, LineHere
    <2> HIDE DEF n, at, s
    <2>6. at \in Nat /\ at + 1 \in Nat /\ at = (at + 1) - 1
      BY <1>3 DEF at
    <2>7. Spells(n.info.lines, program, CodeLinesUpTo(at + 1, at + 1))
      BY <2>3, <2>6, SpellsNone
    <2>8. \A l \in ((at + 1) + 1) .. (at + 1) : program[l].op \in {"|", "#"}
      BY <2>6
    <2>9. Partial(n, at + 1, at + 1)
      BY <2>2, <2>3, <2>5, <2>6, <2>7, <2>8 DEF Partial
    <2> QED  BY <2>4, <2>5, <2>9
  <1> QED  BY <1>2, <1>4

\* An import.
LEMMA ImportSound ==
    ASSUME SoundInv, Import
    PROVE  Sound(mem)' /\ OpenOK'
  <1>0. TypesInv /\ MemoryOK(mem) /\ Running /\ ~AtEnd /\ ThisLine.op = "import"
    BY DEF SoundInv, TypesInv, Import
  <1>1. program' = program /\ mem' \in Reading(Flush(mem), Reads(ThisLine))
    BY DEF Import
  <1>2. Sound(Flush(mem)) /\ ~Flush(mem).defining /\ MemoryOK(Flush(mem))
    BY <1>0, CompleteHere, FlushOK
  <1>3. Reread(Flush(mem), mem')
    <2>1. ThisLine \in Statement
      BY <1>0, ThisLineOK
    <2>2. Reads(ThisLine) \in SUBSET Name
      BY <2>1, StatementOf
    <2> QED  BY <1>1, <1>2, <2>2, ReadingOK
  <1>4. PICK k : k = mem' /\ Sound(k)
    BY <1>2, <1>3, SoundReread
  <1>5. ~mem'.defining
    BY <1>2, <1>3 DEF Reread
  <1> QED  BY <1>1, <1>4, <1>5, SameProgram DEF OpenOK

\* The end of the program or of the library.
LEMMA EndOfLinesSound ==
    ASSUME SoundInv, EndOfLines
    PROVE  Sound(mem)' /\ OpenOK'
  <1>0. TypesInv /\ MemoryOK(mem) /\ Sound(mem) /\ OpenOK /\ program' = program
    BY DEF SoundInv, TypesInv, EndOfLines
  <1>1. CASE Len(frames) = 1
    <2>1. mem' = mem /\ outcome' = "ended"
      BY <1>1 DEF EndOfLines, Leave
    <2> QED  BY <1>0, <2>1, SameProgram DEF OpenOK
  <1>2. CASE Len(frames) # 1
    <2>1. PICK told \in BOOLEAN : mem' = Commit(mem, frames[2].over, told) /\ outcome = "running"
      BY <1>2 DEF EndOfLines, Running
    <2>2. /\ Commit(mem, frames[2].over, told).defining = mem.defining
          /\ Commit(mem, frames[2].over, told).info = mem.info
          /\ Commit(mem, frames[2].over, told).definedline = mem.definedline
      BY <1>0 DEF Commit, MemoryOK, Memory
    <2>3. Sound(mem)'
      BY <1>0, <2>1, SoundCommit, SameProgram
    <2>4. OpenOK'
      BY <1>0, <1>2, <2>1, <2>2 DEF OpenOK
    <2> QED  BY <2>3, <2>4
  <1> QED  BY <1>1, <1>2

\* The invariant.
LEMMA SoundInit == ColyInit => SoundInv
  <1> SUFFICES ASSUME ColyInit PROVE SoundInv
    OBVIOUS
  <1>1. /\ ~mem.defining /\ mem.definedposition = {} /\ mem.ran.name = NoName
        /\ \A c \in CodeName : mem.definedvar[c] = Undefined
        /\ mem.foreign = File
    BY DEF ColyInit, Empty, Name
  <1>2. Sound(mem)
    BY <1>1 DEF Sound, PlacesOK, CodesOK, RunsOK
  <1>3. OpenOK
    BY <1>1 DEF OpenOK
  <1> QED  BY <1>2, <1>3, TypesInit DEF SoundInv

\* Every step.
LEMMA SoundNext == SoundInv /\ [ColyNext]_<<colyVars, pumpVars>> => SoundInv'
  <1> SUFFICES ASSUME SoundInv, [ColyNext]_<<colyVars, pumpVars>> PROVE SoundInv'
    OBVIOUS
  <1>1. TypesInv'
    BY TypesNext DEF SoundInv
  <1>2. CASE DefinitionLine \/ Comment \/ Line \/ Import \/ EndOfLines
    BY <1>1, <1>2, DefinitionLineSound, CommentSound, LineSound, ImportSound, EndOfLinesSound
       DEF SoundInv
  <1>3. CASE Threads \/ UNCHANGED <<colyVars, pumpVars>>
    <2>1. program' = program /\ frames' = frames /\ outcome' = outcome /\ mem' = mem
      BY <1>3 DEF Threads, colyVars
    <2>2. Sound(mem)'
      BY <2>1, SameProgram DEF SoundInv
    <2>3. OpenOK'
      BY <2>1 DEF SoundInv, OpenOK, Partial, CodeLinesUpTo
    <2> QED  BY <1>1, <2>2, <2>3 DEF SoundInv
  <1> QED  BY <1>2, <1>3 DEF ColyNext, InterpreterStep

(* For any program and any library: a code that is complete is exactly the   *)
(* lines behind its definition (addressline in Coly.hpp collects them line   *)
(* by line, and the next line that is none of a code writes them) or the     *)
(* text on it, whatever jumps, imports and other definitions came between,   *)
(* until getvalue gives it the lines that the server has.                    *)
THEOREM CodeIsWhole == ColySpec => []WholeCode
  <1>1. SoundInv => WholeCode
    <2> SUFFICES ASSUME SoundInv, Plain(program, OfCode), NEW c \in CodeName, Own(c),
                        mem.definedvar[c] # Undefined, ~InDefinition(c), c \notin mem.taken
                 PROVE  IsWritten(mem.definedvar[c], program, mem.definedline[c])
      BY DEF WholeCode
    <2>1. Clean(c) /\ ~Being(mem, c)
      BY DEF Own, Clean, InDefinition, Being
    <2>2. PICK i \in 1 .. Len(program) : Says(mem, mem.definedvar[c], c, i)
      BY <2>1 DEF SoundInv, Sound, CodesOK
    <2>3. program[i].behind # "do"
      <3>1. i \in DOMAIN program
        BY LengthsOK DEF SoundInv, TypesInv
      <3> QED  BY <2>2, <3>1 DEF Says, CodeLine, Plain
    <2> QED  BY <2>2, <2>3 DEF Says
  <1> QED  BY <1>1, SoundInit, SoundNext, PTL DEF ColySpec

(* For any program and any library: what runs under a code's name is what    *)
(* the program wrote for it, by usedefine of Coly.hpp with its compiledcode, *)
(* wherever a single definition writes the code's file, and neither the      *)
(* server nor what an earlier session compiled is taken instead.             *)
THEOREM RunsWhatIsWritten == ColySpec => []RunsWhatWasWritten
  <1>1. SoundInv => RunsWhatWasWritten
    <2> DEFINE f == Codename[mem.ran.name]
               defining == DefiningLines(program, f)
    <2> SUFFICES ASSUME SoundInv, mem.ran.name # NoName, mem.ran.ours,
                        Cardinality(defining) = 1, DefiningLines(Library, f) = {},
                        \A c \in CodeName : Codename[c] = f => OneKind(c),
                        NEW i \in defining
                 PROVE  IsWritten(mem.ran.lines, program, i - 1)
      BY DEF RunsWhatWasWritten
    <2>1. program \in Seq(Statement) /\ Len(program) \in Nat /\ DOMAIN program = 1 .. Len(program)
      BY LengthsOK DEF SoundInv, TypesInv
    <2>2. i \in 1 .. Len(program) /\ defining \subseteq 1 .. Len(program)
      BY <2>1 DEF DefiningLines
    <2>3. IsFiniteSet(defining)
      <3>1. 1 \in Int /\ Len(program) \in Int
        BY <2>1
      <3>2. IsFiniteSet(1 .. Len(program))
        BY <3>1, FS_Interval, Zenon
      <3> QED  BY <2>2, <3>2, FS_Subset
    <2>4. f \in File
      <3>1. mem.ran.name \in CodeName
        BY DEF SoundInv, TypesInv, MemoryOK, Memory
      <3> QED  BY <3>1 DEF File
    <2>5. defining = {i}
      BY <2>3, FS_Singleton
    <2> HIDE DEF f
    <2>6. Sole(f, i)
      BY <2>5 DEF Sole
    <2> QED  BY <2>2, <2>4, <2>6 DEF SoundInv, Sound, RunsOK, f
  <1> QED  BY <1>1, SoundInit, SoundNext, PTL DEF ColySpec

(* For any program and any library: a jump of the program to a position goes *)
(* on at a line that defines it.  addressline sets *lineid to the position's *)
(* line, and useCly takes a line number that has changed for a jump, and one *)
(* that has not for a line that is done.                                     *)
THEOREM JumpsAlwaysLand == ColySpec => JumpsLand
  <1>1. SoundInv /\ [ColyNext]_<<colyVars, pumpVars>> =>
          [\A p \in PosName :
             Jumps /\ ThisLine.of = p /\ p \in mem.definedposition
             /\ Own(p) /\ Plain(program, {"position"}) /\ Len(frames) = 1
             => LET there == program[frames'[1].at + 1]
                IN  there.op = "position" /\ there.of = p]_colyVars
    <2> SUFFICES ASSUME SoundInv, NEW p \in PosName, Jumps, ThisLine.of = p,
                        p \in mem.definedposition, Own(p), Plain(program, {"position"}),
                        Len(frames) = 1
                 PROVE  /\ program[frames'[1].at + 1].op = "position"
                        /\ program[frames'[1].at + 1].of = p
      OBVIOUS
    <2>1. /\ Line /\ ThisLine.op = "jump" /\ ThisLine.behind # "do"
          /\ frames'[1].at # Top.at + 1
      BY DEF Jumps
    <2>2. PICK r, k : /\ Reread(Flush(mem), k)
                      /\ Settled(k, ThisLine, Top.at, mem.defining, r)
                      /\ frames'[1] = [frames[1] EXCEPT !.at = After(r.at)]
      BY <2>1, LineGives
    <2>3. Top = frames[1] /\ Top \in Frame /\ ~AtEnd /\ TypesInv /\ program \in Program
      BY <2>1, ThisLineOK DEF Line, SoundInv, TypesInv
    <2>4. frames'[1].at = After(r.at)
      BY <2>2, <2>3 DEF Frame
    <2>5. r.at \in {Top.at, Landing(k, p)}
      BY <2>1, <2>2 DEF Settled, Shaped
    <2>6. r.at # Top.at /\ frames'[1].at = r.at
      BY <2>1, <2>4 DEF After
    <2>7. PICK i \in 1 .. Len(program) :
            mem.definedline[p] = i - 1 /\ program[i].op = "position" /\ program[i].of = p
      BY DEF SoundInv, Sound, PlacesOK, Own, Clean
    <2>8. k.definedline = mem.definedline
      BY <2>2 DEF Reread, Flush, SoundInv, TypesInv, MemoryOK, Memory
    <2>9. i \in Nat /\ i - 1 # Undefined
      BY <2>3, NullAssumption, LengthsOK
    <2>10. r.at = i - 1
      BY <2>5, <2>6, <2>7, <2>8, <2>9 DEF Landing
    <2>11. frames'[1].at + 1 = i
      BY <2>6, <2>9, <2>10
    <2> QED  BY <2>7, <2>11
  <1> QED  BY <1>1, SoundInit, SoundNext, PTL DEF ColySpec, JumpsLand
-----------------------------------------------------------------------------
(* What the server was told.                                               *)

\* No definition of the program is directly followed by another, and the library has
\* none.
Apart ==
    /\ DefinitionsApart(program)
    /\ \A i \in DOMAIN Library : Library[i].op \notin Defining

\* Only the outermost call may have something left to tell behind its import.
Owing == Len(frames) # 1 /\ frames[Len(frames)].over

\* Every complete code is synced, but for the one whose commit is still owed.
SyncInv ==
    Apart /\ outcome \in {"running", "ended"} =>
        /\ \A i \in 1 .. Len(frames) - 1 : frames[i].over = FALSE
        /\ SyncOK(mem, Owing)

\* Where definitions are apart, a line that completes one makes none, and the library
\* neither completes nor makes any.
LEMMA LineApart ==
    ASSUME SoundInv, Apart, Running, ~AtEnd, ThisLine.op \notin {"|", "#"}
    PROVE  /\ mem.defining => ThisLine.op \notin Defining
           /\ Len(frames) # 1 => ~mem.defining /\ ThisLine.op \notin Defining
  <1>0. TypesInv /\ OpenOK /\ program \in Program
    BY DEF SoundInv, TypesInv
  <1>1. \A n : ~Opens(Library, n)
    BY DEF Apart, Opens, Opening, Defining, OfCode
  <1>2. ASSUME mem.defining
        PROVE  Len(frames) = 1 /\ ThisLine.op \notin Defining
    <2>1. PICK i \in 1 .. Len(program) : Len(frames) = 1 /\ Partial(mem, i, Top.at)
      BY <1>0, <1>1, <1>2, ThisLineOK DEF OpenOK, Running
    <2> DEFINE j == Top.at + 1
    <2>2. /\ Top.at \in Nat /\ j \in 1 .. Len(program) /\ ThisLine = program[j] /\ j - 1 = Top.at
      BY <1>0, <2>1, ThisLineOK, LineHere
    <2>3. /\ i \in DOMAIN program /\ j \in DOMAIN program /\ i \in Nat
      BY <1>0, <2>2, LengthsOK
    <2> HIDE DEF j
    <2>4. /\ program[i].op \in {"code", "empty var"} /\ i <= Top.at
          /\ \A k \in (i + 1) .. (j - 1) : program[k].op \in {"|", "#"}
      BY <2>1, <2>2 DEF Partial, Opening
    <2>5. i < j
      <3>1. i <= Top.at
        BY <2>4, Zenon
      <3>2. Top.at \in Nat /\ i \in Nat /\ j = Top.at + 1
        BY <2>2, <2>3 DEF j
      <3> QED  BY <3>1, <3>2
    <2>6. Follows(program, i, j)
      BY <2>2, <2>4, <2>5 DEF Follows
    <2>7. program[j].op \notin Defining
      BY <2>3, <2>4, <2>6 DEF Apart, DefinitionsApart
    <2> QED  BY <2>1, <2>2, <2>7
  <1>3. Len(frames) # 1 => ThisLine.op \notin Defining
    BY <1>0, LineHere DEF Apart
  <1> QED  BY <1>2, <1>3

\* What a definition that is completed leaves to be told.
LEMMA SyncFlush ==
    ASSUME MemoryOK(mem), SyncOK(mem, FALSE)
    PROVE  SyncOK(Flush(mem), mem.defining)
  <1> DEFINE n == Flush(mem)
             d == mem.info.name
  <1>1. CASE ~mem.defining
    <2>1. n = mem /\ mem.defining = FALSE
      BY <1>1 DEF Flush, MemoryOK, Memory
    <2> QED  BY <2>1, Zenon
  <1>2. CASE mem.defining
    <2>1. /\ n.info = mem.info /\ n.synced = mem.synced
          /\ n.taken = mem.taken /\ n.untold = mem.untold
          /\ \A c \in Name : n.definedvar[c] = IF c = d THEN mem.info.lines ELSE mem.definedvar[c]
      BY <1>2 DEF Flush, MemoryOK, Memory, Name
    <2> HIDE DEF n
    <2>2. ASSUME NEW c \in CodeName \ n.taken, n.definedvar[c] # Undefined
          PROVE  IF c = d THEN n.info.lines = n.definedvar[c]
                          ELSE c \notin n.untold => n.synced[c] = n.definedvar[c]
      BY <2>1, <2>2 DEF SyncOK, Being, Name
    <2>3. SyncOK(n, mem.defining)
      BY <1>2, <2>1, <2>2 DEF SyncOK
    <2> QED  BY <2>3 DEF n
  <1> QED  BY <1>1, <1>2

\* The calls, and what they owe, are of their types.
LEMMA SyncFrames ==
    ASSUME TypesInv
    PROVE  /\ FramesOK /\ MemoryOK(mem) /\ Len(frames) \in Nat \ {0}
           /\ frames \in Seq(Frame) /\ \A i \in 1 .. Len(frames) : frames[i].over \in BOOLEAN
           /\ Owing \in BOOLEAN
  <1>1. FramesOK /\ MemoryOK(mem) /\ Len(frames) \in Nat \ {0} /\ frames \in Seq(Frame)
    BY EmptySeq DEF TypesInv, FramesOK
  <1>2. \A i \in 1 .. Len(frames) : frames[i].over \in BOOLEAN
    <2> SUFFICES ASSUME NEW i \in 1 .. Len(frames) PROVE frames[i].over \in BOOLEAN
      OBVIOUS
    <2>1. frames[i] \in Frame
      BY <1>1
    <2> QED  BY <2>1, Zenon DEF Frame
  <1>3. Owing \in BOOLEAN
    BY DEF Owing
  <1> QED  BY <1>1, <1>2, <1>3

\* The calls owe the same after a step within the innermost one.
LEMMA OwingSame ==
    ASSUME TypesInv, Len(frames') = Len(frames), NEW at,
           frames'[1] = [frames[1] EXCEPT !.at = at],
           \A i \in 2 .. Len(frames) : frames'[i] = frames[i],
           \A i \in 1 .. Len(frames) - 1 : frames[i].over = FALSE
    PROVE  /\ \A i \in 1 .. Len(frames') - 1 : frames'[i].over = FALSE
           /\ Owing' = Owing
  <1>1. PICK n \in Nat \ {0} : n = Len(frames)
    BY SyncFrames
  <1>2. frames[1] \in Frame
    <2>1. 1 \in 1 .. Len(frames)
      BY <1>1
    <2> QED  BY <2>1, SyncFrames
  <1>3. frames'[1].over = frames[1].over
    BY <1>2 DEF Frame
  <1>4. ASSUME NEW i \in 1 .. n - 1 PROVE frames'[i].over = FALSE
    <2>1. CASE i = 1
      BY <1>1, <1>3, <1>4, <2>1
    <2>2. CASE i # 1
      <3>1. i \in 2 .. Len(frames)
        BY <1>1, <1>4, <2>2
      <3> QED  BY <1>1, <1>4, <3>1
    <2> QED  BY <2>1, <2>2
  <1>5. CASE n = 1
    <2>1. Owing = FALSE /\ Owing' = FALSE
      BY <1>1, <1>5 DEF Owing
    <2> QED  BY <1>1, <1>4, <2>1
  <1>6. CASE n # 1
    <2>1. n \in 2 .. Len(frames)
      BY <1>1, <1>6
    <2>2. frames'[n] = frames[n]
      BY <2>1
    <2>3. Owing' = Owing
      BY <1>1, <2>2 DEF Owing
    <2> QED  BY <1>1, <1>4, <2>3
  <1> QED  BY <1>5, <1>6

\* What is to be shown of a step.
SyncAfter ==
    /\ \A i \in 1 .. Len(frames') - 1 : frames'[i].over = FALSE
    /\ SyncOK(mem', Owing')

SyncBefore ==
    /\ SoundInv /\ Apart /\ Running
    /\ \A i \in 1 .. Len(frames) - 1 : frames[i].over = FALSE
    /\ SyncOK(mem, Owing)

\* A line of a code.
LEMMA DefinitionLineSync ==
    ASSUME SyncBefore, DefinitionLine
    PROVE  SyncAfter
  <1>0. TypesInv /\ OpenOK /\ MemoryOK(mem) /\ ~AtEnd /\ FramesOK
    BY DEF SyncBefore, SoundInv, TypesInv, DefinitionLine
  <1>1. /\ program' = program /\ Move(Top.at + 1) /\ mem.defining
        /\ mem' = [mem EXCEPT !.info.lines = Append(@, ThisLine.of)]
    BY DEF DefinitionLine
  <1>2. Len(frames) = 1
    <2>1. ~Opens(Library, mem.info.name)
      BY DEF SyncBefore, Apart, Opens, Opening, Defining, OfCode
    <2> QED  BY <1>0, <1>1, <2>1 DEF OpenOK, SyncBefore, Running
  <1>3. Owing = FALSE
    BY <1>2 DEF Owing
  <1>4. /\ Len(frames') = Len(frames) /\ frames'[1] = [frames[1] EXCEPT !.at = Top.at + 1]
        /\ \A i \in 2 .. Len(frames) : frames'[i] = frames[i]
    BY <1>0, <1>1, ThisLineOK, MoveOK
  <1>5. Owing' = Owing /\ \A i \in 1 .. Len(frames') - 1 : frames'[i].over = FALSE
    BY <1>0, <1>4, OwingSame DEF SyncBefore
  <1>6. /\ mem'.definedvar = mem.definedvar /\ mem'.synced = mem.synced
        /\ mem'.defining = mem.defining /\ mem'.info.name = mem.info.name
        /\ mem'.taken = mem.taken /\ mem'.untold = mem.untold
    BY <1>0, <1>1 DEF MemoryOK, Memory
  <1>7. SyncOK(mem, FALSE)
    BY <1>3 DEF SyncBefore
  <1>8. SyncOK(mem', FALSE)
    BY <1>6, <1>7 DEF SyncOK, Being
  <1> QED  BY <1>3, <1>5, <1>8 DEF SyncAfter

\* A comment.
LEMMA CommentSync ==
    ASSUME SyncBefore, Comment
    PROVE  SyncAfter
  <1>0. TypesInv /\ ~AtEnd /\ FramesOK
    BY DEF SyncBefore, SoundInv, TypesInv, Comment
  <1>1. program' = program /\ Move(Top.at + 1) /\ mem' = mem
    BY DEF Comment
  <1>2. /\ Len(frames') = Len(frames) /\ frames'[1] = [frames[1] EXCEPT !.at = Top.at + 1]
        /\ \A i \in 2 .. Len(frames) : frames'[i] = frames[i]
    BY <1>0, <1>1, ThisLineOK, MoveOK
  <1>3. Owing' = Owing /\ \A i \in 1 .. Len(frames') - 1 : frames'[i].over = FALSE
    BY <1>0, <1>2, OwingSame DEF SyncBefore
  <1>4. SyncOK(mem', Owing')
    BY <1>1, <1>3 DEF SyncBefore
  <1> QED  BY <1>3, <1>4 DEF SyncAfter

\* Any other line.
LEMMA LineSync ==
    ASSUME SyncBefore, Line, outcome' = "running"
    PROVE  SyncAfter
  <1>0. /\ SoundInv /\ TypesInv /\ ~AtEnd /\ MemoryOK(mem) /\ Apart /\ Running
        /\ ThisLine.op # "#" /\ (ThisLine.op = "|" => ~mem.defining)
    BY DEF SyncBefore, SoundInv, TypesInv, Line
  <1>1. PICK r, k : /\ Reread(Flush(mem), k)
                    /\ Settled(k, ThisLine, Top.at, mem.defining, r)
                    /\ mem' = r.mem /\ outcome' = r.outcome
                    /\ Len(frames') = Len(frames)
                    /\ frames'[1] = [frames[1] EXCEPT !.at = After(r.at)]
                    /\ \A i \in 2 .. Len(frames) : frames'[i] = frames[i]
    BY <1>0, LineGives
  <1>2. Owing' = Owing /\ \A i \in 1 .. Len(frames') - 1 : frames'[i].over = FALSE
    BY <1>0, <1>1, OwingSame DEF SyncBefore
  <1>3. /\ mem.defining => ThisLine.op \notin Defining
        /\ Len(frames) # 1 => ~mem.defining /\ ThisLine.op \notin Defining
    <2>1. CASE ThisLine.op = "|"
      <3>1. ThisLine.op \notin Defining
        BY <2>1 DEF Defining, OfCode
      <3> QED  BY <1>0, <2>1, <3>1
    <2>2. CASE ThisLine.op # "|"
      BY <1>0, <2>2, LineApart
    <2> QED  BY <2>1, <2>2
  <1>4. CASE Len(frames) = 1
    <2>1. Owing = FALSE
      BY <1>4 DEF Owing
    <2>2. SyncOK(mem, FALSE)
      BY <2>1 DEF SyncBefore
    <2>3. SyncOK(Flush(mem), mem.defining)
      BY <1>0, <2>2, SyncFlush
    <2>4. mem.defining \in BOOLEAN
      BY <1>0, Zenon DEF MemoryOK, Memory
    <2>5. SyncOK(k, mem.defining)
      BY <1>1, <2>3, <2>4, SyncReread
    <2>6. SyncOK(r.mem, FALSE)
      BY <1>1, <1>3, <2>5, Zenon DEF Settled
    <2> QED  BY <1>1, <1>2, <2>1, <2>6 DEF SyncAfter
  <1>5. CASE Len(frames) # 1
    <2>1. ~mem.defining /\ Flush(mem) = mem
      BY <1>3, <1>5 DEF Flush
    <2>2. Reread(mem, k) /\ Agree(k, r.mem)
      BY <1>1, <1>3, <1>5, <2>1, Zenon DEF Settled
    <2>3. Owing \in BOOLEAN /\ SyncOK(mem, Owing)
      BY <1>0, SyncFrames DEF SyncBefore
    <2>4. SyncOK(k, Owing)
      BY <2>2, <2>3, SyncReread
    <2>5. SyncOK(r.mem, Owing)
      BY <2>2, <2>3, <2>4, SyncAgree
    <2> QED  BY <1>1, <1>2, <2>5 DEF SyncAfter
  <1> QED  BY <1>4, <1>5

\* An import.
LEMMA ImportSync ==
    ASSUME SyncBefore, Import
    PROVE  SyncAfter
  <1>0. /\ SoundInv /\ TypesInv /\ ~AtEnd /\ MemoryOK(mem) /\ Apart /\ Running
        /\ ThisLine.op = "import" /\ mem' \in Reading(Flush(mem), Reads(ThisLine))
    BY DEF SyncBefore, SoundInv, TypesInv, Import
  <1>read. Reread(Flush(mem), mem')
    <2>1. Reads(ThisLine) \in SUBSET Name
      BY <1>0, ThisLineOK, StatementOf
    <2> QED  BY <1>0, <2>1, FlushOK, ReadingOK
  <1>1. PICK n \in Nat \ {0} : n = Len(frames)
    BY <1>0, SyncFrames
  <1>2. /\ Len(frames') = n + 1 /\ frames'[1].over = FALSE /\ frames'[2].over = mem.defining
        /\ \A i \in 3 .. n + 1 : frames'[i] = frames[i - 1]
    <2>1. /\ Len(frames') = n + 1
          /\ frames'[1] = [lines |-> Library, at |-> 0, over |-> FALSE]
          /\ frames'[2] = [frames[1] EXCEPT !.over = mem.defining]
          /\ \A i \in 3 .. n + 1 : frames'[i] = frames[i - 1]
      BY <1>0, <1>1, PushOK
    <2>2. frames[1] \in Frame
      <3>1. 1 \in 1 .. Len(frames)
        BY <1>1
      <3> QED  BY <1>0, <3>1, SyncFrames
    <2> QED  BY <2>1, <2>2 DEF Frame
  <1>3. CASE n = 1
    <2>1. SyncOK(mem, FALSE)
      <3>1. Owing = FALSE
        BY <1>1, <1>3 DEF Owing
      <3> QED  BY <3>1 DEF SyncBefore
    <2>2. SyncOK(Flush(mem), mem.defining)
      BY <1>0, <2>1, SyncFlush
    <2>3. mem.defining \in BOOLEAN
      BY <1>0, Zenon DEF MemoryOK, Memory
    <2>4. Owing' = mem.defining
      BY <1>2, <1>3, <2>3 DEF Owing
    <2>5. \A i \in 1 .. Len(frames') - 1 : frames'[i].over = FALSE
      BY <1>2, <1>3
    <2>6. SyncOK(mem', mem.defining)
      BY <1>read, <2>2, <2>3, SyncReread
    <2> QED  BY <2>4, <2>5, <2>6 DEF SyncAfter
  <1>4. CASE n # 1
    <2>1. ~mem.defining /\ Flush(mem) = mem /\ mem.defining = FALSE
      <3>1. ~mem.defining
        BY <1>0, <1>1, <1>4, LineApart
      <3>2. mem.defining = FALSE
        BY <1>0, <3>1 DEF MemoryOK, Memory
      <3> QED  BY <3>1, <3>2 DEF Flush
    <2>2. frames'[n + 1] = frames[n]
      <3>1. n + 1 \in 3 .. n + 1 /\ (n + 1) - 1 = n
        BY <1>1, <1>4
      <3> QED  BY <1>2, <3>1
    <2>3. Owing' = Owing
      BY <1>1, <1>2, <1>4, <2>2 DEF Owing
    <2>4. ASSUME NEW i \in 1 .. n PROVE frames'[i].over = FALSE
      <3>1. CASE i = 1 \/ i = 2
        BY <1>2, <2>1, <3>1
      <3>2. CASE i # 1 /\ i # 2
        <4>1. i \in 3 .. n + 1 /\ i - 1 \in 1 .. Len(frames) - 1
          BY <1>1, <2>4, <3>2
        <4>2. frames'[i] = frames[i - 1] /\ frames[i - 1].over = FALSE
          BY <1>2, <4>1 DEF SyncBefore
        <4> QED  BY <4>2
      <3> QED  BY <3>1, <3>2
    <2>5. \A i \in 1 .. Len(frames') - 1 : frames'[i].over = FALSE
      <3>1. Len(frames') - 1 = n
        BY <1>1, <1>2
      <3> QED  BY <2>4, <3>1
    <2>6. SyncOK(mem', Owing')
      <3>1. Owing \in BOOLEAN /\ SyncOK(mem, Owing) /\ Reread(mem, mem')
        BY <1>0, <1>read, <2>1, SyncFrames DEF SyncBefore
      <3> QED  BY <2>3, <3>1, SyncReread
    <2> QED  BY <2>5, <2>6 DEF SyncAfter
  <1> QED  BY <1>3, <1>4

\* The end of the program or of the library.
LEMMA EndOfLinesSync ==
    ASSUME SyncBefore, EndOfLines
    PROVE  SyncAfter
  <1>0. SoundInv /\ TypesInv /\ MemoryOK(mem)
    BY DEF SyncBefore, SoundInv, TypesInv
  <1>1. PICK n \in Nat \ {0} : n = Len(frames)
    BY <1>0, SyncFrames
  <1>2. CASE n = 1
    <2>1. frames' = frames /\ mem' = mem
      BY <1>1, <1>2 DEF EndOfLines
    <2>2. Owing' = Owing
      BY <2>1 DEF Owing
    <2> QED  BY <2>1, <2>2 DEF SyncBefore, SyncAfter
  <1>3. CASE n # 1
    <2>1. PICK told \in BOOLEAN : mem' = Commit(mem, frames[2].over, told)
      BY <1>1, <1>3 DEF EndOfLines
    <2>2. /\ Len(frames') = n - 1 /\ frames[2] \in Frame
          /\ frames'[1] = [frames[2] EXCEPT !.at = @ + 1, !.over = FALSE]
          /\ \A i \in 2 .. n - 1 : frames'[i] = frames[i + 1]
      <3>1. 2 \in 1 .. Len(frames)
        BY <1>1, <1>3
      <3> QED  BY <1>0, <1>1, <1>3, <3>1, PopOK, SyncFrames
    <2>3. frames'[1].over = FALSE
      BY <2>2 DEF Frame
    <2>4. ASSUME NEW i \in 1 .. Len(frames') - 1 PROVE frames'[i].over = FALSE
      <3>1. CASE i = 1
        BY <2>3, <3>1
      <3>2. CASE i # 1
        <4>1. i \in 2 .. n - 1 /\ i + 1 \in 1 .. Len(frames) - 1
          BY <1>1, <1>3, <2>2, <2>4, <3>2
        <4> QED  BY <2>2, <4>1 DEF SyncBefore
      <3> QED  BY <3>1, <3>2
    <2>5. CASE n = 2
      <3>1. frames[2].over \in BOOLEAN
        BY <2>2, Zenon DEF Frame
      <3>2. Owing = frames[2].over /\ Owing' = FALSE
        BY <1>1, <2>2, <2>5, <3>1 DEF Owing
      <3>3. SyncOK(mem, frames[2].over)
        BY <3>2 DEF SyncBefore
      <3>4. SyncOK(Commit(mem, frames[2].over, told), FALSE)
        BY <1>0, <3>1, <3>3, SyncCommit
      <3> QED  BY <2>1, <2>4, <3>2, <3>4 DEF SyncAfter
    <2>6. CASE n # 2
      <3>1. /\ 2 \in 1 .. Len(frames) - 1 /\ n - 1 \in 2 .. n - 1 /\ (n - 1) + 1 = n /\ n - 1 # 1
        BY <1>1, <1>3, <2>6
      <3>2. frames[2].over = FALSE /\ frames'[n - 1] = frames[n]
        BY <2>2, <3>1 DEF SyncBefore
      <3>3. mem' = mem
        BY <2>1, <3>2 DEF Commit
      <3>4. Owing' = Owing
        BY <1>1, <1>3, <2>2, <3>1, <3>2 DEF Owing
      <3> QED  BY <2>4, <3>3, <3>4 DEF SyncBefore, SyncAfter
    <2> QED  BY <2>5, <2>6
  <1> QED  BY <1>2, <1>3

\* Every step.
LEMMA SyncNext == SoundInv /\ SyncInv /\ [ColyNext]_<<colyVars, pumpVars>> => SyncInv'
  <1> SUFFICES ASSUME SoundInv, SyncInv, [ColyNext]_<<colyVars, pumpVars>>,
                      Apart', outcome' \in {"running", "ended"}
               PROVE  SyncAfter
    BY DEF SyncInv, SyncAfter, SyncOK, Being
  <1>1. program' = program => Apart
    BY DEF Apart, DefinitionsApart, Follows
  <1>2. CASE DefinitionLine \/ Comment \/ Line \/ Import \/ EndOfLines
    <2>1. program' = program /\ Running /\ outcome = "running"
      BY <1>2 DEF DefinitionLine, Comment, Line, Import, EndOfLines, Running
    <2>2. SyncBefore
      BY <1>1, <2>1 DEF SyncBefore, SyncInv
    <2>3. Line => outcome' = "running"
      <3> SUFFICES ASSUME Line PROVE outcome' = "running"
        OBVIOUS
      <3>1. PICK r : ResultOK(r) /\ outcome' = r.outcome
        BY LineGives DEF Settled, Shaped
      <3> QED  BY <3>1 DEF ResultOK, Outcome
    <2> QED  BY <1>2, <2>2, <2>3, DefinitionLineSync, CommentSync, LineSync, ImportSync, EndOfLinesSync
  <1>3. CASE Threads \/ UNCHANGED <<colyVars, pumpVars>>
    <2>1. program' = program /\ frames' = frames /\ outcome' = outcome /\ mem' = mem
      BY <1>3 DEF Threads, colyVars
    <2>2. Owing' = Owing
      BY <2>1 DEF Owing
    <2> QED  BY <1>1, <2>1, <2>2 DEF SyncInv, SyncAfter
  <1> QED  BY <1>2, <1>3 DEF ColyNext, InterpreterStep

(* For any program and any library: where no definition follows another      *)
(* directly and the library has none, the sync server was told all the lines *)
(* of every code that is complete, unless it did not take them or gave it    *)
(* others.  addressline of Coly.hpp sends "sync var" of its static info when *)
(* the line behind the code has been done, and where that is an import, when *)
(* the imported file has.                                                    *)
THEOREM SyncedAlwaysAgrees == ColySpec => []SyncedAgrees
  <1>1. ColyInit => SyncInv
    <2> SUFFICES ASSUME ColyInit PROVE SyncInv
      OBVIOUS
    <2>1. Len(frames) = 1 /\ \A c \in CodeName : mem.definedvar[c] = Undefined
      BY DEF ColyInit, Name
    <2> QED  BY <2>1 DEF SyncInv, SyncOK
  <1>2. SyncInv => SyncedAgrees
    <2> SUFFICES ASSUME SyncInv, outcome \in {"running", "ended"}, Len(frames) = 1,
                        DefinitionsApart(program),
                        \A i \in DOMAIN Library : Library[i].op \notin Defining,
                        NEW c \in CodeName \ (mem.taken \cup mem.untold), mem.definedvar[c] # Undefined, ~InDefinition(c)
                 PROVE  mem.synced[c] = mem.definedvar[c]
      BY DEF SyncedAgrees
    <2>1. Owing = FALSE
      BY DEF Owing
    <2>2. SyncOK(mem, FALSE)
      BY <2>1 DEF SyncInv, Apart
    <2>3. ~Being(mem, c)
      BY DEF Being, InDefinition
    <2> QED  BY <2>2, <2>3 DEF SyncOK
  <1> QED  BY <1>1, <1>2, SoundInit, SoundNext, SyncNext, PTL DEF ColySpec

=============================================================================

