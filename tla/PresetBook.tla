----------------------------- MODULE PresetBook -----------------------------
(***************************************************************************)
(* What the cleaning presets are to their user: a book of named selections *)
(* with one current name, edited one operation at a time.  Each edit sends *)
(* a whole edition to be kept for the next start; editions are kept in the *)
(* order sent, or lost.  The recommended preset may be supplied by the     *)
(* program when it is missing, is never removed, and choosing a name       *)
(* without applying it sends nothing by itself.                            *)
(***************************************************************************)
EXTENDS Sequences

CONSTANTS Name, Recommended, Selection, Absent

VARIABLES
    book,      \* the selection under each name
    current,   \* the name in use
    sent,      \* the editions to be kept
    kept       \* the one that is

vars == <<book, current, sent, kept>>

Blank == [n \in Name |-> Absent]

BlankEdition == [book |-> Blank, current |-> Recommended]

Init ==
    /\ book = Blank
    /\ current = Recommended
    /\ sent = <<>>
    /\ kept = BlankEdition

\* The book with the recommended preset in it.
Supplied(b) ==
    IF b[Recommended] # Absent THEN {b}
    ELSE {[b EXCEPT ![Recommended] = s] : s \in Selection}

Known(n) == n = Recommended \/ book[n] # Absent

Keep ==
    /\ sent' = Append(sent, [book |-> book', current |-> current'])
    /\ UNCHANGED kept

Put(n, s) ==
    /\ book' = [book EXCEPT ![n] = s]
    /\ current' = n
    /\ Keep

Rename(old, new) ==
    /\ old # Recommended
    /\ book[old] # Absent
    /\ book[new] = Absent
    /\ book' = [book EXCEPT ![new] = book[old], ![old] = Absent]
    /\ current' = IF current = old THEN new ELSE current
    /\ Keep

\* Without its current entry the book falls back to the recommended one.
Delete(n) ==
    /\ n # Recommended
    /\ book[n] # Absent
    /\ LET rest == [book EXCEPT ![n] = Absent] IN
         IF current = n THEN current' = Recommended /\ book' \in Supplied(rest)
                        ELSE current' = current /\ book' = rest
    /\ Keep

Use(n) ==
    /\ Known(n)
    /\ IF n = Recommended THEN book' \in Supplied(book) ELSE book' = book
    /\ current' = n
    /\ Keep

Choose(n) ==
    /\ Known(n)
    /\ current' = n
    /\ UNCHANGED <<book, sent, kept>>

Supply ==
    /\ book' \in Supplied(book)
    /\ UNCHANGED <<current, sent, kept>>

KeepAll ==
    /\ UNCHANGED <<book, current>>
    /\ Keep

\* The next edition replaces the one kept, or is lost, and perhaps both are.
Replace ==
    /\ sent # <<>>
    /\ sent' = Tail(sent)
    /\ kept' \in {Head(sent), kept, BlankEdition}
    /\ UNCHANGED <<book, current>>

\* The book is opened on what was kept, if that can be had.
Reopen ==
    /\ sent' = <<>>
    /\ kept' \in {kept} \cup (IF sent = <<>> THEN {} ELSE {BlankEdition})
    /\ \E found \in {kept', BlankEdition} : book' = found.book /\ current' = found.current

Next ==
    \/ Supply \/ KeepAll \/ Replace \/ Reopen
    \/ \E n \in Name : Delete(n) \/ Use(n) \/ Choose(n)
    \/ \E old, new \in Name : Rename(old, new)
    \/ \E n \in Name, s \in Selection : Put(n, s)

Spec == Init /\ [][Next]_vars

=============================================================================
