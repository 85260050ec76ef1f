------------------------------- MODULE Cleaner -------------------------------
(***************************************************************************)
(* What a tool that cleans folders promises, without searches, recursion,  *)
(* elevation or printed lines: it takes one folder of its list after the   *)
(* other; it deletes only what is in the folder it has come to, and only   *)
(* what it is there for; it counts each deletion, and takes none of        *)
(* another's for its own; and it ends well only if every folder of its     *)
(* list that was there has been cleaned without an error, which leaves     *)
(* nothing in it that was due to go.                                       *)
(***************************************************************************)
EXTENDS Integers, Sequences

CONSTANTS
    Root,       \* the folders there may be
    Entry,      \* what may be in them
    Within,     \* of each folder, the entries in it at any depth
    Target,     \* the files a selective tool is there for
    Tool,       \* the tools
    Selective,  \* those that delete nothing but targets
    Lenient,    \* those that pass over a folder that is not there
    Thorough,   \* those that remove the folder itself in the end
    List        \* of each tool, the folders it cleans, in order

NoTool == "none"

VARIABLES
    roots,      \* the folders there are
    sealed,     \* those whose listing is refused
    entries,    \* the entries there are
    tool,       \* the tool at work
    state,      \* "idle", "between folders", "in a folder", or how it ended:
                \* "well", "badly" or "killed"
    left,       \* the folders it has not finished
    due,        \* what has to go from the folder it is in
    deleted,    \* how many entries it has deleted there
    taken,      \* the entries others have deleted meanwhile
    errors,     \* how many errors it has counted there
    failed      \* it has met an error before

vars == <<roots, sealed, entries, tool, state, left, due, deleted, taken, errors, failed>>

folderVars == <<due, deleted, taken, errors>>

Ended == {"well", "badly", "killed"}

Init ==
    /\ roots \in SUBSET Root
    /\ sealed \in SUBSET Root
    /\ entries \in SUBSET Entry
    /\ tool = NoTool
    /\ state = "idle"
    /\ left = <<>>
    /\ due = {} /\ deleted = 0 /\ taken = {} /\ errors = 0
    /\ failed = FALSE

\* What may be deleted in folder r, and what has to be gone if nothing fails.
Scope(r) == IF tool \in Selective THEN Within[r] \cap Target ELSE Within[r]

Due(r) == IF tool \in Selective \/ r \in sealed THEN {} ELSE Within[r] \cap entries

Start(t) ==
    /\ state = "idle"
    /\ tool' = t
    /\ state' = "between folders"
    /\ left' = List[t]
    /\ UNCHANGED <<roots, sealed, entries, folderVars, failed>>

\* Nothing is cleaned.
Refuse ==
    /\ state = "between folders"
    /\ left = List[tool]
    /\ state' = "badly"
    /\ UNCHANGED <<roots, sealed, entries, tool, left, folderVars, failed>>

\* A folder that is not there, or that may not be cleaned.
PassOver ==
    /\ state = "between folders"
    /\ left # <<>>
    /\ left' = Tail(left)
    /\ \/ failed' = TRUE
       \/ tool \in Lenient /\ Head(left) \notin roots /\ UNCHANGED failed
    /\ UNCHANGED <<roots, sealed, entries, tool, state, folderVars>>

Enter ==
    /\ state = "between folders"
    /\ left # <<>>
    /\ Head(left) \in roots
    /\ state' = "in a folder"
    /\ due' = Due(Head(left))
    /\ UNCHANGED <<roots, sealed, entries, tool, left, deleted, taken, errors, failed>>

Delete(e) ==
    /\ state = "in a folder"
    /\ e \in entries \cap Scope(Head(left))
    /\ entries' = entries \ {e}
    /\ due' = due \ {e}
    /\ deleted' = deleted + 1
    /\ UNCHANGED <<roots, sealed, tool, state, left, taken, errors, failed>>

CountError ==
    /\ state = "in a folder"
    /\ errors' = errors + 1
    /\ UNCHANGED <<roots, sealed, entries, tool, state, left, due, deleted, taken, failed>>

\* Without an error nothing is left of what was due.
Finish ==
    /\ state = "in a folder"
    /\ errors = 0 => due = {}
    /\ failed' = (failed \/ errors > 0)
    /\ \/ UNCHANGED roots
       \/ /\ tool \in Thorough
          /\ Within[Head(left)] \cap entries = {}
          /\ roots' = roots \ {Head(left)}
    /\ left' = Tail(left)
    /\ state' = "between folders"
    /\ due' = {} /\ deleted' = 0 /\ taken' = {} /\ errors' = 0
    /\ UNCHANGED <<sealed, entries, tool>>

End ==
    /\ state = "between folders"
    /\ left = <<>>
    /\ state' = IF failed THEN "badly" ELSE "well"
    /\ UNCHANGED <<roots, sealed, entries, tool, left, folderVars, failed>>

Kill ==
    /\ state # "idle"
    /\ state \notin Ended
    /\ state' = "killed"
    /\ due' = {} /\ deleted' = 0 /\ taken' = {} /\ errors' = 0
    /\ UNCHANGED <<roots, sealed, entries, tool, left, failed>>

Dismiss ==
    /\ state \in Ended
    /\ tool' = NoTool
    /\ state' = "idle"
    /\ left' = <<>>
    /\ failed' = FALSE
    /\ UNCHANGED <<roots, sealed, entries, folderVars>>

\* Others, who are looked at only while a folder is cleaned.  What appears then is
\* not due to go.
Appear(e) ==
    /\ state = "in a folder"
    /\ e \notin entries
    /\ entries' = entries \cup {e}
    /\ UNCHANGED <<roots, sealed, tool, state, left, folderVars, failed>>

Vanish(e) ==
    /\ state = "in a folder"
    /\ e \in entries
    /\ entries' = entries \ {e}
    /\ due' = due \ {e}
    /\ taken' = taken \cup {e}
    /\ UNCHANGED <<roots, sealed, tool, state, left, deleted, errors, failed>>

Next ==
    \/ \E t \in Tool : Start(t)
    \/ Refuse \/ PassOver \/ Enter
    \/ \E e \in Entry : Delete(e)
    \/ CountError \/ Finish \/ End \/ Kill \/ Dismiss
    \/ \E e \in Entry : Appear(e) \/ Vanish(e)

Spec == Init /\ [][Next]_vars

=============================================================================
