----------------------------- MODULE FolderWalk -----------------------------
(***************************************************************************)
(* The directory walks of the cleaning tools (src/src-tauri/Tools:         *)
(* DeleteDirectoryContents in common.h, WalkAndDelete in                   *)
(* clean_tmp_files.cpp) over a file system that other processes go on      *)
(* using: they open and close files, create new ones and delete theirs     *)
(* between any two calls of the walk.                                      *)
(*                                                                         *)
(* The recursion is a stack of open searches.  A search returns each entry *)
(* that was there when it was opened, deleted since or not, and an entry   *)
(* created later or not.  Links to directories are outside the model.      *)
(***************************************************************************)
EXTENDS Integers, Sequences, FiniteSets, SequencesExt

CONSTANTS
    Root,       \* the folders the tools are told to clean
    Dir, File,  \* the directories and files that may be in them
    Target,     \* the files .tmp, .cache and .msp
    Parent,     \* the directory or root each of them is in
    MaxInUse    \* a bound on the entries open at a time

ASSUME TreeAssumption ==
    /\ Parent \in [Dir \cup File -> Root \cup Dir]
    /\ Target \subseteq File
    /\ Root \cap (Dir \cup File) = {}
    /\ Dir \cap File = {}
    /\ IsFiniteSet(Dir \cup File)

Entry == Dir \cup File

VARIABLES
    roots,      \* the roots there are
    present,    \* the entries there are
    inUse,      \* those that cannot be deleted now
    unlistable, \* the roots and directories whose listing is refused
    mode,       \* "contents" or "targets": which of the two walks runs
    stack,      \* the open searches, innermost first
    fileCount, dirCount, errorCount,    \* the global counters
    before,     \* the entries there were when the counters were last reset
    created,    \* the entries created since
    vanished    \* the entries other processes have deleted since

treeVars == <<roots, present, inUse, unlistable>>
walkVars == <<mode, stack, fileCount, dirCount, errorCount>>
ghostVars == <<before, created, vanished>>
folderVars == <<treeVars, walkVars, ghostVars>>

Search == [dir : Root \cup Dir, todo : SUBSET Entry]

FolderTypeOK ==
    /\ roots \subseteq Root
    /\ present \subseteq Entry
    /\ inUse \subseteq present
    /\ unlistable \subseteq Root \cup Dir
    /\ mode \in {"contents", "targets"}
    /\ stack \in Seq(Search)
    /\ {fileCount, dirCount, errorCount} \subseteq 0..Cardinality(Entry)
    /\ {before, created, vanished} \subseteq SUBSET Entry

Exists(x) == x \in roots \cup present

Children(d) == {e \in present : Parent[e] = d}

\* e is in d, at any depth: it is in every set that holds what is in d or in one
\* of its members.
Under(e, d) ==
    \A S \in SUBSET Entry :
        (\A x \in Entry : Parent[x] \in S \cup {d} => x \in S) => e \in S

\* A tree: what is in a directory is only there with the directory.
Grounded(entries, top) == \A e \in entries : Parent[e] \in top \cup entries

FolderInit ==
    /\ roots \in SUBSET Root
    /\ present \in {p \in SUBSET Entry : Grounded(p, roots)}
    /\ inUse = {}
    /\ unlistable \in {u \in SUBSET (Root \cup Dir) : Cardinality(u) <= 1}
    /\ mode = "contents"
    /\ stack = <<>>
    /\ fileCount = 0 /\ dirCount = 0 /\ errorCount = 0
    /\ before = {} /\ created = {} /\ vanished = {}

-----------------------------------------------------------------------------
(* The walk.  An operator with a prime in it leaves treeVars other than    *)
(* present, and the ghosts, to its caller.                                 *)

\* FindFirstFile(dir): the search it opens, none if the listing is refused.
Opened(dir) ==
    IF Exists(dir) /\ dir \notin unlistable
      THEN <<[dir |-> dir, todo |-> Children(dir)]>>
      ELSE <<>>

\* g_fileCount = g_dirCount = g_errorCount = 0, and the walk of a root.
StartWalk(dir, m) ==
    /\ fileCount' = 0 /\ dirCount' = 0 /\ errorCount' = 0
    /\ mode' = m
    /\ stack' = Opened(dir)
    /\ before' = present
    /\ created' = {} /\ vanished' = {}
    /\ UNCHANGED treeVars

\* The process ends, and its counters with it.
ForgetWalk ==
    /\ mode' = "contents"
    /\ stack' = <<>>
    /\ fileCount' = 0 /\ dirCount' = 0 /\ errorCount' = 0
    /\ before' = {} /\ created' = {} /\ vanished' = {}
    /\ UNCHANGED treeVars

Walking == stack # <<>>

\* The search on top goes on without e, below the searches in first.
GoOn(e, first) ==
    stack' = first \o <<[Head(stack) EXCEPT !.todo = @ \ {e}]>> \o Tail(stack)

\* DeleteFileW and RemoveDirectoryW.
Deletable(e) ==
    /\ e \in present \ inUse
    /\ Children(e) = {}

\* A directory is counted whether or not it could be removed.
DeleteUnchecked(e) ==
    /\ IF Deletable(e)
         THEN present' = present \ {e}
         ELSE UNCHANGED present
    /\ fileCount' = fileCount + (IF e \in File /\ Deletable(e) THEN 1 ELSE 0)
    /\ dirCount' = dirCount + (IF e \in Dir THEN 1 ELSE 0)
    /\ errorCount' = errorCount + (IF e \in File /\ ~Deletable(e) THEN 1 ELSE 0)
    /\ UNCHANGED <<roots, inUse, unlistable, mode, ghostVars>>

Delete(e) ==
    /\ IF Deletable(e)
         THEN /\ present' = present \ {e}
              /\ fileCount' = fileCount + (IF e \in File THEN 1 ELSE 0)
              /\ dirCount' = dirCount + (IF e \in Dir THEN 1 ELSE 0)
              /\ UNCHANGED errorCount
         ELSE /\ errorCount' = errorCount + 1
              /\ UNCHANGED <<present, fileCount, dirCount>>
    /\ UNCHANGED <<roots, inUse, unlistable, mode, ghostVars>>

\* Without IsTargetFile.
VisitAnyFile(e) ==
    /\ Walking
    /\ e \in Head(stack).todo \cap File
    /\ GoOn(e, <<>>)
    /\ Delete(e)

\* The search returns a file: it is deleted, unless only targets are and it is
\* none.
VisitFile(e) ==
    /\ Walking
    /\ e \in Head(stack).todo \cap File
    /\ GoOn(e, <<>>)
    /\ IF mode = "contents" \/ e \in Target
         THEN Delete(e)
         ELSE UNCHANGED <<treeVars, mode, fileCount, dirCount, errorCount, ghostVars>>

\* It returns a directory: its own search is opened above, if it can be.
VisitDir(e) ==
    /\ Walking
    /\ e \in Head(stack).todo \cap Dir
    /\ Opened(e) # <<>>
    /\ GoOn(e, Opened(e))
    /\ UNCHANGED <<treeVars, mode, fileCount, dirCount, errorCount, ghostVars>>

\* It is left alone, and so is not found undeletable.
PassUnlistable(e) ==
    /\ Walking
    /\ e \in Head(stack).todo \cap Dir
    /\ Opened(e) = <<>>
    /\ GoOn(e, <<>>)
    /\ UNCHANGED <<treeVars, mode, fileCount, dirCount, errorCount, ghostVars>>

\* It returns a directory that cannot be listed: nothing is said of that, but
\* removing it is tried.
VisitUnlistable(e) ==
    /\ Walking
    /\ e \in Head(stack).todo \cap Dir
    /\ Opened(e) = <<>>
    /\ GoOn(e, <<>>)
    /\ IF mode = "contents"
         THEN Delete(e)
         ELSE UNCHANGED <<treeVars, mode, fileCount, dirCount, errorCount, ghostVars>>

\* FindNextFile finds no more: the search of a root ends the walk, that of a
\* directory is followed by the directory's removal.
CloseSearch ==
    /\ Walking
    /\ Head(stack).todo = {}
    /\ stack' = Tail(stack)
    /\ IF Head(stack).dir \in Dir /\ mode = "contents"
         THEN Delete(Head(stack).dir)
         ELSE UNCHANGED <<treeVars, mode, fileCount, dirCount, errorCount, ghostVars>>

WalkStep ==
    \/ \E e \in Entry : VisitFile(e) \/ VisitDir(e) \/ VisitUnlistable(e)
    \/ CloseSearch

-----------------------------------------------------------------------------
(* Other processes.                                                        *)

Use(e) ==
    /\ e \in present \ inUse
    /\ Cardinality(inUse) < MaxInUse
    /\ inUse' = inUse \cup {e}
    /\ UNCHANGED <<roots, present, unlistable, walkVars, ghostVars>>

Release(e) ==
    /\ e \in inUse
    /\ inUse' = inUse \ {e}
    /\ UNCHANGED <<roots, present, unlistable, walkVars, ghostVars>>

\* A new entry, which an open search of its directory returns or not.  A name
\* that was there at the start of the walk is not used again during it.
Create(e) ==
    /\ e \notin present \cup before \cup created
    /\ Exists(Parent[e])
    /\ present' = present \cup {e}
    /\ created' = created \cup {e}
    /\ \/ UNCHANGED stack
       \/ \E i \in DOMAIN stack :
            /\ stack[i].dir = Parent[e]
            /\ stack' = [stack EXCEPT ![i].todo = @ \cup {e}]
    /\ UNCHANGED <<roots, inUse, unlistable, mode, fileCount, dirCount,
                   errorCount, before, vanished>>

\* A file its owner deletes.
Vanish(e) ==
    /\ e \in (present \ inUse) \cap File
    /\ present' = present \ {e}
    /\ vanished' = vanished \cup {e}
    /\ UNCHANGED <<roots, inUse, unlistable, walkVars, before, created>>

Others == \E e \in Entry : Use(e) \/ Release(e) \/ Create(e) \/ Vanish(e)

=============================================================================
