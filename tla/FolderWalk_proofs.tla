-------------------------- MODULE FolderWalk_proofs --------------------------
(***************************************************************************)
(* What the walks of module FolderWalk keep, for any tree and whatever     *)
(* other processes do to it: the facts that CleaningTools_proofs builds    *)
(* on.                                                                     *)
(***************************************************************************)
EXTENDS FolderWalk, FiniteSetTheorems, SequenceTheorems, TLAPS

\* The tree, and the walk's state, outside a walk and during it.
TreeInv ==
    /\ roots \subseteq Root
    /\ present \subseteq Entry
    /\ inUse \subseteq present
    /\ unlistable \subseteq Root \cup Dir
    /\ mode \in {"contents", "targets"}
    /\ stack \in Seq(Search)
    /\ fileCount \in Nat /\ dirCount \in Nat /\ errorCount \in Nat
    /\ before \subseteq Entry /\ created \subseteq Entry /\ vanished \subseteq Entry
    /\ Grounded(present, roots)

\* Where the searches are, and what they have yet to return.
Dirs == {stack[i].dir : i \in DOMAIN stack}
Todos == UNION {stack[i].todo : i \in DOMAIN stack}

\* The searches are a path to a root, and each will return what is in its own
\* directory.
StackInv ==
    /\ Dirs \subseteq Root \cup before \cup created
    /\ Todos \subseteq (before \cup created) \ Dirs
    /\ \A i \in DOMAIN stack :
        /\ \A e \in stack[i].todo : Parent[e] = stack[i].dir
        /\ i < Len(stack) => stack[i].dir \in Dir /\ Parent[stack[i].dir] = stack[i + 1].dir
        /\ i = Len(stack) => stack[i].dir \in Root
        /\ \A j \in DOMAIN stack : stack[i].dir = stack[j].dir => i = j

\* What was there or came, and what of it the walk has deleted.
Known == before \cup created
Gone == Known \ (vanished \cup present)

\* What the walk may still come upon: what will be returned or may yet come, and
\* what is under that, and the directories it is in.
Waiting == Todos \cup (Entry \ Known)
Ahead == {x \in Entry : x \in Waiting \cup Dirs \/ \E a \in Waiting : Under(x, a)}

KnownInv ==
    /\ present \cup vanished \subseteq Known
    /\ present \cap vanished = {}
    /\ Grounded(Known, Root)

\* What is deleted is counted, and not come upon again; an error is of an entry
\* that is not deleted, and not come upon again.
CountInv ==
    /\ fileCount + dirCount = Cardinality(Gone)
    /\ Gone \cap Ahead = {}
    /\ errorCount <= Cardinality(Known \ (Gone \cup Ahead))

\* The walk will come upon e.
Found(e) == e \in Todos \cup Dirs \/ \E a \in Todos : Under(e, a)

\* As long as there was no error, the walk of d will come upon whatever is left
\* in it.
ListedInv(d) ==
    mode = "contents" /\ errorCount = 0 /\ d \notin unlistable =>
        \A e \in before \cap present : Under(e, d) => Found(e)

WalkInv(d) == StackInv /\ KnownInv /\ CountInv /\ ListedInv(d)

-----------------------------------------------------------------------------
(* Trees.                                                                  *)

\* What is in d, and what is in something under d, is under d.
LEMMA UnderChild ==
    ASSUME NEW e \in Entry, NEW d, Parent[e] = d \/ (Parent[e] \in Entry /\ Under(Parent[e], d))
    PROVE  Under(e, d)
  BY DEF Under

\* What is under d is in every set of entries that holds what is in d or in one
\* of its members.
LEMMA UnderInduction ==
    ASSUME NEW e, NEW d, Under(e, d),
           NEW S \in SUBSET Entry, \A x \in Entry : Parent[x] \in S \cup {d} => x \in S
    PROVE  e \in S
  BY DEF Under

\* Nothing is under a file.
LEMMA NothingUnderFile ==
    ASSUME NEW e, NEW d \in File
    PROVE  ~Under(e, d)
  <1>1. \A x \in Entry : Parent[x] # d
    BY TreeAssumption DEF Entry
  <1> DEFINE S == {}
  <1>2. S \in SUBSET Entry /\ \A x \in Entry : Parent[x] \in S \cup {d} => x \in S
    BY <1>1
  <1> HIDE DEF S
  <1>3. Under(e, d) => e \in S
    BY <1>2, UnderInduction
  <1> QED  BY <1>3 DEF S

\* What is present under d is in d or under something present in d.
LEMMA UnderByChild ==
    ASSUME Grounded(present, roots), roots \subseteq Root, present \subseteq Entry,
           NEW e \in present, NEW d, Under(e, d)
    PROVE  \E c \in Children(d) : e = c \/ Under(e, c)
  <1> DEFINE S == {x \in Entry : x \in present => \E c \in Children(d) : x = c \/ Under(x, c)}
  <1>1. ASSUME NEW x \in Entry, Parent[x] \in S \cup {d}, x \in present
        PROVE  \E c \in Children(d) : x = c \/ Under(x, c)
    <2>1. CASE Parent[x] = d
      BY <1>1, <2>1 DEF Children
    <2>2. CASE Parent[x] # d
      <3>1. Parent[x] \in S /\ Parent[x] \in Entry
        BY <1>1, <2>2
      <3>2. Parent[x] \in present
        BY <1>1, <3>1, TreeAssumption DEF Grounded, Entry
      <3>3. PICK c \in Children(d) : Parent[x] = c \/ Under(Parent[x], c)
        BY <3>1, <3>2
      <3>4. Under(x, c)
        BY <3>1, <3>3, UnderChild
      <3> QED  BY <3>3, <3>4
    <2> QED  BY <2>1, <2>2
  <1>2. \A x \in Entry : Parent[x] \in S \cup {d} => x \in S
    BY <1>1
  <1>3. S \in SUBSET Entry
    OBVIOUS
  <1> HIDE DEF S
  <1>4. e \in S
    BY <1>2, <1>3, UnderInduction
  <1> QED  BY <1>4 DEF S

\* If what is in a set has its parent there or is in a root, nothing of it is
\* under what is not there.
LEMMA UnderOutside ==
    ASSUME NEW K \in SUBSET Entry, Grounded(K, Root), NEW e \in K, NEW a \in Entry, a \notin K
    PROVE  ~Under(e, a)
  <1> DEFINE S == Entry \ K
  <1>1. \A x \in Entry : Parent[x] \in S \cup {a} => x \in S
    BY TreeAssumption DEF Grounded, Entry
  <1> HIDE DEF S
  <1>2. Under(e, a) => e \in S
    BY <1>1, UnderInduction DEF S
  <1> QED  BY <1>2 DEF S

\* Deleting what holds nothing leaves a tree.
LEMMA StillGrounded ==
    ASSUME Grounded(present, roots), NEW e, Children(e) = {}
    PROVE  Grounded(present \ {e}, roots)
  BY DEF Grounded, Children

-----------------------------------------------------------------------------
(* The stack of searches.                                                  *)

\* The search on top.
LEMMA TopSearch ==
    ASSUME stack \in Seq(Search), Walking
    PROVE  /\ Len(stack) \in Nat \ {0}
           /\ 1 \in DOMAIN stack
           /\ Head(stack) = stack[1]
           /\ stack[1] \in Search
           /\ stack[1].dir \in Dirs
           /\ stack[1].todo \subseteq Todos
  <1>1. Len(stack) \in Nat /\ Len(stack) # 0 /\ DOMAIN stack = 1 .. Len(stack)
    BY DEF Walking
  <1>2. Head(stack) = stack[1]
    BY <1>1
  <1>3. stack[1] \in Search
    BY <1>1
  <1> QED  BY <1>1, <1>2, <1>3 DEF Dirs, Todos

\* A search without one of its entries.
LEMMA Without ==
    ASSUME NEW s \in Search, NEW e, NEW t, t = [s EXCEPT !.todo = @ \ {e}]
    PROVE  t \in Search /\ t.dir = s.dir /\ t.todo = s.todo \ {e}
  BY DEF Search

\* GoOn(e, <<>>).
LEMMA GoOnIs ==
    ASSUME stack \in Seq(Search), Walking, NEW e, GoOn(e, <<>>)
    PROVE  /\ stack' \in Seq(Search)
           /\ Len(stack') = Len(stack)
           /\ \A i \in 1 .. Len(stack) :
                /\ stack'[i].dir = stack[i].dir
                /\ stack'[i].todo = (IF i = 1 THEN stack[i].todo \ {e} ELSE stack[i].todo)
  <1> DEFINE top == [Head(stack) EXCEPT !.todo = @ \ {e}]
  <1>1. top \in Search /\ top.dir = stack[1].dir /\ top.todo = stack[1].todo \ {e}
    BY TopSearch, Without
  <1>2. stack' = <<>> \o <<top>> \o Tail(stack)
    BY DEF GoOn
  <1> HIDE DEF top
  <1>3. Len(stack) \in Nat \ {0}
    BY TopSearch
  <1>4. Tail(stack) \in Seq(Search) /\ Len(Tail(stack)) = Len(stack) - 1
        /\ \A i \in 1 .. Len(stack) - 1 : Tail(stack)[i] = stack[i + 1]
    BY <1>3
  <1>5. <<>> \o <<top>> = <<top>>
    BY <1>1
  <1>6. stack' = <<top>> \o Tail(stack)
    BY <1>2, <1>5
  <1>7. stack' \in Seq(Search) /\ Len(stack') = Len(stack)
    BY <1>1, <1>3, <1>4, <1>6
  <1>8. stack'[1] = top
    BY <1>1, <1>3, <1>4, <1>6
  <1>9. \A i \in 2 .. Len(stack) : stack'[i] = stack[i]
    BY <1>1, <1>3, <1>4, <1>6
  <1>10. \A i \in 1 .. Len(stack) : i = 1 \/ i \in 2 .. Len(stack)
    BY <1>3
  <1> QED  BY <1>1, <1>7, <1>8, <1>9, <1>10

\* GoOn(e, <<new>>).
LEMMA GoOnAboveIs ==
    ASSUME stack \in Seq(Search), Walking, NEW e, NEW new \in Search, GoOn(e, <<new>>)
    PROVE  /\ stack' \in Seq(Search)
           /\ Len(stack') = Len(stack) + 1
           /\ stack'[1] = new
           /\ \A i \in 1 .. Len(stack) :
                /\ stack'[i + 1].dir = stack[i].dir
                /\ stack'[i + 1].todo = (IF i = 1 THEN stack[i].todo \ {e} ELSE stack[i].todo)
  <1> DEFINE top == [Head(stack) EXCEPT !.todo = @ \ {e}]
  <1>1. top \in Search /\ top.dir = stack[1].dir /\ top.todo = stack[1].todo \ {e}
    BY TopSearch, Without
  <1>2. stack' = <<new>> \o <<top>> \o Tail(stack)
    BY DEF GoOn
  <1> HIDE DEF top
  <1>3. Len(stack) \in Nat \ {0}
    BY TopSearch
  <1>4. Tail(stack) \in Seq(Search) /\ Len(Tail(stack)) = Len(stack) - 1
        /\ \A i \in 1 .. Len(stack) - 1 : Tail(stack)[i] = stack[i + 1]
    BY <1>3
  <1> DEFINE two == <<new>> \o <<top>>
  <1>5. two \in Seq(Search) /\ Len(two) = 2 /\ two[1] = new /\ two[2] = top
    BY <1>1
  <1>6. stack' = two \o Tail(stack)
    BY <1>2
  <1> HIDE DEF two
  <1>7. /\ stack' \in Seq(Search)
        /\ Len(stack') = Len(stack) + 1
        /\ \A i \in 1 .. Len(stack) + 1 :
             stack'[i] = IF i <= 2 THEN two[i] ELSE Tail(stack)[i - 2]
    <2>1. /\ two \o Tail(stack) \in Seq(Search)
          /\ Len(two \o Tail(stack)) = Len(two) + Len(Tail(stack))
          /\ \A i \in 1 .. Len(two) + Len(Tail(stack)) :
               (two \o Tail(stack))[i] = IF i <= Len(two) THEN two[i] ELSE Tail(stack)[i - Len(two)]
      BY <1>4, <1>5, ConcatProperties
    <2>2. Len(two) + Len(Tail(stack)) = Len(stack) + 1
      BY <1>3, <1>4, <1>5
    <2> QED  BY <1>5, <1>6, <2>1, <2>2
  <1>8. stack'[1] = new /\ stack'[2] = top
    BY <1>3, <1>5, <1>7
  <1>9. \A i \in 2 .. Len(stack) : stack'[i + 1] = stack[i]
    BY <1>3, <1>4, <1>7
  <1>10. \A i \in 1 .. Len(stack) : i = 1 \/ i \in 2 .. Len(stack)
    BY <1>3
  <1>11. ASSUME NEW i \in 1 .. Len(stack)
         PROVE  /\ stack'[i + 1].dir = stack[i].dir
                /\ stack'[i + 1].todo = (IF i = 1 THEN stack[i].todo \ {e} ELSE stack[i].todo)
    <2>1. CASE i = 1
      <3>1. stack'[i + 1] = top
        BY <1>8, <2>1
      <3> QED  BY <1>1, <2>1, <3>1
    <2>2. CASE i \in 2 .. Len(stack)
      <3>1. stack'[i + 1] = stack[i] /\ i # 1
        BY <1>9, <2>2
      <3> QED  BY <3>1
    <2> QED  BY <1>10, <2>1, <2>2
  <1> QED  BY <1>7, <1>8, <1>11

\* The search on top is closed.
LEMMA PopIs ==
    ASSUME stack \in Seq(Search), Walking, stack' = Tail(stack)
    PROVE  /\ stack' \in Seq(Search)
           /\ Len(stack') = Len(stack) - 1
           /\ \A i \in 1 .. Len(stack) - 1 : stack'[i] = stack[i + 1]
  BY TopSearch

\* An entry that returns is in the search on top only, and what is above and under
\* it is known: nothing that is on the path to the root or will return is above it.
LEMMA OnceReturned ==
    ASSUME TreeInv, StackInv, Walking, NEW e \in Head(stack).todo
    PROVE  /\ e \in Todos \ Dirs
           /\ \A i \in DOMAIN stack : e \in stack[i].todo => i = 1
           /\ Parent[e] = stack[1].dir
  <1>1. /\ 1 \in DOMAIN stack /\ Head(stack) = stack[1] /\ stack[1].todo \subseteq Todos
    BY TopSearch DEF TreeInv
  <1>2. Parent[e] = stack[1].dir
    BY <1>1 DEF StackInv
  <1>3. ASSUME NEW i \in DOMAIN stack, e \in stack[i].todo PROVE i = 1
    BY <1>1, <1>2, <1>3 DEF StackInv
  <1> QED  BY <1>1, <1>2, <1>3 DEF StackInv
\* The search on top goes on without e.
LEMMA AdvanceInv ==
    ASSUME TreeInv, StackInv, Walking, NEW e \in Head(stack).todo, GoOn(e, <<>>),
           UNCHANGED <<before, created>>
    PROVE  /\ stack' \in Seq(Search)
           /\ StackInv'
           /\ Dirs' = Dirs
           /\ Todos' = Todos \ {e}
  <1>1. /\ stack' \in Seq(Search)
        /\ Len(stack') = Len(stack)
        /\ \A i \in 1 .. Len(stack) :
             /\ stack'[i].dir = stack[i].dir
             /\ stack'[i].todo = (IF i = 1 THEN stack[i].todo \ {e} ELSE stack[i].todo)
    BY GoOnIs DEF TreeInv
  <1>2. DOMAIN stack = 1 .. Len(stack) /\ DOMAIN stack' = 1 .. Len(stack) /\ Len(stack) \in Nat
    BY <1>1 DEF TreeInv
  <1>3. Dirs' = Dirs
    <2>1. \A i \in DOMAIN stack : stack'[i].dir = stack[i].dir
      BY <1>1, <1>2
    <2>2. \A x : x \in Dirs' <=> \E i \in DOMAIN stack : x = stack[i].dir
      BY <1>2, <2>1 DEF Dirs
    <2> QED  BY <2>2 DEF Dirs
  <1>4. \A i \in DOMAIN stack : stack'[i].todo = stack[i].todo \ {e}
    <2> SUFFICES ASSUME NEW i \in DOMAIN stack PROVE stack'[i].todo = stack[i].todo \ {e}
      OBVIOUS
    <2>1. CASE i = 1
      BY <1>1, <1>2, <2>1
    <2>2. CASE i # 1
      <3>1. e \notin stack[i].todo
        BY <2>2, OnceReturned
      <3>2. stack'[i].todo = stack[i].todo
        BY <1>1, <1>2, <2>2
      <3> QED  BY <3>1, <3>2
    <2> QED  BY <2>1, <2>2
  <1>5. Todos' = Todos \ {e}
    <2>1. \A x : x \in Todos' <=> \E i \in DOMAIN stack : x \in stack[i].todo \ {e}
      BY <1>2, <1>4 DEF Todos
    <2> QED  BY <2>1 DEF Todos
  <1>6. StackInv'
    <2>1. Dirs' \subseteq (Root \cup before \cup created)' /\ Todos' \subseteq ((before \cup created) \ Dirs)'
      BY <1>3, <1>5 DEF StackInv
    <2>2. ASSUME NEW i \in DOMAIN stack'
          PROVE  /\ \A x \in stack'[i].todo : Parent[x] = stack'[i].dir
                 /\ i < Len(stack') => stack'[i].dir \in Dir /\ Parent[stack'[i].dir] = stack'[i + 1].dir
                 /\ i = Len(stack') => stack'[i].dir \in Root
                 /\ \A j \in DOMAIN stack' : stack'[i].dir = stack'[j].dir => i = j
      <3>1. i \in DOMAIN stack /\ i \in 1 .. Len(stack)
        BY <1>2, <2>2
      <3>2. \A x \in stack'[i].todo : Parent[x] = stack'[i].dir
        BY <1>1, <1>4, <3>1 DEF StackInv
      <3>3. i < Len(stack') => stack'[i].dir \in Dir /\ Parent[stack'[i].dir] = stack'[i + 1].dir
        <4>1. i < Len(stack) => i + 1 \in 1 .. Len(stack)
          BY <1>2, <3>1
        <4> QED  BY <1>1, <3>1, <4>1 DEF StackInv
      <3>4. i = Len(stack') => stack'[i].dir \in Root
        BY <1>1, <3>1 DEF StackInv
      <3>5. \A j \in DOMAIN stack' : stack'[i].dir = stack'[j].dir => i = j
        BY <1>1, <1>2, <3>1 DEF StackInv
      <3> QED  BY <3>2, <3>3, <3>4, <3>5
    <2> QED  BY <2>1, <2>2 DEF StackInv
  <1> QED  BY <1>1, <1>3, <1>5, <1>6

\* The search on top, which has nothing to return, is closed.
LEMMA PopInv ==
    ASSUME TreeInv, StackInv, Walking, Head(stack).todo = {}, stack' = Tail(stack),
           UNCHANGED <<before, created>>
    PROVE  /\ stack' \in Seq(Search)
           /\ StackInv'
           /\ Dirs' = Dirs \ {Head(stack).dir}
           /\ Todos' = Todos
  <1>1. /\ stack' \in Seq(Search)
        /\ Len(stack') = Len(stack) - 1
        /\ \A i \in 1 .. Len(stack) - 1 : stack'[i] = stack[i + 1]
    BY PopIs DEF TreeInv
  <1>2. /\ Len(stack) \in Nat \ {0} /\ Head(stack) = stack[1] /\ 1 \in DOMAIN stack
        /\ DOMAIN stack = 1 .. Len(stack) /\ DOMAIN stack' = 1 .. Len(stack) - 1
    BY <1>1, TopSearch DEF TreeInv
  <1>3. \A i \in DOMAIN stack' : i + 1 \in DOMAIN stack /\ stack'[i] = stack[i + 1] /\ i + 1 # 1
    BY <1>1, <1>2
  <1>4. \A k \in DOMAIN stack : k = 1 \/ (k - 1 \in DOMAIN stack' /\ stack'[k - 1] = stack[k])
    BY <1>1, <1>2
  <1>5. Dirs' = Dirs \ {stack[1].dir}
    <2>1. ASSUME NEW d \in Dirs' PROVE d \in Dirs \ {stack[1].dir}
      <3>1. PICK i \in DOMAIN stack' : d = stack'[i].dir
        BY <2>1 DEF Dirs
      <3>2. i + 1 \in DOMAIN stack /\ d = stack[i + 1].dir /\ i + 1 # 1
        BY <1>3, <3>1
      <3> QED  BY <1>2, <3>2 DEF Dirs, StackInv
    <2>2. ASSUME NEW d \in Dirs \ {stack[1].dir} PROVE d \in Dirs'
      <3>1. PICK k \in DOMAIN stack : d = stack[k].dir /\ k # 1
        BY <2>2 DEF Dirs
      <3>2. k - 1 \in DOMAIN stack' /\ d = stack'[k - 1].dir
        BY <1>4, <3>1
      <3> QED  BY <3>2 DEF Dirs
    <2> QED  BY <2>1, <2>2
  <1>6. Todos' = Todos
    <2>1. ASSUME NEW x \in Todos' PROVE x \in Todos
      <3>1. PICK i \in DOMAIN stack' : x \in stack'[i].todo
        BY <2>1 DEF Todos
      <3>2. i + 1 \in DOMAIN stack /\ x \in stack[i + 1].todo
        BY <1>3, <3>1
      <3> QED  BY <3>2 DEF Todos
    <2>2. ASSUME NEW x \in Todos PROVE x \in Todos'
      <3>1. PICK k \in DOMAIN stack : x \in stack[k].todo
        BY <2>2 DEF Todos
      <3>2. k # 1
        BY <1>2, <3>1
      <3>3. k - 1 \in DOMAIN stack' /\ x \in stack'[k - 1].todo
        BY <1>4, <3>1, <3>2
      <3> QED  BY <3>3 DEF Todos
    <2> QED  BY <2>1, <2>2
  <1>7. StackInv'
    <2>1. Dirs' \subseteq (Root \cup before \cup created)' /\ Todos' \subseteq ((before \cup created) \ Dirs)'
      BY <1>5, <1>6 DEF StackInv
    <2>2. ASSUME NEW i \in DOMAIN stack'
          PROVE  /\ \A x \in stack'[i].todo : Parent[x] = stack'[i].dir
                 /\ i < Len(stack') => stack'[i].dir \in Dir /\ Parent[stack'[i].dir] = stack'[i + 1].dir
                 /\ i = Len(stack') => stack'[i].dir \in Root
                 /\ \A j \in DOMAIN stack' : stack'[i].dir = stack'[j].dir => i = j
      <3>1. i + 1 \in DOMAIN stack /\ stack'[i] = stack[i + 1] /\ i \in Nat
        BY <1>2, <1>3, <2>2
      <3>2. \A x \in stack'[i].todo : Parent[x] = stack'[i].dir
        BY <3>1 DEF StackInv
      <3>3. i < Len(stack') => stack'[i].dir \in Dir /\ Parent[stack'[i].dir] = stack'[i + 1].dir
        <4> SUFFICES ASSUME i < Len(stack') PROVE stack'[i].dir \in Dir /\ Parent[stack'[i].dir] = stack'[i + 1].dir
          OBVIOUS
        <4>1. i + 1 < Len(stack) /\ i + 1 \in DOMAIN stack' /\ (i + 1) + 1 = i + 2
          BY <1>1, <1>2, <3>1
        <4>2. stack'[i + 1] = stack[(i + 1) + 1]
          BY <1>3, <4>1
        <4> QED  BY <3>1, <4>1, <4>2 DEF StackInv
      <3>4. i = Len(stack') => stack'[i].dir \in Root
        <4>1. i = Len(stack') => i + 1 = Len(stack)
          BY <1>1, <1>2, <3>1
        <4> QED  BY <3>1, <4>1 DEF StackInv
      <3>5. ASSUME NEW j \in DOMAIN stack', stack'[i].dir = stack'[j].dir PROVE i = j
        <4>1. j + 1 \in DOMAIN stack /\ stack'[j] = stack[j + 1] /\ j \in Nat
          BY <1>2, <1>3, <3>5
        <4>2. i + 1 = j + 1
          BY <3>1, <3>5, <4>1 DEF StackInv
        <4> QED  BY <3>1, <4>1, <4>2
      <3> QED  BY <3>2, <3>3, <3>4, <3>5
    <2> QED  BY <2>1, <2>2 DEF StackInv
  <1> QED  BY <1>1, <1>2, <1>5, <1>6, <1>7
\* A search of e, which the search on top has returned, is opened above it.
LEMMA PushInv ==
    ASSUME TreeInv, StackInv, Walking, NEW e \in Head(stack).todo, e \in Dir,
           GoOn(e, <<[dir |-> e, todo |-> Children(e)]>>),
           present \subseteq before \cup created, UNCHANGED <<before, created>>
    PROVE  /\ stack' \in Seq(Search)
           /\ StackInv'
           /\ Dirs' = Dirs \cup {e}
           /\ Todos' = (Todos \ {e}) \cup Children(e)
  <1> DEFINE new == [dir |-> e, todo |-> Children(e)]
  <1>1. new \in Search /\ new.dir = e /\ new.todo = Children(e)
    BY DEF Search, Children, TreeInv
  <1>2. GoOn(e, <<new>>)
    OBVIOUS
  <1> HIDE DEF new
  <1>3. /\ stack' \in Seq(Search)
        /\ Len(stack') = Len(stack) + 1
        /\ stack'[1] = new
        /\ \A i \in 1 .. Len(stack) :
             /\ stack'[i + 1].dir = stack[i].dir
             /\ stack'[i + 1].todo = (IF i = 1 THEN stack[i].todo \ {e} ELSE stack[i].todo)
    BY <1>1, <1>2, GoOnAboveIs DEF TreeInv
  <1>4. /\ DOMAIN stack = 1 .. Len(stack) /\ DOMAIN stack' = 1 .. Len(stack) + 1 /\ Len(stack) \in Nat \ {0}
        /\ 1 \in DOMAIN stack
    BY <1>3, TopSearch DEF TreeInv
  <1>5. \A k \in DOMAIN stack' : k = 1 \/ k - 1 \in DOMAIN stack
    BY <1>4
  <1>6. ASSUME NEW i \in DOMAIN stack
        PROVE  /\ i + 1 \in DOMAIN stack'
               /\ stack'[i + 1].dir = stack[i].dir
               /\ stack'[i + 1].todo = stack[i].todo \ {e}
    <2>1. i + 1 \in DOMAIN stack' /\ i \in 1 .. Len(stack)
      BY <1>4
    <2>2. CASE i = 1
      BY <1>3, <2>1, <2>2
    <2>3. CASE i # 1
      <3>1. e \notin stack[i].todo
        BY <2>3, OnceReturned
      <3>2. stack'[i + 1].todo = stack[i].todo /\ stack'[i + 1].dir = stack[i].dir
        BY <1>3, <2>1, <2>3
      <3> QED  BY <2>1, <3>1, <3>2
    <2> QED  BY <2>2, <2>3
  <1>7. ASSUME NEW k \in DOMAIN stack', k # 1
        PROVE  \E i \in DOMAIN stack : /\ k = i + 1
                                       /\ stack'[k].dir = stack[i].dir
                                       /\ stack'[k].todo = stack[i].todo \ {e}
    <2>1. k - 1 \in DOMAIN stack /\ k = (k - 1) + 1
      BY <1>4, <1>5, <1>7
    <2> QED  BY <1>6, <2>1
  <1>8. 1 \in DOMAIN stack'
    BY <1>4
  <1>9. Dirs' = Dirs \cup {e}
    <2>1. ASSUME NEW d \in Dirs' PROVE d \in Dirs \cup {e}
      <3>1. PICK k \in DOMAIN stack' : d = stack'[k].dir
        BY <2>1 DEF Dirs
      <3> QED  BY <1>1, <1>3, <1>7, <3>1 DEF Dirs
    <2>2. ASSUME NEW d \in Dirs PROVE d \in Dirs'
      BY <1>6, <2>2 DEF Dirs
    <2>3. e \in Dirs'
      BY <1>1, <1>3, <1>8 DEF Dirs
    <2> QED  BY <2>1, <2>2, <2>3
  <1>10. Todos' = (Todos \ {e}) \cup Children(e)
    <2>1. ASSUME NEW x \in Todos' PROVE x \in (Todos \ {e}) \cup Children(e)
      <3>1. PICK k \in DOMAIN stack' : x \in stack'[k].todo
        BY <2>1 DEF Todos
      <3> QED  BY <1>1, <1>3, <1>7, <3>1 DEF Todos
    <2>2. ASSUME NEW x \in Todos \ {e} PROVE x \in Todos'
      BY <1>6, <2>2 DEF Todos
    <2>3. Children(e) \subseteq Todos'
      BY <1>1, <1>3, <1>8 DEF Todos
    <2> QED  BY <2>1, <2>2, <2>3
  <1>11. e \in Todos \ Dirs /\ Parent[e] = stack[1].dir /\ stack[1].dir \in Dirs
    BY <1>4, OnceReturned DEF Dirs
  <1>12. Children(e) \cap (Dirs \cup {e}) = {}
    <2> SUFFICES ASSUME NEW c \in Children(e), c \in Dirs \cup {e} PROVE FALSE
      OBVIOUS
    <2>1. Parent[c] = e /\ c \in Entry
      BY DEF Children, TreeInv
    <2>2. c # e
      BY <1>11, <2>1
    <2>3. PICK j \in DOMAIN stack : c = stack[j].dir
      BY <2>2 DEF Dirs
    <2>4. stack[j].dir \notin Root
      BY <2>1, <2>3, TreeAssumption DEF Entry
    <2>5. j < Len(stack) /\ j + 1 \in DOMAIN stack
      BY <1>4, <2>3, <2>4 DEF StackInv
    <2>6. e \in Dirs
      BY <2>1, <2>3, <2>5 DEF StackInv, Dirs
    <2> QED  BY <1>11, <2>6
  <1>13. StackInv'
    <2>1. Dirs' \subseteq (Root \cup before \cup created)'
      BY <1>9, <1>11 DEF StackInv
    <2>2. Todos' \subseteq ((before \cup created) \ Dirs)'
      BY <1>9, <1>10, <1>11, <1>12 DEF StackInv, Children
    <2>3. ASSUME NEW k \in DOMAIN stack'
          PROVE  /\ \A x \in stack'[k].todo : Parent[x] = stack'[k].dir
                 /\ k < Len(stack') => stack'[k].dir \in Dir /\ Parent[stack'[k].dir] = stack'[k + 1].dir
                 /\ k = Len(stack') => stack'[k].dir \in Root
                 /\ \A j \in DOMAIN stack' : stack'[k].dir = stack'[j].dir => k = j
      <3>1. CASE k = 1
        <4>1. \A x \in stack'[k].todo : Parent[x] = stack'[k].dir
          BY <1>1, <1>3, <3>1 DEF Children
        <4>2. stack'[k + 1].dir = stack[1].dir
          BY <1>4, <1>6, <3>1
        <4>3. stack'[k].dir \in Dir /\ Parent[stack'[k].dir] = stack'[k + 1].dir
          BY <1>1, <1>3, <1>11, <3>1, <4>2
        <4>4. k # Len(stack')
          BY <1>3, <1>4, <3>1
        <4>5. ASSUME NEW j \in DOMAIN stack', stack'[k].dir = stack'[j].dir, k # j PROVE FALSE
          <5>1. e \in Dirs
            BY <1>1, <1>3, <1>7, <3>1, <4>5 DEF Dirs
          <5> QED  BY <1>11, <5>1
        <4> QED  BY <4>1, <4>3, <4>4, <4>5
      <3>2. CASE k # 1
        <4>1. PICK i \in DOMAIN stack : /\ k = i + 1
                                        /\ stack'[k].dir = stack[i].dir
                                        /\ stack'[k].todo = stack[i].todo \ {e}
          BY <1>7, <3>2
        <4>2. \A x \in stack'[k].todo : Parent[x] = stack'[k].dir
          BY <4>1 DEF StackInv
        <4>3. ASSUME k < Len(stack')
              PROVE  stack'[k].dir \in Dir /\ Parent[stack'[k].dir] = stack'[k + 1].dir
          <5>1. i < Len(stack) /\ i + 1 \in DOMAIN stack /\ k + 1 = (i + 1) + 1
            BY <1>3, <1>4, <4>1, <4>3
          <5>2. stack'[k + 1].dir = stack[i + 1].dir
            BY <1>6, <5>1
          <5> QED  BY <4>1, <5>1, <5>2 DEF StackInv
        <4>4. k = Len(stack') => stack'[k].dir \in Root
          <5>1. k = Len(stack') => i = Len(stack)
            BY <1>3, <1>4, <4>1
          <5> QED  BY <4>1, <5>1 DEF StackInv
        <4>5. ASSUME NEW j \in DOMAIN stack', stack'[k].dir = stack'[j].dir PROVE k = j
          <5>1. CASE j = 1
            <6>1. stack'[j].dir = e
              BY <1>1, <1>3, <5>1
            <6>2. stack[i].dir = e
              BY <4>1, <4>5, <6>1
            <6> QED  BY <1>11, <6>2 DEF Dirs
          <5>2. CASE j # 1
            <6>1. PICK l \in DOMAIN stack : j = l + 1 /\ stack'[j].dir = stack[l].dir
              BY <1>7, <5>2
            <6>2. i = l
              BY <4>1, <4>5, <6>1 DEF StackInv
            <6> QED  BY <4>1, <6>1, <6>2
          <5> QED  BY <5>1, <5>2
        <4> QED  BY <4>2, <4>3, <4>4, <4>5
      <3> QED  BY <3>1, <3>2
    <2> QED  BY <2>1, <2>2, <2>3 DEF StackInv
  <1> QED  BY <1>3, <1>9, <1>10, <1>13
\* One element of a sequence replaced.
LEMMA ReplaceIn ==
    ASSUME NEW S, NEW q \in Seq(S), NEW i \in DOMAIN q, NEW s \in S
    PROVE  /\ [q EXCEPT ![i] = s] \in Seq(S)
           /\ Len([q EXCEPT ![i] = s]) = Len(q)
           /\ DOMAIN [q EXCEPT ![i] = s] = DOMAIN q
  OBVIOUS

\* A new entry joins the search of its directory or not.
LEMMA JoinInv ==
    ASSUME TreeInv, StackInv, NEW e \in Entry, Create(e)
    PROVE  /\ stack' \in Seq(Search)
           /\ StackInv'
           /\ Dirs' = Dirs
           /\ Todos \subseteq Todos'
           /\ Todos' \subseteq Todos \cup {e}
  <1>1. /\ e \notin before \cup created
        /\ created' = created \cup {e} /\ before' = before
    BY DEF Create
  <1>2. /\ stack' \in Seq(Search) /\ Len(stack') = Len(stack) /\ DOMAIN stack' = DOMAIN stack
        /\ \A k \in DOMAIN stack :
             /\ stack'[k].dir = stack[k].dir
             /\ stack[k].todo \subseteq stack'[k].todo
             /\ stack'[k].todo \subseteq stack[k].todo \cup {e}
             /\ e \in stack'[k].todo => e \in stack[k].todo \/ Parent[e] = stack[k].dir
    <2>1. CASE UNCHANGED stack
      BY <2>1 DEF TreeInv
    <2>2. CASE \E i \in DOMAIN stack :
                 /\ stack[i].dir = Parent[e]
                 /\ stack' = [stack EXCEPT ![i].todo = @ \cup {e}]
      <3>1. PICK i \in DOMAIN stack :
              stack[i].dir = Parent[e] /\ stack' = [stack EXCEPT ![i].todo = @ \cup {e}]
        BY <2>2
      <3>0. stack \in Seq(Search) /\ stack[i].dir = Parent[e] /\ i \in DOMAIN stack
        BY <3>1 DEF TreeInv
      <3> DEFINE s == [stack[i] EXCEPT !.todo = @ \cup {e}]
      <3>2. stack[i] \in Search
        BY <3>1 DEF TreeInv
      <3>3. s \in Search /\ s.dir = stack[i].dir /\ s.todo = stack[i].todo \cup {e}
        BY <3>2 DEF Search
      <3>4. stack' = [stack EXCEPT ![i] = s]
        BY <3>1
      <3> HIDE DEF s
      <3>5. stack' \in Seq(Search) /\ Len(stack') = Len(stack) /\ DOMAIN stack' = DOMAIN stack
        BY <3>0, <3>3, <3>4, ReplaceIn
      <3>6. ASSUME NEW k \in DOMAIN stack
            PROVE  stack'[k] = (IF k = i THEN s ELSE stack[k])
        BY <3>0, <3>4, <3>6
      <3>7. ASSUME NEW k \in DOMAIN stack
            PROVE  /\ stack'[k].dir = stack[k].dir
                   /\ stack[k].todo \subseteq stack'[k].todo
                   /\ stack'[k].todo \subseteq stack[k].todo \cup {e}
                   /\ e \in stack'[k].todo => e \in stack[k].todo \/ Parent[e] = stack[k].dir
        BY <3>0, <3>3, <3>6
      <3> QED  BY <3>5, <3>7
    <2> QED  BY <2>1, <2>2 DEF Create
  <1>3. Dirs' = Dirs
    <2>1. \A x : x \in Dirs' <=> \E i \in DOMAIN stack : x = stack[i].dir
      BY <1>2 DEF Dirs
    <2> QED  BY <2>1 DEF Dirs
  <1>4. Todos \subseteq Todos' /\ Todos' \subseteq Todos \cup {e}
    <2>1. ASSUME NEW x \in Todos PROVE x \in Todos'
      BY <1>2, <2>1 DEF Todos
    <2>2. ASSUME NEW x \in Todos' PROVE x \in Todos \cup {e}
      BY <1>2, <2>2 DEF Todos
    <2> QED  BY <2>1, <2>2
  <1>5. e \notin Dirs
    BY <1>1, TreeAssumption DEF StackInv, Entry
  <1>6. StackInv'
    <2>1. Dirs' \subseteq (Root \cup before \cup created)'
      BY <1>1, <1>3 DEF StackInv
    <2>2. Todos' \subseteq ((before \cup created) \ Dirs)'
      BY <1>1, <1>3, <1>4, <1>5 DEF StackInv
    <2>3. ASSUME NEW i \in DOMAIN stack'
          PROVE  /\ \A x \in stack'[i].todo : Parent[x] = stack'[i].dir
                 /\ i < Len(stack') => stack'[i].dir \in Dir /\ Parent[stack'[i].dir] = stack'[i + 1].dir
                 /\ i = Len(stack') => stack'[i].dir \in Root
                 /\ \A j \in DOMAIN stack' : stack'[i].dir = stack'[j].dir => i = j
      <3>1. i \in DOMAIN stack /\ DOMAIN stack = 1 .. Len(stack) /\ Len(stack) \in Nat
        BY <1>2 DEF TreeInv
      <3>2. \A x \in stack'[i].todo : Parent[x] = stack'[i].dir
        BY <1>2, <3>1 DEF StackInv
      <3>3. i < Len(stack') => stack'[i].dir \in Dir /\ Parent[stack'[i].dir] = stack'[i + 1].dir
        <4>1. i < Len(stack) => i + 1 \in DOMAIN stack
          BY <3>1
        <4> QED  BY <1>2, <3>1, <4>1 DEF StackInv
      <3>4. i = Len(stack') => stack'[i].dir \in Root
        BY <1>2, <3>1 DEF StackInv
      <3>5. \A j \in DOMAIN stack' : stack'[i].dir = stack'[j].dir => i = j
        BY <1>2, <3>1 DEF StackInv
      <3> QED  BY <3>2, <3>3, <3>4, <3>5
    <2> QED  BY <2>1, <2>2, <2>3 DEF StackInv
  <1> QED  BY <1>2, <1>3, <1>4, <1>6
-----------------------------------------------------------------------------
(* What is ahead, and what is counted.                                     *)

\* What is on the path to the root, or in a directory that is, is under nothing
\* that is not.
LEMMA PathAbove ==
    ASSUME TreeInv, StackInv, NEW e \in Entry, Parent[e] \in Dirs, NEW a \in Entry \ Dirs
    PROVE  ~Under(e, a)
  <1> DEFINE S == Entry \ ({e} \cup Dirs)
  <1>1. ASSUME NEW x \in Entry, x \in Dirs PROVE Parent[x] \in Dirs
    <2>1. PICK i \in DOMAIN stack : x = stack[i].dir
      BY <1>1 DEF Dirs
    <2>2. x \notin Root
      BY TreeAssumption DEF Entry
    <2>3. DOMAIN stack = 1 .. Len(stack) /\ Len(stack) \in Nat
      BY DEF TreeInv
    <2>4. i < Len(stack) /\ i + 1 \in DOMAIN stack
      BY <2>1, <2>2, <2>3 DEF StackInv
    <2> QED  BY <2>1, <2>4 DEF StackInv, Dirs
  <1>2. \A x \in Entry : Parent[x] \in S \cup {a} => x \in S
    BY <1>1
  <1> HIDE DEF S
  <1>3. Under(e, a) => e \in S
    BY <1>2, UnderInduction DEF S
  <1> QED  BY <1>3 DEF S

\* An entry that has been returned, and is not opened, is not ahead any more.
LEMMA AheadAfterAdvance ==
    ASSUME TreeInv, StackInv, KnownInv, Walking, NEW e \in Head(stack).todo,
           Dirs' = Dirs, Todos' = Todos \ {e}, UNCHANGED <<before, created>>
    PROVE  e \in Ahead \cap Known /\ Ahead' \subseteq Ahead \ {e}
  <1>1. e \in Todos \ Dirs /\ Parent[e] \in Dirs
    BY OnceReturned, TopSearch DEF TreeInv
  <1>2. e \in Known /\ e \in Entry
    BY <1>1 DEF StackInv, Known, TreeInv
  <1>3. Waiting' \subseteq Waiting \ {e}
    BY <1>2 DEF Waiting, Known
  <1>4. Waiting' \subseteq Entry \ Dirs
    BY <1>3, TreeAssumption DEF Waiting, StackInv, TreeInv, Known, Entry
  <1>5. e \notin Ahead'
    BY <1>1, <1>2, <1>3, <1>4, PathAbove DEF Ahead
  <1>6. Ahead' \subseteq Ahead
    BY <1>3 DEF Ahead
  <1> QED  BY <1>1, <1>2, <1>5, <1>6 DEF Ahead, Waiting

\* One that is opened leads to what is in it.
LEMMA AheadAfterPush ==
    ASSUME TreeInv, StackInv, KnownInv, NEW e \in Todos,
           Dirs' = Dirs \cup {e}, Todos' = (Todos \ {e}) \cup Children(e),
           UNCHANGED <<before, created>>
    PROVE  Ahead' \subseteq Ahead
  <1>1. e \in Waiting /\ e \in Entry
    BY DEF Waiting, StackInv, TreeInv
  <1>2. \A c \in Children(e) : c \in Entry /\ Under(c, e)
    BY UnderChild DEF Children, TreeInv
  <1>3. ASSUME NEW c \in Children(e), NEW x \in Entry, Under(x, c) PROVE Under(x, e)
    <2> DEFINE S == {y \in Entry : Under(y, e)}
    <2>1. \A y \in Entry : Parent[y] \in S \cup {c} => y \in S
      BY <1>2, UnderChild
    <2> HIDE DEF S
    <2>2. x \in S
      BY <1>3, <2>1, UnderInduction DEF S
    <2> QED  BY <2>2 DEF S
  <1>4. Waiting' \subseteq Waiting \cup Children(e)
    BY DEF Waiting, Known
  <1>5. ASSUME NEW x \in Ahead' PROVE x \in Ahead
    <2>1. x \in Entry /\ (x \in Waiting' \cup Dirs' \/ \E a \in Waiting' : Under(x, a))
      BY <1>5 DEF Ahead
    <2>2. CASE x \in Waiting' \cup Dirs'
      BY <1>1, <1>2, <1>4, <2>1, <2>2 DEF Ahead
    <2>3. CASE \E a \in Waiting' : Under(x, a)
      BY <1>1, <1>3, <1>4, <2>1, <2>3 DEF Ahead
    <2> QED  BY <2>1, <2>2, <2>3
  <1> QED  BY <1>5

\* A directory whose search is closed is not ahead any more.
LEMMA AheadAfterPop ==
    ASSUME TreeInv, StackInv, KnownInv, Walking,
           Dirs' = Dirs \ {Head(stack).dir}, Todos' = Todos, UNCHANGED <<before, created>>
    PROVE  /\ Ahead' \subseteq Ahead
           /\ Head(stack).dir \in Dir =>
                Head(stack).dir \in Ahead \cap Known /\ Head(stack).dir \notin Ahead'
  <1> DEFINE e == Head(stack).dir
  <1>1. Waiting' = Waiting
    BY DEF Waiting, Known
  <1>2. Ahead' \subseteq Ahead
    BY <1>1 DEF Ahead
  <1>3. /\ e = stack[1].dir /\ e \in Dirs /\ 1 \in DOMAIN stack
        /\ DOMAIN stack = 1 .. Len(stack) /\ Len(stack) \in Nat \ {0}
    BY TopSearch DEF TreeInv
  <1>4. ASSUME e \in Dir PROVE e \in Ahead \cap Known /\ e \notin Ahead'
    <2>1. e \in Entry /\ e \notin Root
      BY <1>4, TreeAssumption DEF Entry
    <2>2. 1 < Len(stack) /\ 2 \in DOMAIN stack
      BY <1>3, <2>1 DEF StackInv
    <2>3. Parent[e] = stack[2].dir
      <3>1. Parent[stack[1].dir] = stack[1 + 1].dir
        BY <1>3, <2>2 DEF StackInv
      <3> QED  BY <1>3, <3>1
    <2>4. Parent[e] \in Dirs
      BY <2>2, <2>3 DEF Dirs
    <2>5. e \in Known
      BY <1>3, <2>1 DEF StackInv, Known
    <2>6. Waiting \subseteq Entry \ Dirs
      BY TreeAssumption DEF Waiting, StackInv, TreeInv, Known, Entry
    <2> HIDE DEF e
    <2>7. e \notin Ahead'
      BY <1>1, <1>3, <2>1, <2>4, <2>6, PathAbove DEF Ahead, e
    <2> QED  BY <1>3, <2>1, <2>5, <2>7 DEF Ahead
  <1> QED  BY <1>2, <1>4
\* The counts are of finite sets.
LEMMA Countable ==
    ASSUME NEW S \in SUBSET Entry
    PROVE  IsFiniteSet(S) /\ Cardinality(S) \in Nat
  BY TreeAssumption, FS_Subset, FS_CardinalityType DEF Entry

\* Where no less is ahead and nothing is deleted or counted, the counts stand.
LEMMA StillCounted ==
    ASSUME TreeInv, TreeInv', CountInv, Known \subseteq Known', Gone' = Gone, Ahead' \subseteq Ahead,
           UNCHANGED <<fileCount, dirCount, errorCount>>
    PROVE  CountInv'
  <1> DEFINE S == Known \ (Gone \cup Ahead)
             T == Known' \ (Gone' \cup Ahead')
  <1>1. S \subseteq T /\ T \in SUBSET Entry
    BY DEF TreeInv, Known
  <1>2. IsFiniteSet(T) /\ S \in SUBSET T
    BY <1>1, Countable
  <1>3. Cardinality(S) <= Cardinality(T) /\ Cardinality(S) \in Nat /\ Cardinality(T) \in Nat
    BY <1>1, <1>2, FS_Subset, Countable
  <1>4. errorCount <= Cardinality(S) /\ errorCount \in Nat
    BY DEF CountInv, TreeInv
  <1>5. errorCount' <= Cardinality(T)
    <2> HIDE DEF S, T
    <2> QED  BY <1>3, <1>4
  <1>6. Gone' \cap Ahead' = {}
    BY DEF CountInv
  <1>7. fileCount' + dirCount' = Cardinality(Gone')
    BY DEF CountInv
  <1> QED  BY <1>5, <1>6, <1>7 DEF CountInv

\* A deletion is counted, and so is one that fails.
LEMMA DeletionCounted ==
    ASSUME TreeInv, KnownInv, CountInv, NEW e \in Ahead \cap Known, Delete(e),
           stack' \in Seq(Search), Ahead' \subseteq Ahead \ {e}
    PROVE  TreeInv' /\ KnownInv' /\ CountInv'
  <1>1. e \in Entry /\ e \notin Gone
    BY DEF TreeInv, Known, CountInv
  <1>2. /\ UNCHANGED <<roots, inUse, unlistable, mode, before, created, vanished>>
        /\ Known' = Known
    BY DEF Delete, ghostVars, Known
  <1>3. CASE Deletable(e)
    <2>1. e \in present \ inUse /\ Children(e) = {} /\ present' = present \ {e}
      BY <1>3 DEF Delete, Deletable
    <2>2. /\ errorCount' = errorCount
          /\ fileCount' = fileCount + (IF e \in File THEN 1 ELSE 0)
          /\ dirCount' = dirCount + (IF e \in Dir THEN 1 ELSE 0)
      BY <1>3 DEF Delete
    <2>3. (e \in File /\ e \notin Dir) \/ (e \in Dir /\ e \notin File)
      BY <1>1, TreeAssumption DEF Entry
    <2>4. /\ fileCount' \in Nat /\ dirCount' \in Nat /\ errorCount' \in Nat
          /\ fileCount' + dirCount' = (fileCount + dirCount) + 1
      BY <2>2, <2>3 DEF TreeInv
    <2>5. Grounded(present', roots)
      BY <2>1, StillGrounded DEF TreeInv
    <2>6. TreeInv'
      BY <1>2, <2>1, <2>4, <2>5 DEF TreeInv
    <2>7. KnownInv'
      BY <1>2, <2>1 DEF KnownInv
    <2>8. Gone' = Gone \cup {e}
      BY <1>2, <2>1 DEF Gone, KnownInv, Known
    <2>9. Cardinality(Gone') = Cardinality(Gone) + 1
      <3>1. IsFiniteSet(Gone)
        BY Countable DEF Gone, Known, TreeInv
      <3> QED  BY <1>1, <2>8, <3>1, FS_AddElement
    <2>10. fileCount' + dirCount' = Cardinality(Gone')
      BY <2>4, <2>9 DEF CountInv
    <2>11. Gone' \cap Ahead' = {}
      BY <2>8 DEF CountInv
    <2>12. errorCount' <= Cardinality((Known \ (Gone \cup Ahead))')
      <3> DEFINE S == Known \ (Gone \cup Ahead)
                 T == Known' \ (Gone' \cup Ahead')
      <3>1. S \subseteq T /\ T \in SUBSET Entry
        BY <1>2, <2>8 DEF TreeInv, Known
      <3>2. IsFiniteSet(T) /\ S \in SUBSET T
        BY <3>1, Countable
      <3>3. Cardinality(S) <= Cardinality(T) /\ Cardinality(S) \in Nat /\ Cardinality(T) \in Nat
        BY <3>1, <3>2, FS_Subset, Countable
      <3>4. errorCount <= Cardinality(S) /\ errorCount \in Nat
        BY DEF CountInv, TreeInv
      <3> HIDE DEF S, T
      <3>5. errorCount' <= Cardinality(T)
        BY <2>2, <3>3, <3>4
      <3> QED  BY <3>5 DEF T
    <2> QED  BY <2>6, <2>7, <2>10, <2>11, <2>12 DEF CountInv
  <1>4. CASE ~Deletable(e)
    <2>1. errorCount' = errorCount + 1 /\ UNCHANGED <<present, fileCount, dirCount>>
      BY <1>4 DEF Delete
    <2>2. errorCount' \in Nat
      BY <2>1 DEF TreeInv
    <2>3. Grounded(present', roots')
      BY <1>2, <2>1 DEF TreeInv
    <2>4. TreeInv'
      BY <1>2, <2>1, <2>2, <2>3 DEF TreeInv
    <2>5. KnownInv'
      BY <1>2, <2>1 DEF KnownInv
    <2>6. Gone' = Gone
      BY <1>2, <2>1 DEF Gone
    <2>7. errorCount' <= Cardinality((Known \ (Gone \cup Ahead))')
      <3> DEFINE S == Known \ (Gone \cup Ahead)
                 T == Known' \ (Gone' \cup Ahead')
      <3>1. S \cup {e} \subseteq T /\ T \in SUBSET Entry /\ S \in SUBSET Entry /\ e \notin S
        BY <1>1, <1>2, <2>6 DEF TreeInv, Known
      <3> HIDE DEF S, T
      <3>2. IsFiniteSet(T) /\ S \cup {e} \in SUBSET T /\ IsFiniteSet(S)
        BY <3>1, Countable
      <3>3. Cardinality(S \cup {e}) = Cardinality(S) + 1
        BY <3>1, <3>2, FS_AddElement
      <3>4. Cardinality(S \cup {e}) <= Cardinality(T) /\ Cardinality(S) \in Nat /\ Cardinality(T) \in Nat
        BY <3>1, <3>2, FS_Subset, Countable
      <3>5. errorCount <= Cardinality(S) /\ errorCount \in Nat
        BY DEF CountInv, TreeInv, S
      <3>6. errorCount' <= Cardinality(T)
        BY <2>1, <3>3, <3>4, <3>5
      <3> QED  BY <3>6 DEF T
    <2>8. Gone' \cap Ahead' = {}
      BY <2>6 DEF CountInv
    <2>9. fileCount' + dirCount' = Cardinality(Gone')
      BY <2>1, <2>6 DEF CountInv
    <2> QED  BY <2>4, <2>5, <2>7, <2>8, <2>9 DEF CountInv
  <1> QED  BY <1>3, <1>4

\* A deletion that succeeds takes nothing from what the walk will come upon, and
\* one that fails is an error.
LEMMA DeletionListed ==
    ASSUME TreeInv, NEW d, ListedInv(d), NEW e \in Entry, Delete(e),
           \/ Dirs' = Dirs /\ Todos' = Todos \ {e}
           \/ Dirs' = Dirs \ {e} /\ Todos' = Todos
    PROVE  ListedInv(d)'
  <1>1. UNCHANGED <<unlistable, mode, before>>
    BY DEF Delete, ghostVars
  <1>2. CASE ~Deletable(e)
    <2>1. errorCount' # 0
      BY <1>2 DEF Delete, TreeInv
    <2> QED  BY <2>1 DEF ListedInv
  <1>3. CASE Deletable(e)
    <2>1. errorCount' = errorCount /\ present' = present \ {e} /\ Children(e) = {}
      BY <1>3 DEF Delete, Deletable
    <2>2. ASSUME NEW x \in (before \cap present)', Found(x) PROVE Found(x)'
      <3>1. x \in present /\ x # e
        BY <2>1, <2>2
      <3>2. ~Under(x, e)
        BY <2>1, <3>1, UnderByChild DEF TreeInv
      <3> QED  BY <2>2, <3>1, <3>2 DEF Found
    <2>3. Under(e, d)' = Under(e, d)
      BY DEF Under
    <2> QED  BY <1>1, <2>1, <2>2 DEF ListedInv, Under
  <1> QED  BY <1>2, <1>3
-----------------------------------------------------------------------------
(* The actions.                                                            *)

\* A deletion of what was just returned.
LEMMA DeleteReturned ==
    ASSUME TreeInv, NEW d, WalkInv(d), Walking, NEW e \in Head(stack).todo,
           GoOn(e, <<>>), Delete(e)
    PROVE  TreeInv' /\ WalkInv(d)'
  <1>1. UNCHANGED <<before, created>>
    BY DEF Delete, ghostVars
  <1>2. stack' \in Seq(Search) /\ StackInv' /\ Dirs' = Dirs /\ Todos' = Todos \ {e}
    BY <1>1, AdvanceInv DEF WalkInv
  <1>3. e \in Ahead \cap Known /\ Ahead' \subseteq Ahead \ {e}
    BY <1>1, <1>2, AheadAfterAdvance DEF WalkInv
  <1>4. TreeInv' /\ KnownInv' /\ CountInv'
    BY <1>2, <1>3, DeletionCounted DEF WalkInv
  <1>5. ListedInv(d)'
    BY <1>2, <1>3, DeletionListed DEF WalkInv, Ahead
  <1> QED  BY <1>2, <1>4, <1>5 DEF WalkInv

\* The walk of targets passes over what was just returned.
LEMMA PassReturned ==
    ASSUME TreeInv, NEW d, WalkInv(d), Walking, NEW e \in Head(stack).todo,
           GoOn(e, <<>>), mode # "contents",
           UNCHANGED <<treeVars, mode, fileCount, dirCount, errorCount, ghostVars>>
    PROVE  TreeInv' /\ WalkInv(d)'
  <1>1. UNCHANGED <<before, created, vanished, present, roots, inUse, unlistable>>
    BY DEF treeVars, ghostVars
  <1>2. stack' \in Seq(Search) /\ StackInv' /\ Dirs' = Dirs /\ Todos' = Todos \ {e}
    BY <1>1, AdvanceInv DEF WalkInv
  <1>3. Ahead' \subseteq Ahead
    BY <1>1, <1>2, AheadAfterAdvance DEF WalkInv
  <1>4. TreeInv' /\ KnownInv'
    BY <1>1, <1>2 DEF TreeInv, WalkInv, KnownInv, Known, Grounded
  <1>5. CountInv'
    BY <1>1, <1>3, <1>4, StillCounted DEF WalkInv, Known, Gone
  <1>6. ListedInv(d)'
    BY DEF ListedInv
  <1> QED  BY <1>2, <1>4, <1>5, <1>6 DEF WalkInv

\* A file or an unlistable directory is returned.
LEMMA VisitInv ==
    ASSUME TreeInv, NEW d, WalkInv(d), NEW e \in Entry, VisitFile(e) \/ VisitUnlistable(e)
    PROVE  TreeInv' /\ WalkInv(d)'
  <1>1. Walking /\ e \in Head(stack).todo /\ GoOn(e, <<>>)
    BY DEF VisitFile, VisitUnlistable
  <1>2. \/ Delete(e)
        \/ /\ mode # "contents"
           /\ UNCHANGED <<treeVars, mode, fileCount, dirCount, errorCount, ghostVars>>
    BY DEF VisitFile, VisitUnlistable
  <1> QED  BY <1>1, <1>2, DeleteReturned, PassReturned

\* A directory is returned and its search opened.
LEMMA VisitDirInv ==
    ASSUME TreeInv, NEW d, WalkInv(d), NEW e \in Entry, VisitDir(e)
    PROVE  TreeInv' /\ WalkInv(d)'
  <1>1. /\ Walking /\ e \in Head(stack).todo /\ e \in Dir
        /\ GoOn(e, <<[dir |-> e, todo |-> Children(e)]>>)
    BY DEF VisitDir, Opened
  <1>2. /\ UNCHANGED <<before, created, vanished, present, roots, inUse, unlistable>>
        /\ UNCHANGED <<mode, fileCount, dirCount, errorCount>>
    BY DEF VisitDir, treeVars, ghostVars
  <1>3. present \subseteq before \cup created
    BY DEF WalkInv, KnownInv, Known
  <1>4. /\ stack' \in Seq(Search) /\ StackInv'
        /\ Dirs' = Dirs \cup {e} /\ Todos' = (Todos \ {e}) \cup Children(e)
    BY <1>1, <1>2, <1>3, PushInv DEF WalkInv
  <1>5. e \in Todos
    BY <1>1, OnceReturned DEF WalkInv
  <1>6. Ahead' \subseteq Ahead
    BY <1>2, <1>4, <1>5, AheadAfterPush DEF WalkInv
  <1>7. TreeInv' /\ KnownInv'
    BY <1>2, <1>4 DEF TreeInv, WalkInv, KnownInv, Known, Grounded
  <1>8. CountInv'
    BY <1>2, <1>6, <1>7, StillCounted DEF WalkInv, Known, Gone
  <1>9. ASSUME NEW x \in before \cap present, Found(x) PROVE Found(x)'
    <2>1. CASE Under(x, e)
      <3>1. PICK c \in Children(e) : x = c \/ Under(x, c)
        BY <2>1, UnderByChild DEF TreeInv
      <3> QED  BY <1>4, <3>1 DEF Found, Under
    <2>2. CASE ~Under(x, e)
      BY <1>4, <1>9, <2>2 DEF Found, Under
    <2> QED  BY <2>1, <2>2
  <1>10. ListedInv(d)'
    BY <1>2, <1>9 DEF WalkInv, ListedInv, Under
  <1> QED  BY <1>4, <1>7, <1>8, <1>10 DEF WalkInv

\* A search is closed.
LEMMA CloseSearchInv ==
    ASSUME TreeInv, NEW d, WalkInv(d), CloseSearch
    PROVE  TreeInv' /\ WalkInv(d)'
  <1> DEFINE e == Head(stack).dir
  <1>1. Walking /\ Head(stack).todo = {} /\ stack' = Tail(stack)
    BY DEF CloseSearch
  <1>2. CASE e \in Dir /\ mode = "contents"
    <2>1. Delete(e)
      BY <1>2 DEF CloseSearch
    <2>2. UNCHANGED <<before, created>>
      BY <2>1 DEF Delete, ghostVars
    <2>3. stack' \in Seq(Search) /\ StackInv' /\ Dirs' = Dirs \ {e} /\ Todos' = Todos
      BY <1>1, <2>2, PopInv DEF WalkInv
    <2>4. e \in Ahead \cap Known /\ Ahead' \subseteq Ahead \ {e}
      BY <1>1, <1>2, <2>2, <2>3, AheadAfterPop DEF WalkInv
    <2> HIDE DEF e
    <2>5. TreeInv' /\ KnownInv' /\ CountInv'
      BY <2>1, <2>3, <2>4, DeletionCounted DEF WalkInv
    <2>6. ListedInv(d)'
      BY <2>1, <2>3, <2>4, DeletionListed DEF WalkInv, Ahead
    <2> QED  BY <2>3, <2>5, <2>6 DEF WalkInv
  <1>3. CASE ~(e \in Dir /\ mode = "contents")
    <2>1. /\ UNCHANGED <<before, created, vanished, present, roots, inUse, unlistable>>
          /\ UNCHANGED <<mode, fileCount, dirCount, errorCount>>
      BY <1>3 DEF CloseSearch, treeVars, ghostVars
    <2>2. stack' \in Seq(Search) /\ StackInv' /\ Dirs' = Dirs \ {e} /\ Todos' = Todos
      BY <1>1, <2>1, PopInv DEF WalkInv
    <2>3. Ahead' \subseteq Ahead
      BY <1>1, <2>1, <2>2, AheadAfterPop DEF WalkInv
    <2>4. TreeInv' /\ KnownInv'
      BY <2>1, <2>2 DEF TreeInv, WalkInv, KnownInv, Known, Grounded
    <2>5. CountInv'
      BY <2>1, <2>3, <2>4, StillCounted DEF WalkInv, Known, Gone
    <2>6. ListedInv(d)'
      <3>1. CASE mode # "contents"
        BY <2>1, <3>1 DEF ListedInv
      <3>2. CASE e \notin Dir
        <4>1. e \in Root
          BY <1>1, <3>2, TopSearch, TreeAssumption DEF TreeInv, Search
        <4>2. \A x \in present : x # e
          BY <4>1, TreeAssumption DEF TreeInv, Entry
        <4>3. \A x \in present : Found(x) => Found(x)'
          BY <2>2, <4>2 DEF Found, Under
        <4> QED  BY <2>1, <4>3 DEF WalkInv, ListedInv, Under
      <3> QED  BY <1>3, <3>1, <3>2
    <2> QED  BY <2>2, <2>4, <2>5, <2>6 DEF WalkInv
  <1> QED  BY <1>2, <1>3

\* Every step of a walk.
LEMMA WalkStepInv ==
    ASSUME TreeInv, NEW d, WalkInv(d), WalkStep
    PROVE  TreeInv' /\ WalkInv(d)'
  BY VisitInv, VisitDirInv, CloseSearchInv DEF WalkStep
\* Other processes open and close files.
LEMMA UseInv ==
    ASSUME TreeInv, NEW d, WalkInv(d), NEW e, Use(e) \/ Release(e)
    PROVE  TreeInv' /\ WalkInv(d)'
  <1>1. /\ UNCHANGED <<roots, present, unlistable, mode, stack, fileCount, dirCount, errorCount>>
        /\ UNCHANGED <<before, created, vanished>>
        /\ inUse' \subseteq present
    BY DEF Use, Release, walkVars, ghostVars, TreeInv
  <1>2. TreeInv'
    BY <1>1 DEF TreeInv, Grounded
  <1>3. Dirs' = Dirs /\ Todos' = Todos /\ Known' = Known /\ Gone' = Gone
    BY <1>1 DEF Dirs, Todos, Known, Gone
  <1>4. StackInv' /\ KnownInv'
    BY <1>1, <1>3 DEF WalkInv, StackInv, KnownInv, Grounded
  <1>5. Ahead' = Ahead
    BY <1>3 DEF Ahead, Waiting
  <1>6. CountInv' /\ ListedInv(d)'
    BY <1>1, <1>3, <1>5 DEF WalkInv, CountInv, ListedInv, Found
  <1> QED  BY <1>2, <1>4, <1>6 DEF WalkInv

\* They create an entry.
LEMMA CreateInv ==
    ASSUME TreeInv, NEW d, WalkInv(d), NEW e \in Entry, Create(e)
    PROVE  TreeInv' /\ WalkInv(d)'
  <1>1. /\ e \notin present \cup before \cup created
        /\ Parent[e] \in roots \cup present
        /\ present' = present \cup {e} /\ created' = created \cup {e}
        /\ UNCHANGED <<roots, inUse, unlistable, mode, fileCount, dirCount, errorCount, before, vanished>>
    BY DEF Create, Exists
  <1>2. /\ stack' \in Seq(Search) /\ StackInv'
        /\ Dirs' = Dirs /\ Todos \subseteq Todos' /\ Todos' \subseteq Todos \cup {e}
    BY JoinInv DEF WalkInv
  <1>3. Grounded(present', roots')
    BY <1>1 DEF TreeInv, Grounded
  <1>4. TreeInv'
    BY <1>1, <1>2, <1>3 DEF TreeInv
  <1>5. KnownInv'
    BY <1>1 DEF WalkInv, KnownInv, Known, Grounded, TreeInv
  <1>6. Known' = Known \cup {e} /\ e \notin Known
    BY <1>1 DEF Known
  <1>7. Gone' = Gone
    BY <1>1, <1>6 DEF Gone
  <1>8. Waiting' \subseteq Waiting
    BY <1>2, <1>6 DEF Waiting
  <1>9. Ahead' \subseteq Ahead
    BY <1>2, <1>8 DEF Ahead
  <1>10. CountInv'
    BY <1>1, <1>4, <1>6, <1>7, <1>9, StillCounted DEF WalkInv
  <1>11. \A x : Found(x) => Found(x)'
    BY <1>2 DEF Found, Under
  <1>12. ListedInv(d)'
    BY <1>1, <1>11 DEF WalkInv, ListedInv, Under
  <1> QED  BY <1>2, <1>4, <1>5, <1>10, <1>12 DEF WalkInv

\* They delete a file.
LEMMA VanishInv ==
    ASSUME TreeInv, NEW d, WalkInv(d), NEW e, Vanish(e)
    PROVE  TreeInv' /\ WalkInv(d)'
  <1>1. /\ e \in present \ inUse /\ e \in File
        /\ present' = present \ {e} /\ vanished' = vanished \cup {e}
        /\ UNCHANGED <<roots, inUse, unlistable, mode, stack, fileCount, dirCount, errorCount>>
        /\ UNCHANGED <<before, created>>
    BY DEF Vanish, walkVars
  <1>2. Children(e) = {}
    BY <1>1, TreeAssumption DEF Children, TreeInv, Entry
  <1>3. Grounded(present', roots')
    BY <1>1, <1>2, StillGrounded DEF TreeInv
  <1>4. TreeInv'
    BY <1>1, <1>3 DEF TreeInv
  <1>5. KnownInv'
    BY <1>1 DEF WalkInv, KnownInv, Known, Grounded
  <1>6. Dirs' = Dirs /\ Todos' = Todos /\ Known' = Known
    BY <1>1 DEF Dirs, Todos, Known
  <1>7. Gone' = Gone
    BY <1>1, <1>6 DEF Gone
  <1>8. Ahead' = Ahead
    BY <1>6 DEF Ahead, Waiting
  <1>9. StackInv'
    BY <1>1, <1>6 DEF WalkInv, StackInv
  <1>10. CountInv' /\ ListedInv(d)'
    BY <1>1, <1>6, <1>7, <1>8 DEF WalkInv, CountInv, ListedInv, Found
  <1> QED  BY <1>4, <1>5, <1>9, <1>10 DEF WalkInv

\* Whatever they do.
LEMMA OthersInv ==
    ASSUME TreeInv, NEW d, WalkInv(d), Others
    PROVE  TreeInv' /\ WalkInv(d)'
  BY UseInv, CreateInv, VanishInv DEF Others

-----------------------------------------------------------------------------
(* Before a walk and after it.                                             *)

\* The walk of a root that is there begins.
LEMMA StartWalkInv ==
    ASSUME TreeInv, NEW d \in Root, Exists(d), NEW m \in {"contents", "targets"}, StartWalk(d, m)
    PROVE  TreeInv' /\ WalkInv(d)'
  <1>1. /\ fileCount' = 0 /\ dirCount' = 0 /\ errorCount' = 0 /\ mode' = m
        /\ stack' = Opened(d)
        /\ before' = present /\ created' = {} /\ vanished' = {}
        /\ UNCHANGED <<roots, present, inUse, unlistable>>
    BY DEF StartWalk, treeVars
  <1> DEFINE s == [dir |-> d, todo |-> Children(d)]
  <1>2. s \in Search /\ s.dir = d /\ s.todo = Children(d)
    BY DEF Search, Children, TreeInv
  <1>3. stack' = (IF d \notin unlistable THEN <<s>> ELSE <<>>)
    BY <1>1 DEF Opened
  <1> HIDE DEF s
  <1>4. stack' \in Seq(Search)
    BY <1>2, <1>3
  <1>5. Grounded(present', roots')
    BY <1>1 DEF TreeInv, Grounded
  <1>6. TreeInv'
    BY <1>1, <1>4, <1>5 DEF TreeInv
  <1>7. Known' = present /\ Gone' = {}
    BY <1>1 DEF Known, Gone
  <1>8. Grounded(Known', Root)
    BY <1>7 DEF TreeInv, Grounded
  <1>9. KnownInv'
    BY <1>1, <1>7, <1>8 DEF KnownInv
  <1>10. Dirs' = (IF d \notin unlistable THEN {d} ELSE {})
         /\ Todos' = (IF d \notin unlistable THEN Children(d) ELSE {})
    <2>1. CASE d \notin unlistable
      <3>1. DOMAIN stack' = {1} /\ stack'[1] = s
        BY <1>3, <2>1
      <3>2. Dirs' = {d}
        BY <1>2, <3>1 DEF Dirs
      <3>3. Todos' = Children(d)
        BY <1>2, <3>1 DEF Todos
      <3> QED  BY <2>1, <3>2, <3>3
    <2>2. CASE d \in unlistable
      <3>1. DOMAIN stack' = {}
        BY <1>3, <2>2
      <3> QED  BY <2>2, <3>1 DEF Dirs, Todos
    <2> QED  BY <2>1, <2>2
  <1>11. StackInv'
    <2>1. Dirs' \subseteq (Root \cup before \cup created)'
      BY <1>10
    <2>2. Todos' \subseteq ((before \cup created) \ Dirs)'
      BY <1>1, <1>10, TreeAssumption DEF Children, TreeInv, Entry
    <2>3. ASSUME NEW i \in DOMAIN stack'
          PROVE  /\ \A x \in stack'[i].todo : Parent[x] = stack'[i].dir
                 /\ i < Len(stack') => stack'[i].dir \in Dir /\ Parent[stack'[i].dir] = stack'[i + 1].dir
                 /\ i = Len(stack') => stack'[i].dir \in Root
                 /\ \A j \in DOMAIN stack' : stack'[i].dir = stack'[j].dir => i = j
      <3>1. stack' = <<s>>
        BY <1>3, <2>3
      <3>2. i = 1 /\ Len(stack') = 1 /\ stack'[i] = s /\ DOMAIN stack' = {1}
        BY <2>3, <3>1
      <3> QED  BY <1>2, <3>2 DEF Children
    <2> QED  BY <2>1, <2>2, <2>3 DEF StackInv
  <1>12. CountInv'
    <2>1. Cardinality(Gone') = 0
      BY <1>7, FS_EmptySet
    <2>2. Cardinality((Known \ (Gone \cup Ahead))') \in Nat
      <3>1. (Known \ (Gone \cup Ahead))' \in SUBSET Entry
        BY <1>7 DEF TreeInv
      <3> QED  BY <3>1, Countable
    <2>3. fileCount' + dirCount' = Cardinality(Gone')
      BY <1>1, <2>1
    <2>4. errorCount' <= Cardinality((Known \ (Gone \cup Ahead))')
      BY <1>1, <2>2
    <2> QED  BY <1>7, <2>3, <2>4 DEF CountInv
  <1>13. ASSUME d \notin unlistable, NEW x \in present, Under(x, d) PROVE Found(x)'
    <2>1. PICK c \in Children(d) : x = c \/ Under(x, c)
      BY <1>13, UnderByChild DEF TreeInv
    <2> QED  BY <1>10, <1>13, <2>1 DEF Found, Under
  <1>14. ListedInv(d)'
    BY <1>1, <1>13 DEF ListedInv, Under
  <1> QED  BY <1>6, <1>9, <1>11, <1>12, <1>14 DEF WalkInv

\* The counters and the searches are forgotten.
LEMMA ForgetWalkInv ==
    ASSUME TreeInv, ForgetWalk
    PROVE  TreeInv'
  BY DEF ForgetWalk, TreeInv, treeVars, Grounded

\* A root that holds nothing is removed.
LEMMA RootRemoved ==
    ASSUME TreeInv, NEW d, Children(d) = {}, roots' = roots \ {d},
           UNCHANGED <<present, inUse, unlistable, walkVars, ghostVars>>
    PROVE  TreeInv'
  BY DEF TreeInv, walkVars, ghostVars, Grounded, Children

-----------------------------------------------------------------------------
(* What follows.                                                           *)

\* At the end of a walk without an error nothing that was there is left.
LEMMA NothingLeft ==
    ASSUME NEW d, ListedInv(d), ~Walking, mode = "contents", errorCount = 0, d \notin unlistable
    PROVE  \A e \in before \cap present : ~Under(e, d)
  <1>1. DOMAIN stack = {}
    BY DEF Walking
  <1>2. Dirs = {} /\ Todos = {}
    BY <1>1 DEF Dirs, Todos
  <1> QED  BY <1>2 DEF ListedInv, Found

\* No entry is counted twice.
LEMMA CountedOnce ==
    ASSUME TreeInv, CountInv
    PROVE  /\ fileCount + dirCount = Cardinality(Gone)
           /\ fileCount + dirCount + errorCount <= Cardinality(Known)
  <1> DEFINE T == Known \ (Gone \cup Ahead)
             U == Known \ Gone
  <1>1. Known \in SUBSET Entry /\ Gone \in SUBSET Known /\ T \in SUBSET U /\ U \in SUBSET Entry
    BY DEF Known, Gone, TreeInv
  <1>2. errorCount <= Cardinality(T)
    BY DEF CountInv
  <1> HIDE DEF T
  <1>3. IsFiniteSet(Known) /\ IsFiniteSet(U) /\ IsFiniteSet(Gone)
    BY <1>1, Countable
  <1>4. Cardinality(U) = Cardinality(Known) - Cardinality(Known \cap Gone)
    BY <1>3, FS_Difference
  <1>5. Known \cap Gone = Gone
    BY <1>1
  <1>6. Cardinality(T) <= Cardinality(U) /\ Cardinality(T) \in Nat
    <2>1. T \in SUBSET Entry
      BY <1>1
    <2> QED  BY <1>1, <1>3, <2>1, FS_Subset, Countable
  <1>7. Cardinality(Known) \in Nat /\ Cardinality(Gone) \in Nat /\ Cardinality(U) \in Nat
    BY <1>1, Countable
  <1>8. fileCount + dirCount = Cardinality(Gone)
    BY DEF CountInv
  <1>9. errorCount \in Nat /\ fileCount \in Nat /\ dirCount \in Nat
    BY DEF TreeInv
  <1> HIDE DEF U
  <1> QED  BY <1>2, <1>4, <1>5, <1>6, <1>7, <1>8, <1>9

-----------------------------------------------------------------------------
(* Where the walk is: nowhere but in its folder.                           *)

\* The searches are in d, at any depth, and so is what they will return.
PlaceInv(d) ==
    /\ \A x \in Dirs : x = d \/ (x \in Entry /\ Under(x, d))
    /\ \A x \in Todos : x \in Entry /\ Under(x, d)

\* As long as a search is opened only in what another has returned.
LEMMA Placed ==
    ASSUME TreeInv', StackInv', NEW d, PlaceInv(d), Dirs' \subseteq Dirs \cup Todos
    PROVE  PlaceInv(d)'
  <1>1. \A x \in Dirs' : x = d \/ (x \in Entry /\ Under(x, d))
    BY DEF PlaceInv
  <1>2. ASSUME NEW x \in Todos' PROVE x \in Entry /\ Under(x, d)
    <2>1. PICK i \in DOMAIN stack' : x \in stack'[i].todo
      BY <1>2 DEF Todos
    <2>2. stack'[i] \in Search
      BY <2>1 DEF TreeInv
    <2>3. Parent[x] = stack'[i].dir
      BY <2>1 DEF StackInv
    <2>4. Parent[x] \in Dirs'
      BY <2>1, <2>3 DEF Dirs
    <2>5. x \in Entry
      BY <2>1, <2>2 DEF Search
    <2> QED  BY <1>1, <2>4, <2>5, UnderChild
  <1>3. \A x \in Todos' : x \in Entry /\ Under(x, d)
    BY <1>2
  <1> QED  BY <1>1, <1>3 DEF PlaceInv, Under

\* It is so at the start of a walk.
LEMMA PlaceStart ==
    ASSUME TreeInv, NEW d, NEW m, StartWalk(d, m)
    PROVE  PlaceInv(d)'
  <1> DEFINE s == [dir |-> d, todo |-> Children(d)]
  <1>1. stack' = <<s>> \/ stack' = <<>>
    BY DEF StartWalk, Opened
  <1>2. s.dir = d /\ s.todo = Children(d)
    OBVIOUS
  <1> HIDE DEF s
  <1>3. \A i \in DOMAIN stack' : stack'[i] = s
    BY <1>1
  <1>4. Dirs' \subseteq {d} /\ Todos' \subseteq Children(d)
    BY <1>2, <1>3 DEF Dirs, Todos
  <1>5. \A x \in Children(d) : x \in Entry /\ Under(x, d)
    BY UnderChild DEF Children, TreeInv
  <1> QED  BY <1>4, <1>5 DEF PlaceInv, Under

\* And each step of the walk keeps it so.
LEMMA WalkStepPlace ==
    ASSUME TreeInv, NEW d, WalkInv(d), PlaceInv(d), WalkStep
    PROVE  PlaceInv(d)'
  <1>1. TreeInv' /\ StackInv'
    BY WalkStepInv DEF WalkInv
  <1>2. ASSUME NEW e \in Entry, VisitFile(e) \/ VisitUnlistable(e) PROVE Dirs' \subseteq Dirs
    <2>1. Walking /\ e \in Head(stack).todo /\ GoOn(e, <<>>)
      BY <1>2 DEF VisitFile, VisitUnlistable
    <2>2. UNCHANGED <<before, created>>
      BY <1>2 DEF VisitFile, VisitUnlistable, Delete, ghostVars
    <2> QED  BY <2>1, <2>2, AdvanceInv DEF WalkInv
  <1>3. ASSUME NEW e \in Entry, VisitDir(e) PROVE Dirs' \subseteq Dirs \cup Todos
    <2>1. /\ Walking /\ e \in Head(stack).todo /\ e \in Dir
          /\ GoOn(e, <<[dir |-> e, todo |-> Children(e)]>>)
      BY <1>3 DEF VisitDir, Opened
    <2>2. UNCHANGED <<before, created>> /\ present \subseteq before \cup created
      BY <1>3 DEF VisitDir, ghostVars, WalkInv, KnownInv, Known
    <2>3. Dirs' = Dirs \cup {e}
      BY <2>1, <2>2, PushInv DEF WalkInv
    <2> QED  BY <2>1, <2>3, OnceReturned DEF WalkInv
  <1>4. CASE CloseSearch
    <2>1. Walking /\ Head(stack).todo = {} /\ stack' = Tail(stack)
      BY <1>4 DEF CloseSearch
    <2>2. UNCHANGED <<before, created>>
      BY <1>4 DEF CloseSearch, Delete, ghostVars
    <2>3. Dirs' \subseteq Dirs
      BY <2>1, <2>2, PopInv DEF WalkInv
    <2> QED  BY <1>1, <2>3, Placed
  <1> QED  BY <1>1, <1>2, <1>3, <1>4, Placed DEF WalkStep

\* Others do not move it.
LEMMA OthersPlace ==
    ASSUME TreeInv, NEW d, WalkInv(d), PlaceInv(d), Others
    PROVE  PlaceInv(d)'
  <1>1. TreeInv' /\ StackInv'
    BY OthersInv DEF WalkInv
  <1>2. CASE \E e \in Entry : Create(e)
    BY <1>1, <1>2, JoinInv, Placed DEF WalkInv
  <1>3. CASE \E e \in Entry : Use(e) \/ Release(e) \/ Vanish(e)
    <2>1. UNCHANGED stack
      BY <1>3 DEF Use, Release, Vanish, walkVars
    <2> QED  BY <2>1 DEF PlaceInv, Dirs, Todos, Under
  <1> QED  BY <1>2, <1>3 DEF Others

\* A step of the walk deletes an entry of its folder, and in the walk of targets a
\* target, or fails to, or leaves everything as it is.
LEMMA WalkDeletes ==
    ASSUME TreeInv, NEW d \in Root, WalkInv(d), PlaceInv(d), WalkStep
    PROVE  \/ \E e \in Entry : /\ Under(e, d) /\ (mode # "contents" => e \in Target)
                               /\ Delete(e)
           \/ UNCHANGED <<treeVars, mode, fileCount, dirCount, errorCount, ghostVars>>
  <1>1. ASSUME NEW e \in Entry, VisitFile(e) \/ VisitDir(e) \/ VisitUnlistable(e)
        PROVE  \/ /\ Under(e, d) /\ (mode # "contents" => e \in Target)
                  /\ Delete(e)
               \/ UNCHANGED <<treeVars, mode, fileCount, dirCount, errorCount, ghostVars>>
    <2>1. Walking /\ e \in Head(stack).todo
      BY <1>1 DEF VisitFile, VisitDir, VisitUnlistable
    <2>2. Under(e, d)
      BY <2>1, OnceReturned DEF PlaceInv, WalkInv
    <2> QED  BY <1>1, <2>2 DEF VisitFile, VisitDir, VisitUnlistable
  <1>2. CASE CloseSearch
    <2>1. Walking /\ Head(stack).dir \in Dirs
      BY <1>2, TopSearch DEF CloseSearch, TreeInv
    <2>2. CASE Head(stack).dir \in Dir /\ mode = "contents"
      <3>1. PICK e : e = Head(stack).dir
        OBVIOUS
      <3>2. e \in Dirs /\ e \in Dir /\ e # d
        BY <2>1, <2>2, <3>1, TreeAssumption
      <3>3. e \in Entry /\ Under(e, d)
        BY <3>2 DEF PlaceInv
      <3>4. Delete(e)
        BY <1>2, <2>2, <3>1 DEF CloseSearch
      <3> QED  BY <2>2, <3>3, <3>4
    <2>3. CASE ~(Head(stack).dir \in Dir /\ mode = "contents")
      BY <1>2, <2>3 DEF CloseSearch
    <2> QED  BY <2>2, <2>3
  <1> QED  BY <1>1, <1>2 DEF WalkStep

=============================================================================
