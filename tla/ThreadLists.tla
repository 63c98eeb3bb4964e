---------------------------- MODULE ThreadLists -----------------------------
(***************************************************************************)
(* The threads of one process (old_kernel/threads.c): a tree of parents and *)
(* children and a list in the order of their making, which both begin at    *)
(* proc->threads. The collector takes one thread out (detach_thread), or    *)
(* walks the list when it deletes the process (smk/smk_gc.c).               *)
(***************************************************************************)
EXTENDS Naturals, FiniteSets

CONSTANTS
    Family,     \* threads that a process may have at a time
    NoOne       \* NULL

ASSUME FamilyAssumption == IsFiniteSet(Family) /\ NoOne \notin Family

VARIABLES
    root,       \* proc->threads
    link,       \* the six pointers of each struct thread
    attached,   \* who is in threads_htable
    gone,       \* the process has been deleted
    orphaned    \* history: the thread at the root left two others or more

familyVars == <<root, link, attached, gone, orphaned>>

Alone == [parent |-> NoOne, child |-> NoOne, left |-> NoOne, right |-> NoOne,
          before |-> NoOne, after |-> NoOne]

FamilyInit ==
    /\ root = NoOne
    /\ link = [t \in Family |-> Alone]
    /\ attached = {}
    /\ gone = FALSE
    /\ orphaned = FALSE

(* Writing through a pointer, if it is not NULL. *)
Via(l, t, field, value) == IF t = NoOne THEN l ELSE [l EXCEPT ![t][field] = value]

(* Whom the pointers in "fields" lead to. *)
Further(l, S, fields) == S \cup ({l[u][f] : u \in S, f \in fields} \ {NoOne})

Reached(l, t, fields) ==
    LET reach[n \in 0..Cardinality(Family)] ==
            IF n = 0 THEN {t} \ {NoOne} ELSE Further(l, reach[n - 1], fields)
    IN  reach[Cardinality(Family)]

EndOf(l, t, field) == CHOOSE u \in Reached(l, t, {field}) : l[u][field] = NoOne

(* attach_thread: at the end of the list, and the parent's first child. *)
Attach(parent, t) ==
    LET end == IF root = NoOne THEN NoOne ELSE EndOf(link, root, "after")
        listed == Via([link EXCEPT ![t].before = end], end, "after", t)
        eldest == IF parent = NoOne THEN NoOne ELSE link[parent].child
        born == [listed EXCEPT ![t].parent = parent, ![t].right = eldest]
    IN  /\ root' = IF root = NoOne THEN t ELSE root
        /\ link' = Via(Via(born, eldest, "left", t), parent, "child", t)
        /\ attached' = attached \cup {t}

(* exec's main thread, and threads that a thread of the process makes. *)
NewThread ==
    /\ ~gone
    /\ \E t \in Family :
        /\ t \notin attached
        /\ \/ attached = {} /\ Attach(NoOne, t)
           \/ \E parent \in attached : Attach(parent, t)
    /\ UNCHANGED <<gone, orphaned>>

(* detach_thread, first half: out of the list, from among the siblings, and *)
(* from under the parent.                                                   *)
Unlinked(t) ==
    LET me == link[t]
        listed == Via(Via(link, me.after, "before", me.before), me.before, "after", me.after)
        apart == Via(Via(listed, me.right, "left", me.left), me.left, "right", me.right)
    IN  IF me.parent # NoOne /\ link[me.parent].child = t
        THEN Via(apart, me.parent, "child", me.right) ELSE apart

(* Faulty variant: only the first child learns of its new parent. *)
FirstRaised(l, t) == [l EXCEPT ![l[t].child].parent = l[t].parent]

(* Second half: its children go to its parent, or are main threads now. *)
Raised(l, t) ==
    LET children == Reached(l, l[t].child, {"right"})
    IN  [u \in Family |-> IF u \in children THEN [l[u] EXCEPT !.parent = l[t].parent] ELSE l[u]]

Behind(l, first, child) ==
    LET end == EndOf(l, first, "right")
    IN  Via(Via(l, end, "right", child), child, "left", end)

Adopted(l, t, top) ==
    LET child == l[t].child
        parent == l[t].parent
        first == IF parent = NoOne THEN top ELSE l[parent].child
    IN  IF child = NoOne THEN l
        ELSE IF first # NoOne THEN Raised(Behind(l, first, child), t)
        ELSE Raised(Via(l, parent, "child", child), t)

RootAfter(t) == IF link[t].parent = NoOne /\ root = t THEN link[t].right ELSE root

Detach(t) ==
    LET top == RootAfter(t) IN
    /\ link' = [Adopted(Unlinked(t), t, top) EXCEPT ![t] = Alone]
    /\ root' = IF top = NoOne /\ link[t].parent = NoOne THEN link[t].child ELSE top
    /\ attached' = attached \ {t}

(* gc_cleanup of a thread: the process goes when nobody is left at its root. *)
Collect ==
    /\ ~gone
    /\ \E t \in attached :
        /\ Detach(t)
        /\ gone' = (root' = NoOne)
        /\ orphaned' = (orphaned \/ (t = root /\ Cardinality(attached) > 2))

(* gc_cleanup of a process: its loop reads the next thread's address before *)
(* it detaches one.                                                         *)
Reap ==
    /\ ~gone /\ attached # {}
    /\ attached' = attached \ Reached(link, root, {"after"})
    /\ gone' = TRUE
    /\ UNCHANGED <<root, link, orphaned>>

FamilyNext == NewThread \/ Collect \/ Reap

FamilySpec == FamilyInit /\ [][FamilyNext]_familyVars
-----------------------------------------------------------------------------
(* No thread is lost. A process that has one is not deleted for want of      *)
(* threads, and no pointer leads to a thread that was freed. A process that  *)
(* is deleted leaves none behind, to be run when its process is no more;     *)
(* this holds only while the list begins where the tree does: when a thread  *)
(* at the root has left two others, the younger is the root, and the walk    *)
(* from there misses the elder.                                              *)
NoThreadLost ==
    /\ ~gone => Reached(link, root, {"child", "right"}) = attached
    /\ ~gone => \A t \in attached, f \in DOMAIN Alone : link[t][f] \in attached \cup {NoOne}
    /\ gone /\ ~orphaned => attached = {}
(* Why: while the process lives, the pointers come in pairs that point back, *)
(* among the threads that are attached; a set of them that has the root and  *)
(* whoever its members' pointers lead to is all of them, in the tree, and so *)
(* is one that has the list's first, who is the root until it leaves two.    *)
Anyone == Family \cup {NoOne}
Links == [parent : Anyone, child : Anyone, left : Anyone, right : Anyone,
          before : Anyone, after : Anyone]

FamilyTypeOK ==
    /\ root \in Anyone /\ attached \subseteq Family
    /\ link \in [Family -> Links]
    /\ gone \in BOOLEAN /\ orphaned \in BOOLEAN

Enclosed ==
    /\ root \in attached \cup {NoOne}
    /\ \A t \in Family \ attached : link[t] = Alone
    /\ \A t \in attached, f \in DOMAIN Alone : link[t][f] \in attached \cup {NoOne}

Paired == \A t, u \in attached :
    /\ link[t].right = u <=> link[u].left = t
    /\ link[t].after = u <=> link[u].before = t
    /\ link[t].right = u => link[u].parent = link[t].parent
    /\ link[t].child = u <=> link[u].parent = t /\ link[u].left = NoOne

Tops == \A t \in attached : root = t <=> link[t].parent = NoOne /\ link[t].left = NoOne

IsFirst(t) == link[t].before = NoOne

TreeClosed(S) ==
    /\ root \in S \cup {NoOne}
    /\ \A u \in S : link[u].child \in S \cup {NoOne} /\ link[u].right \in S \cup {NoOne}

ListClosed(S) ==
    /\ \A t \in attached : IsFirst(t) => t \in S
    /\ \A u \in S : link[u].after \in S \cup {NoOne}

FamilyHeld ==
    /\ Enclosed /\ Paired /\ Tops
    /\ \A S \in SUBSET attached : TreeClosed(S) => S = attached
    /\ \A S \in SUBSET attached : ListClosed(S) => S = attached
    /\ \A t, u \in attached : IsFirst(t) /\ IsFirst(u) => t = u
    /\ ~orphaned /\ root # NoOne => IsFirst(root)

FamilyIInv ==
    /\ FamilyTypeOK
    /\ ~gone => FamilyHeld
    /\ gone /\ ~orphaned => attached = {}
=============================================================================
