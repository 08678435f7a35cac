---------------------------- MODULE AllocatorOps ----------------------------
(***************************************************************************)
(* The calls of memory/Allocator.c as operators on a heap: the tree of     *)
(* allocators, adoption, and the jobs that run when an allocator is freed. *)
(* The memory an allocator hands out is abstracted to whether the          *)
(* allocator still exists; sizes and the limit of the root are left out.   *)
(* A job is asynchronous when its callback returns                         *)
(* Allocator_ONFREE_ASYNC: it holds the memory until                       *)
(* Allocator_onFreeComplete is called for it, from the event loop.         *)
(***************************************************************************)
EXTENDS Integers, SequencesExt

CONSTANTS
    Alloc,        \* the allocators that can be made
    root,         \* the one made by Allocator_new
    Job           \* the onFree jobs that can be registered

(* A job that is in no list, having run so many times. *)
Ended(state, runs) ==
    [state |-> state, kind |-> "none", alloc |-> root, mem |-> root, runs |-> runs]

(* Allocator_new. *)
NewHeap ==
    [parent    |-> [a \in Alloc |-> root],
     children  |-> [a \in Alloc |-> <<>>],
     adParents |-> [a \in Alloc |-> <<>>],  \* adoptions->parents
     adKids    |-> [a \in Alloc |-> <<>>],  \* adoptions->children
     isFreeing |-> {},
     live      |-> {root},                  \* memory not released
     onFree    |-> [a \in Alloc |-> <<>>],  \* the list of jobs of each
     job       |-> [j \in Job |-> Ended("unused", 0)]]

-----------------------------------------------------------------------------
(* The links of the tree.  New children and new adoptions go to the front. *)

disconnect(h, c) == [h EXCEPT !.children[h.parent[c]] = Remove(@, c)]

connect(h, p, c) == [h EXCEPT !.children[p] = <<c>> \o @, !.parent[c] = p]

disconnectAdopted(h, p, c) ==
    [h EXCEPT !.adKids[p] = RemoveFirst(@, c), !.adParents[c] = RemoveFirst(@, p)]

(* The allocators depth levels below a, in the order a walk meets them. *)
RECURSIVE Level(_, _, _)
Level(h, a, depth) ==
    IF depth = 0 THEN <<a>>
    ELSE FlattenSeq([i \in 1 .. Len(h.children[a]) |-> Level(h, h.children[a][i], depth - 1)])

(* What is below a: each child, followed by what is below it. *)
RECURSIVE Below(_, _)
Below(h, a) ==
    FlattenSeq([i \in 1 .. Len(h.children[a]) |->
                  <<h.children[a][i]>> \o Below(h, h.children[a][i])])

-----------------------------------------------------------------------------
(* Freeing. *)

(* The allocator moves to the adopted parent that it got last. *)
Pivot(h, a) ==
    LET p == Head(h.adParents[a])
    IN  disconnectAdopted(connect(disconnect(h, a), p, a), p, a)

(* pivotChildrenToAdoptedParents0 at one allocator: it moves, or it drops     *)
(* what it adopted and is freed.                                              *)
Visit(s, a) ==
    IF a \in s.h.isFreeing THEN s
    ELSE IF s.h.adParents[a] # <<>> THEN [s EXCEPT !.h = Pivot(s.h, a)]
    ELSE LET dropped == FoldLeft(LAMBDA h, c : disconnectAdopted(h, a, c), s.h, s.h.adKids[a])
         IN  [h |-> [dropped EXCEPT !.isFreeing = @ \cup {a}], out |-> s.out + 1]

(* pivotChildrenToAdoptedParents: one level after the other, until a level    *)
(* with nothing more to free.                                                 *)
RECURSIVE pivotChildrenToAdoptedParents(_, _, _)
pivotChildrenToAdoptedParents(h, a, depth) ==
    LET s == FoldLeft(Visit, [h |-> h, out |-> 0], Level(h, a, depth))
    IN  IF s.out = 0 THEN s.h ELSE pivotChildrenToAdoptedParents(s.h, a, depth + 1)

(* Mutant of marshalOnFreeJobs: the jobs of what is below are not taken over. *)
MarshalOwnLevel(h, a) == h

(* marshalOnFreeJobs: the jobs of everything below a, after its own. *)
marshalOnFreeJobs(h, a) ==
    LET below == Below(h, a)
        jobs == h.onFree[a] \o FlattenSeq([i \in 1 .. Len(below) |-> h.onFree[below[i]]])
    IN  [h EXCEPT !.onFree = [x \in Alloc |-> IF x = a THEN jobs
                                              ELSE IF x \in ToSet(below) THEN <<>> ELSE @[x]],
                  !.job = [j \in Job |-> IF j \in ToSet(jobs) THEN [@[j] EXCEPT !.alloc = a]
                                         ELSE @[j]]]

(* doOnFreeJobs on one job: it runs unless it has no callback or was called. *)
Ran(job) ==
    LET runs == IF job.state = "waiting" /\ job.kind # "none" THEN job.runs + 1 ELSE job.runs
    IN  IF job.state = "called" \/ job.kind = "async"
        THEN [job EXCEPT !.state = "called", !.runs = runs]
        ELSE Ended("done", runs)

doOnFreeJobs(h, a) ==
    [h EXCEPT !.job = [j \in Job |-> IF j \in ToSet(h.onFree[a]) THEN Ran(@[j]) ELSE @[j]],
              !.onFree[a] = SelectSeq(@, LAMBDA j : Ran(h.job[j]).state = "called")]

(* freeAllocator: a and all below it are released, and leave the tree. *)
freeAllocator(h, a) ==
    LET gone == ToSet(<<a>> \o Below(h, a))
        cut == IF h.parent[a] \in h.isFreeing THEN h ELSE disconnect(h, a)
        Cleared(f) == [x \in Alloc |-> IF x \in gone THEN <<>> ELSE f[x]]
    IN  [cut EXCEPT !.live = @ \ gone,
                    !.parent = [x \in Alloc |-> IF x \in gone THEN root ELSE @[x]],
                    !.children = Cleared(@),
                    !.adParents = Cleared(@),
                    !.adKids = Cleared(@),
                    !.onFree = Cleared(@)]

Allocator__free(h, a) ==
    IF a \in h.isFreeing THEN h
    ELSE LET pivoted == pivotChildrenToAdoptedParents(h, a, 0)
             ran == doOnFreeJobs(marshalOnFreeJobs(pivoted, a), a)
         IN  IF a \notin pivoted.isFreeing THEN pivoted
             ELSE IF ran.onFree[a] # <<>> THEN ran
             ELSE freeAllocator(ran, a)

Allocator_onFreeComplete(h, j) ==
    LET a == h.job[j].alloc
        left == [h EXCEPT !.onFree[a] = Remove(@, j), !.job[j] = Ended("done", @.runs)]
    IN  IF left.onFree[a] = <<>> THEN freeAllocator(left, a) ELSE left

-----------------------------------------------------------------------------
(* The other calls. *)

Allocator__child(h, p, a) ==
    LET made == connect(h, p, a)
    IN  [made EXCEPT !.isFreeing = IF p \in @ THEN @ \cup {a} ELSE @, !.live = @ \cup {a}]

(* isAncestorOf: the loop over the adopted parents does not advance, so that  *)
(* it ends only when the first of them has the ancestor.                      *)
RECURSIVE isAncestorOf(_, _, _)
isAncestorOf(h, maybeParent, maybeChild) ==
    IF maybeParent = maybeChild THEN "yes"
    ELSE IF maybeChild = root THEN "no"
    ELSE LET above == isAncestorOf(h, maybeParent, h.parent[maybeChild])
             adopters == h.adParents[maybeChild]
         IN  IF above # "no" THEN above
             ELSE IF adopters = <<>> THEN "no"
             ELSE IF isAncestorOf(h, maybeParent, Head(adopters)) = "yes" THEN "yes"
             ELSE "never returns"

Allocator__adopt(h, p, c) ==
    IF p \in h.isFreeing \/ isAncestorOf(h, c, p) = "yes" THEN h
    ELSE [h EXCEPT !.adKids[p] = <<c>> \o @, !.adParents[c] = <<p>> \o @]

(* Mutant of Allocator__disown: the adoption is undone in the lists alone. *)
DisownListsOnly(h, p, c) == disconnectAdopted(h, p, c)

Allocator__disown(h, p, c) ==
    IF p \in h.isFreeing \/ c \in h.isFreeing THEN h
    ELSE IF h.parent[c] = p THEN Allocator__free(h, c)
    ELSE IF isAncestorOf(h, c, p) = "yes" THEN h
    ELSE disconnectAdopted(h, p, c)

(* The topmost allocator being freed that a is part of, or a. *)
RECURSIVE FreeingTop(_, _)
FreeingTop(h, a) ==
    IF a \in h.isFreeing /\ a # root /\ h.parent[a] \in h.isFreeing
    THEN FreeingTop(h, h.parent[a]) ELSE a

Allocator__onFree(h, a, j, kind) ==
    LET top == FreeingTop(h, a)
    IN  [h EXCEPT !.onFree[top] = Append(@, j),
                  !.job[j] = [state |-> "waiting", kind |-> kind, alloc |-> top,
                              mem |-> a, runs |-> 0]]

Allocator_cancelOnFree(h, j) ==
    [h EXCEPT !.onFree[h.job[j].alloc] = Remove(@, j), !.job[j] = Ended("cancelled", 0)]
=============================================================================
