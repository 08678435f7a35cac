----------------------------- MODULE Allocator -----------------------------
(***************************************************************************)
(* A heap used by callers that keep to the rules of memory/Allocator.h:    *)
(* each owns what it names, frees an allocator once, adopts what it did    *)
(* not make and does not hold, disowns what it adopted, and calls on no    *)
(* allocator that was released.                                            *)
(*                                                                         *)
(* claims is not in the code: it records, from the calls alone, who still  *)
(* wants an allocator.                                                     *)
(***************************************************************************)
EXTENDS AllocatorOps

CONSTANTS
    Kinds,        \* of "none" (no callback), "sync" and "async"
    MaxAdoptions  \* bound: adoptions

ASSUME AllocatorAssumption ==
    /\ root \in Alloc
    /\ Kinds \subseteq {"none", "sync", "async"}
    /\ MaxAdoptions \in Nat

VARIABLES
    heap,
    unborn,    \* the allocators not yet made
    hung,      \* a call was made that never returns
    claims,    \* claims[c]: who asked for c to exist and has not let go
    adoptions  \* how many adoptions were asked for

allocatorVars == <<heap, unborn, hung, claims, adoptions>>

AllocatorInit ==
    /\ heap = NewHeap
    /\ unborn = Alloc \ {root}
    /\ hung = FALSE
    /\ claims = [a \in Alloc |-> {}]
    /\ adoptions = 0

Made(p) == [how |-> "made", by |-> p]
Adopted(p) == [how |-> "adopted", by |-> p]

(* The claims once one on a is given up; nobody claims what was released. *)
LetGo(a, claim) ==
    [x \in Alloc |-> IF x \notin heap'.live THEN {}
                     ELSE IF x = a THEN claims[a] \ {claim} ELSE claims[x]]

InUse == heap.live \ heap.isFreeing

(* One that was never made is like any other.                              *)
MakeChild(p) ==
    LET a == CHOOSE x \in unborn : TRUE
    IN  /\ ~hung /\ p \in heap.live /\ unborn # {}
        /\ heap' = Allocator__child(heap, p, a)
        /\ unborn' = unborn \ {a}
        /\ claims' = [claims EXCEPT ![a] = {Made(p)}]
        /\ UNCHANGED <<hung, adoptions>>

(* By the one who made it, unless that was freed and has thereby let go.   *)
Free(a) ==
    /\ ~hung /\ a \in InUse
    /\ heap' = Allocator__free(heap, a)
    /\ \E p \in Alloc :
           /\ a = root \/ Made(p) \in claims[a]
           /\ p \notin heap.isFreeing
           /\ claims' = LetGo(a, Made(p))
    /\ UNCHANGED <<unborn, hung, adoptions>>

(* Adoption by an allocator that is being freed does nothing and is left out; *)
(* so does adoption by a descendant.                                          *)
Adopt(p, c) ==
    /\ ~hung /\ p \in InUse /\ c \in InUse
    /\ p # c /\ claims[c] \cap {Made(p), Adopted(p)} = {}
    /\ adoptions < MaxAdoptions /\ adoptions' = adoptions + 1
    /\ IF isAncestorOf(heap, c, p) = "never returns"
       THEN hung' = TRUE /\ UNCHANGED <<heap, claims>>
       ELSE /\ heap' = Allocator__adopt(heap, p, c)
            /\ claims' = IF heap' = heap THEN claims
                         ELSE [claims EXCEPT ![c] = @ \cup {Adopted(p)}]
            /\ UNCHANGED hung
    /\ UNCHANGED unborn

Disown(p, c) ==
    /\ ~hung /\ p \in InUse /\ c \in InUse
    /\ Adopted(p) \in claims[c]
    /\ IF heap.parent[c] # p /\ isAncestorOf(heap, c, p) = "never returns"
       THEN hung' = TRUE /\ UNCHANGED <<heap, claims>>
       ELSE /\ heap' = Allocator__disown(heap, p, c)
            /\ claims' = LetGo(c, Adopted(p))
            /\ UNCHANGED hung
    /\ UNCHANGED <<unborn, adoptions>>

OnFree(a, kind) ==
    LET unused == {j \in Job : heap.job[j].state = "unused"}
    IN  /\ ~hung /\ a \in heap.live /\ unused # {}
        /\ heap' = Allocator__onFree(heap, a, CHOOSE j \in unused : TRUE, kind)
        /\ UNCHANGED <<unborn, hung, claims, adoptions>>

(* Nobody cancels a job of what is being freed: nothing would release that    *)
(* memory if the job was the last one left.                                   *)
CancelOnFree(j) ==
    /\ ~hung /\ heap.job[j].state = "waiting" /\ heap.job[j].alloc \notin heap.isFreeing
    /\ heap' = Allocator_cancelOnFree(heap, j)
    /\ UNCHANGED <<unborn, hung, claims, adoptions>>

OnFreeComplete(j) ==
    /\ ~hung /\ heap.job[j].state = "called"
    /\ heap' = Allocator_onFreeComplete(heap, j)
    /\ claims' = LetGo(root, Made(root))
    /\ UNCHANGED <<unborn, hung, adoptions>>

AllocatorNext ==
    \/ \E p \in Alloc : MakeChild(p)
    \/ \E a \in Alloc : Free(a)
    \/ \E p, c \in Alloc : Adopt(p, c)
    \/ \E p, c \in Alloc : Disown(p, c)
    \/ \E a \in Alloc, kind \in Kinds : OnFree(a, kind)
    \/ \E j \in Job : CancelOnFree(j)
    \/ \E j \in Job : OnFreeComplete(j)

AllocatorSpec == AllocatorInit /\ [][AllocatorNext]_allocatorVars

-----------------------------------------------------------------------------
(* An allocator is being freed exactly when everyone who asked for it has let *)
(* go: its maker freed it or was freed, and each adopter disowned it or was   *)
(* freed (Allocator.h on Allocator_adopt).                                    *)
KeptWhileHeld ==
    \A c \in heap.live \ {root} :
        c \in heap.isFreeing <=> \A claim \in claims[c] : claim.by \in heap.isFreeing

(* Some job was registered with an allocator after the jobs of that had run. *)
LateJob ==
    \E j \in Job : heap.job[j].state = "waiting" /\ heap.job[j].alloc \in heap.isFreeing

(* Memory goes exactly when its jobs are done: none is released while a job   *)
(* registered with it has yet to run or to complete, no job runs twice, and   *)
(* what is being freed is held by a job that was called and will complete,    *)
(* or by one registered too late.  Jobs move to the top of what is freed      *)
(* meanwhile (doOnFreeJobs, marshalOnFreeJobs, Allocator_onFreeComplete).     *)
ReleasedWhenJobsDone ==
    /\ \A j \in Job : LET job == heap.job[j] IN
           /\ job.state \in {"waiting", "called"} => {job.mem, job.alloc} \subseteq heap.live
           /\ job.runs <= 1
    /\ \A a \in heap.live \cap heap.isFreeing :
           LateJob \/ \E j \in ToSet(heap.onFree[FreeingTop(heap, a)]) :
                          heap.job[j].state = "called"

(* What is not released hangs on the root, so that the bytes of the tree are  *)
(* the bytes handed out (check), and the two lists of every adoption agree    *)
(* and name nothing that is being freed (the assertions of                    *)
(* disconnectAdopted and pivotChildrenToAdoptedParents0).                     *)
Accounted ==
    /\ root \in heap.live => ToSet(<<root>> \o Below(heap, root)) = heap.live
    /\ \A p, c \in heap.live :
           c \in ToSet(heap.adKids[p]) <=> p \in ToSet(heap.adParents[c])
    /\ \A p \in heap.live :
           /\ ToSet(heap.adKids[p]) \cup ToSet(heap.adParents[p]) \subseteq InUse
           /\ p \in heap.isFreeing => heap.adKids[p] = <<>> /\ heap.adParents[p] = <<>>
=============================================================================
