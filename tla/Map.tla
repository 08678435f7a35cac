-------------------------------- MODULE Map --------------------------------
(***************************************************************************)
(* util/Map.h with keys and handles: parallel arrays kept in the order of  *)
(* their handles, found by key with a linear and by handle with a binary   *)
(* search.  The arrays are one sequence of entries; indices are 1-based    *)
(* and 0 stands for -1, "not found".                                       *)
(***************************************************************************)
EXTENDS Integers, Sequences, Functions

CONSTANTS
    Keys, Values,
    HandleMod,    \* handles are uint32_t: 2^32 in the code
    MaxPuts       \* bound: handles given out

ASSUME MapAssumption == HandleMod \in Nat \ {0} /\ MaxPuts \in Nat

VARIABLES
    entries,      \* the first count elements of handles, keys and values
    nextHandle,
    puts          \* history: how many handles were given out

mapVars == <<entries, nextHandle, puts>>

MapInit == entries = <<>> /\ nextHandle = 0 /\ puts = 0

indexForKey(k) ==
    LET found == {i \in DOMAIN entries : entries[i].key = k}
    IN  IF found = {} THEN 0 ELSE CHOOSE i \in found : \A j \in found : i <= j

(* Mutant of indexForHandle: the upper half starts at the probe. *)
SearchForgetsProbe(h) ==
    LET search[len \in 0 .. Len(entries)] ==
            [base \in 0 .. Len(entries) - len |->
                IF len = 0 THEN 0
                ELSE LET i == base + len \div 2 + 1
                     IN  IF h < entries[i].handle THEN search[len \div 2][base]
                         ELSE IF h = entries[i].handle THEN i
                         ELSE search[(len - 1) \div 2][base + len \div 2]]
    IN  search[Len(entries)][0]

(* The loop, from bufferLen and base to what it returns. *)
indexForHandle(h) ==
    LET search[len \in 0 .. Len(entries)] ==
            [base \in 0 .. Len(entries) - len |->
                IF len = 0 THEN 0
                ELSE LET i == base + len \div 2 + 1
                     IN  IF h < entries[i].handle THEN search[len \div 2][base]
                         ELSE IF h = entries[i].handle THEN i
                         ELSE search[(len - 1) \div 2][base + len \div 2 + 1]]
    IN  search[Len(entries)][0]

(* Mutant of put: the handle is the number of entries. *)
PutReusesHandle(k, v) ==
    IF indexForKey(k) = 0
    THEN /\ puts < MaxPuts
         /\ entries' = Append(entries, [handle |-> Len(entries), key |-> k, value |-> v])
         /\ nextHandle' = (nextHandle + 1) % HandleMod
         /\ puts' = puts + 1
    ELSE /\ entries' = [entries EXCEPT ![indexForKey(k)].value = v]
         /\ UNCHANGED <<nextHandle, puts>>

put(k, v) ==
    IF indexForKey(k) = 0
    THEN /\ puts < MaxPuts
         /\ entries' = Append(entries, [handle |-> nextHandle, key |-> k, value |-> v])
         /\ nextHandle' = (nextHandle + 1) % HandleMod
         /\ puts' = puts + 1
    ELSE /\ entries' = [entries EXCEPT ![indexForKey(k)].value = v]
         /\ UNCHANGED <<nextHandle, puts>>

(* The entries above are moved down, to keep the order. *)
remove(i) ==
    /\ entries' = [j \in 1 .. Len(entries) - 1 |-> entries[IF j < i THEN j ELSE j + 1]]
    /\ UNCHANGED <<nextHandle, puts>>

MapNext ==
    \/ \E k \in Keys, v \in Values : put(k, v)
    \/ \E i \in DOMAIN entries : remove(i)

MapSpec == MapInit /\ [][MapNext]_mapVars

-----------------------------------------------------------------------------
(* The binary search finds the entry of every handle that is in the map, and   *)
(* nothing for the others, after any sequence of puts and removals.  Its       *)
(* callers assert as much: a Pinger's freePing, SessionManager's and           *)
(* InterfaceController's use of handles.                                       *)
FoundByHandle ==
    \A h \in 0 .. HandleMod - 1 :
        LET i == indexForHandle(h)
        IN  IF \E e \in Range(entries) : e.handle = h
            THEN i # 0 /\ entries[i].handle = h
            ELSE i = 0

(* What the map implements: a table in which handles are never reused and a    *)
(* key has at most one entry.                                                  *)
Table == INSTANCE HandleTable
             WITH Handles <- 0 .. HandleMod - 1,
                  table <- Range(entries),
                  issued <- {i % HandleMod : i \in 0 .. puts - 1}

(* No entry is ever given a handle that another has or had, and one whose      *)
(* value is replaced keeps its own: what changes the map is a step of that     *)
(* table.                                                                      *)
HandlesFresh == Table!Init /\ [][mapVars' # mapVars => Table!Next]_mapVars
=============================================================================
