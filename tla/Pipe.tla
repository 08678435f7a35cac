-------------------------------- MODULE Pipe --------------------------------
(***************************************************************************)
(* A pipe over libuv: util/events/libuv/Pipe.c on the stream, the watchers *)
(* and the closing handles of libuv/src/unix, with the pipe's memory in    *)
(* the allocator tree (AllocatorOps).  Everything runs in one thread.  The *)
(* event loop calls back into the pipe, the pipe calls its user, and the   *)
(* user may send or free the pipe from inside such a callback: frame says  *)
(* which callback is on the stack, and the loop moves only when none is.   *)
(*                                                                         *)
(* Allocators are pairs: the root, the user's (freeing it frees the pipe), *)
(* the pipe's, one for each message and for each read buffer, and one for  *)
(* the write request that sends each of those.                             *)
(***************************************************************************)
EXTENDS AllocatorOps, FiniteSetsExt

CONSTANTS
    Messages,      \* the messages others give to the pipe
    Buffers,       \* bound: the reads that deliver bytes
    QueueLimit,    \* 50000 bytes in the code; every message has length 1
    SendersLetGo   \* whether senders free a message before the pipe is freed

userAlloc == <<"user", 0>>
pipeAlloc == <<"pipe", 0>>
MsgAlloc(x) == <<"msg", x>>
ReqAlloc(x) == <<"req", x>>

ASSUME PipeAssumption ==
    /\ Messages \subseteq Nat /\ Buffers \subseteq Nat /\ Messages \cap Buffers = {}
    /\ QueueLimit \in Nat
    /\ SendersLetGo \in BOOLEAN
    /\ Alloc = {root, userAlloc, pipeAlloc} \cup {MsgAlloc(x) : x \in Messages \cup Buffers}
                \cup {ReqAlloc(x) : x \in Messages \cup Buffers}
    /\ Job = {"closeHandlesOnFree", "blockFreeInsideCallback"}

None == 0 - 1

VARIABLES
    heap,
    pipe,   \* struct Pipe_pvt, and the callback on the stack
    uv,     \* pipe->peer: the stream, its watchers and its queues
    hist    \* not in the code: what was sent, taken by libuv and called back

vars == <<heap, pipe, uv, hist>>

(* The pipe is not made yet. *)
Init ==
    /\ heap = Allocator__child(NewHeap, root, userAlloc)
    /\ pipe = [isActive |-> FALSE,
               isInCallback |-> FALSE,
               buffered |-> None,      \* bufferedRequest
               queueLen |-> 0,
               data |-> FALSE,         \* peer.data # NULL
               frame |-> "none",
               buffer |-> None]        \* the read buffer that incoming was given
    /\ uv = [state |-> "none",
             connecting |-> FALSE,     \* connect_req # NULL
             pollin |-> FALSE,
             pollout |-> FALSE,
             pending |-> FALSE,        \* the watcher was fed
             queue |-> <<>>,           \* write_queue
             done |-> <<>>,            \* write_completed_queue
             wire |-> <<>>,            \* the requests the descriptor took
             abort |-> "no"]           \* the assertion that failed
    /\ hist = [at |-> [x \in Messages \cup Buffers |-> 0],   \* which was sent how late
               load |-> [x \in Messages \cup Buffers |-> <<>>],   \* what a request carries
               copied |-> {},          \* messages with no allocator, cloned
               given |-> {},           \* requests uv_write took
               called |-> <<>>]        \* requests called back

-----------------------------------------------------------------------------
(* libuv. *)

(* Mutant of uv_close: what is queued is dropped. *)
CloseDropsQueue(u) ==
    IF u.state # "open" THEN [u EXCEPT !.abort = "closed twice"]
    ELSE [u EXCEPT !.state = "closing", !.pollin = FALSE, !.pollout = FALSE,
                   !.pending = FALSE, !.queue = <<>>]

(* uv_close on a stream: its watcher goes, its descriptor is closed and the   *)
(* handle waits for the end of this turn of the loop.                         *)
uv_close(u) ==
    IF u.state # "open" THEN [u EXCEPT !.abort = "closed twice"]
    ELSE [u EXCEPT !.state = "closing", !.pollin = FALSE, !.pollout = FALSE, !.pending = FALSE]

(* Mutant of uv__write: after an error the watcher is not fed. *)
WriteErrorStalls(u, outcome) ==
    IF u.queue = <<>> THEN u
    ELSE IF outcome = "later" THEN [u EXCEPT !.pollout = TRUE]
    ELSE [u EXCEPT !.queue = Tail(@),
                   !.done = Append(@, [req |-> Head(u.queue), error |-> outcome = "error"]),
                   !.pending = @ \/ outcome # "error",
                   !.pollout = @ /\ outcome # "error",
                   !.wire = IF outcome = "error" THEN @ ELSE Append(@, Head(u.queue))]

(* uv__write and uv__write_req_finish: the first request is written, fails,   *)
(* or waits for the descriptor.                                               *)
uv__write(u, outcome) ==
    IF u.queue = <<>> THEN u
    ELSE IF outcome = "later" THEN [u EXCEPT !.pollout = TRUE]
    ELSE [u EXCEPT !.queue = Tail(@),
                   !.done = Append(@, [req |-> Head(u.queue), error |-> outcome = "error"]),
                   !.pending = TRUE,
                   !.pollout = @ /\ outcome # "error",
                   !.wire = IF outcome = "error" THEN @ ELSE Append(@, Head(u.queue))]

(* uv_write.  The count of queued bytes is zero when nothing is queued and no *)
(* failed request waits for its callback.                                     *)
uv_write(u, x, outcome) ==
    IF u.queue = <<>> /\ \A i \in DOMAIN u.done : ~u.done[i].error
    THEN uv__write([u EXCEPT !.queue = <<x>>], outcome)
    ELSE [u EXCEPT !.queue = Append(@, x), !.pollout = TRUE]

Reqs(done) == [i \in DOMAIN done |-> done[i].req]

(* The requests libuv has and did not call back. *)
InUv == ToSet(uv.queue) \cup ToSet(Reqs(uv.done))

-----------------------------------------------------------------------------
(* Pipe.c.  The job closeHandlesOnFree is asynchronous while the handle has   *)
(* its data, blockFreeInsideCallback while a read callback is on the stack.   *)

WithKind(h, j, async) ==
    [h EXCEPT !.job[j].kind = IF h.job[j].state # "waiting" THEN @
                              ELSE IF async THEN "async" ELSE "sync"]

newPipeAny(h) ==
    LET closing == Allocator__onFree(Allocator__child(h, userAlloc, pipeAlloc),
                                     pipeAlloc, "closeHandlesOnFree", "async")
    IN  Allocator__onFree(closing, pipeAlloc, "blockFreeInsideCallback", "sync")

(* A stream whose descriptor is there is read from at once. *)
Opened == [uv EXCEPT !.state = "open", !.pollin = TRUE]

Running == uv.abort = "no"

Pipe_forFd ==
    /\ uv.state = "none" /\ userAlloc \notin heap.isFreeing
    /\ heap' = newPipeAny(heap)
    /\ uv' = Opened
    /\ pipe' = [pipe EXCEPT !.data = TRUE, !.isActive = TRUE]
    /\ UNCHANGED hist

Pipe_named ==
    /\ uv.state = "none" /\ userAlloc \notin heap.isFreeing
    /\ heap' = newPipeAny(heap)
    /\ uv' = [uv EXCEPT !.state = "open", !.connecting = TRUE, !.pollout = TRUE]
    /\ pipe' = [pipe EXCEPT !.data = TRUE]
    /\ UNCHANGED hist

(* A failed uv_accept closes the handle of the pipe that was just made. *)
Pipe_serverAccept(ok) ==
    /\ uv.state = "none" /\ userAlloc \notin heap.isFreeing
    /\ heap' = newPipeAny(heap)
    /\ uv' = IF ok THEN Opened ELSE uv_close([uv EXCEPT !.state = "open"])
    /\ pipe' = [pipe EXCEPT !.data = TRUE, !.isActive = ok]
    /\ UNCHANGED hist

(* Mutant of KeepMessage: the message is not adopted. *)
KeepNothing(h, x, copied) == Allocator__child(h, pipeAlloc, ReqAlloc(x))

(* The request's allocator adopts a message that has an allocator; another    *)
(* message is copied into it.                                                 *)
KeepMessage(h, x, copied) ==
    LET made == Allocator__child(h, pipeAlloc, ReqAlloc(x))
    IN  IF copied THEN made ELSE Allocator__adopt(made, ReqAlloc(x), MsgAlloc(x))

(* The bytes of a message sent before the pipe is connected go behind those   *)
(* that are buffered.                                                         *)
Merged(x) == IF pipe.buffered = None THEN <<x>> ELSE hist.load[pipe.buffered] \o <<x>>

(* sendMessage, and sendMessage2 where it is called: the request is given to  *)
(* uv_write, freed when the descriptor is closed, or buffered.                *)
sendMessage(h, x, copied, outcome) ==
    IF pipe.queueLen > QueueLimit THEN heap' = h /\ UNCHANGED <<pipe, uv, hist>>
    ELSE LET kept == KeepMessage(h, x, copied)
             logged == [hist EXCEPT !.at[x] = Cardinality({y \in DOMAIN hist.at : hist.at[y] > 0}) + 1,
                                    !.load[x] = IF pipe.isActive THEN <<x>> ELSE Merged(x),
                                    !.copied = IF copied THEN @ \cup {x} ELSE @]
         IN  \/ /\ pipe.isActive /\ uv.state = "open"
                /\ heap' = kept
                /\ uv' = uv_write(uv, x, outcome)
                /\ pipe' = [pipe EXCEPT !.queueLen = @ + 1]
                /\ hist' = [logged EXCEPT !.given = @ \cup {x}]
             \/ /\ pipe.isActive /\ uv.state # "open"
                /\ heap' = Allocator__free(kept, ReqAlloc(x))
                /\ hist' = logged
                /\ UNCHANGED <<pipe, uv>>
             \/ /\ ~pipe.isActive
                /\ heap' = IF pipe.buffered = None THEN kept
                           ELSE Allocator__free(kept, ReqAlloc(pipe.buffered))
                /\ pipe' = [pipe EXCEPT !.buffered = x]
                /\ hist' = logged
                /\ UNCHANGED uv

Outcomes == {"all", "later", "error"}

New(a) == a \notin heap.live \cup heap.isFreeing

(* Somebody makes a message, the next by number, and sends it.  A user that   *)
(* sends in onConnection sent nothing before.                                 *)
Send(x, copied, outcome) ==
    /\ Running /\ pipeAlloc \in heap.live
    /\ \A y \in Messages : New(MsgAlloc(y)) <=> y >= x
    /\ pipe.frame = "connected" => pipe.buffered = None
    /\ sendMessage(Allocator__child(heap, root, MsgAlloc(x)), x, copied, outcome)

(* A reader sends back the buffer it is given. *)
SendBack(outcome) ==
    /\ Running /\ pipe.frame = "bytes" /\ New(ReqAlloc(pipe.buffer))
    /\ sendMessage(heap, pipe.buffer, FALSE, outcome)

(* The sender of a message lets go of it. *)
FreeMessage(x) ==
    /\ Running /\ MsgAlloc(x) \in heap.live \ heap.isFreeing
    /\ heap.parent[MsgAlloc(x)] = root
    /\ heap' = Allocator__free(heap, MsgAlloc(x))
    /\ UNCHANGED <<pipe, uv, hist>>

(* The user frees the pipe: closeHandlesOnFree closes a handle that has its   *)
(* data.                                                                      *)
FreePipe ==
    /\ Running /\ userAlloc \notin heap.isFreeing
    /\ SendersLetGo => \A x \in InUv \cap Messages :
                           x \in hist.copied \/ heap.parent[MsgAlloc(x)] # root
    /\ heap' = Allocator__free(heap, userAlloc)
    /\ uv' = IF pipe.data THEN uv_close(uv) ELSE uv
    /\ UNCHANGED <<pipe, hist>>

-----------------------------------------------------------------------------
(* What the loop does, when no callback is on the stack. *)

Idle == Running /\ pipe.frame = "none"

(* uv__stream_connect and connected, up to the call of onConnection. *)
LoopConnect(ok) ==
    /\ Idle /\ uv.state = "open" /\ uv.connecting
    /\ LET u == [uv EXCEPT !.connecting = FALSE, !.pollout = FALSE]
       IN  uv' = IF ok THEN [u EXCEPT !.pollin = TRUE] ELSE uv_close(u)
    /\ pipe' = IF ok THEN [pipe EXCEPT !.isActive = TRUE, !.frame = "connected"] ELSE pipe
    /\ UNCHANGED <<heap, hist>>

(* The rest of connected, once onConnection returned: sendMessage2 on what    *)
(* was buffered.                                                              *)
ConnectedEnd(outcome) ==
    LET x == pipe.buffered
        gives == x # None /\ uv.state = "open"
    IN  /\ Running /\ pipe.frame = "connected"
        /\ pipe' = [pipe EXCEPT !.frame = "none",
                                !.buffered = None,
                                !.queueLen = IF gives THEN @ + Len(hist.load[x]) ELSE @]
        /\ uv' = IF gives THEN uv_write(uv, x, outcome) ELSE uv
        /\ hist' = IF gives THEN [hist EXCEPT !.given = @ \cup {x}] ELSE hist
        /\ heap' = IF x # None /\ ~gives THEN Allocator__free(heap, ReqAlloc(x)) ELSE heap

(* uv__read, with allocate and the start of incoming: bytes, the end of the   *)
(* stream, or an error.                                                       *)
LoopRead(nread, x) ==
    /\ Idle /\ uv.pollin /\ \A y \in Buffers : New(MsgAlloc(y)) <=> y >= x
    /\ heap' = WithKind(Allocator__child(heap, pipeAlloc, MsgAlloc(x)),
                        "blockFreeInsideCallback", TRUE)
    /\ uv' = [uv EXCEPT !.pollin = nread # "eof"]
    /\ pipe' = [pipe EXCEPT !.isInCallback = TRUE, !.buffer = x, !.frame = nread]
    /\ UNCHANGED hist

(* Mutant of UnblockFree: a free inside of the callback is not completed. *)
UnblockNothing(h) == WithKind(h, "blockFreeInsideCallback", FALSE)

UnblockFree(h) ==
    IF h.job["blockFreeInsideCallback"].state = "called"
    THEN Allocator_onFreeComplete(h, "blockFreeInsideCallback")
    ELSE WithKind(h, "blockFreeInsideCallback", FALSE)

(* The rest of incoming, once the user returned.  libuv asserts that a read   *)
(* error made the user close the stream.                                      *)
IncomingEnd ==
    /\ Running /\ pipe.frame \in {"bytes", "eof", "error"}
    /\ heap' = UnblockFree(Allocator__free(heap, MsgAlloc(pipe.buffer)))
    /\ uv' = [uv EXCEPT !.abort = IF pipe.frame = "error" /\ uv.pollin
                                  THEN "read error ignored" ELSE @]
    /\ pipe' = [pipe EXCEPT !.isInCallback = FALSE, !.buffer = None, !.frame = "none"]
    /\ UNCHANGED hist

(* sendMessageCallback for each of a sequence of requests. *)
CallBack(h, reqs) ==
    /\ heap' = FoldLeft(LAMBDA g, x : Allocator__free(g, ReqAlloc(x)), h, reqs)
    /\ pipe' = [pipe EXCEPT !.queueLen =
                    @ - FoldLeft(LAMBDA n, x : n + Len(hist.load[x]), 0, reqs)]
    /\ hist' = [hist EXCEPT !.called = @ \o reqs]

(* uv__stream_io when the descriptor takes bytes, or when the watcher was     *)
(* fed: uv__write, then uv__write_callbacks, then uv__drain.                  *)
LoopWrite(outcome) ==
    LET u == uv__write([uv EXCEPT !.pending = FALSE], outcome)
    IN  /\ Idle /\ uv.state = "open" /\ ~uv.connecting /\ (uv.pollout \/ uv.pending)
        /\ CallBack(heap, Reqs(u.done))
        /\ uv' = [u EXCEPT !.done = <<>>, !.pollout = @ /\ u.queue # <<>>]

(* uv__finish_close and uv__stream_destroy: a connection that was waited for  *)
(* is called back as cancelled, and closes again.                             *)
LoopCloseConnecting ==
    /\ Idle /\ uv.state = "closing" /\ uv.connecting
    /\ uv' = uv_close([uv EXCEPT !.state = "closed"])
    /\ UNCHANGED <<heap, pipe, hist>>

(* Else the writes that are left are called back, those that completed, and   *)
(* last the handle with onClose.                                              *)
onClose ==
    /\ heap' = IF heap.job["closeHandlesOnFree"].state = "called"
               THEN Allocator_onFreeComplete(heap, "closeHandlesOnFree")
               ELSE WithKind(heap, "closeHandlesOnFree", FALSE)
    /\ pipe' = [pipe EXCEPT !.data = FALSE]
    /\ uv' = [uv EXCEPT !.state = "closed"]
    /\ UNCHANGED hist

LoopClose ==
    /\ Idle /\ uv.state = "closing" /\ ~uv.connecting
    /\ IF InUv = {} THEN onClose
       ELSE /\ CallBack(heap, uv.queue \o Reqs(uv.done))
            /\ uv' = [uv EXCEPT !.queue = <<>>, !.done = <<>>]

User ==
    \/ Pipe_forFd
    \/ Pipe_named
    \/ \E ok \in BOOLEAN : Pipe_serverAccept(ok)
    \/ \E x \in Messages, copied \in BOOLEAN, outcome \in Outcomes : Send(x, copied, outcome)
    \/ \E outcome \in Outcomes : SendBack(outcome)
    \/ \E x \in Messages : FreeMessage(x)
    \/ FreePipe

Returns == IncomingEnd \/ \E outcome \in Outcomes : ConnectedEnd(outcome)

Next ==
    \/ User
    \/ Returns
    \/ \E ok \in BOOLEAN : LoopConnect(ok)
    \/ \E nread \in {"bytes", "eof", "error"}, x \in Buffers : LoopRead(nread, x)
    \/ \E outcome \in Outcomes : LoopWrite(outcome)
    \/ LoopCloseConnecting
    \/ LoopClose

Closes == LoopClose \/ LoopCloseConnecting

(* Callbacks return, and every turn of the loop ends with its closing handles *)
(* (uv_run).  Both are weak fairness, written with the guards of the actions  *)
(* in the place of ENABLED.                                                   *)
Spec ==
    /\ Init /\ [][Next]_vars
    /\ []<>~(Running /\ pipe.frame # "none") \/ []<><<Returns>>_vars
    /\ []<>~(Idle /\ uv.state = "closing") \/ []<><<Closes>>_vars

-----------------------------------------------------------------------------
(* What libuv may still hand back is in memory: the pipe until its handle is  *)
(* closed, and each write request with its message until its callback ran     *)
(* (the jobs of newPipeAny, and the adoption in sendMessage).                 *)
HeldWhileInUse ==
    /\ uv.state \in {"open", "closing"} => pipeAlloc \in heap.live
    /\ pipe.frame # "none" => pipeAlloc \in heap.live
    /\ \A x \in InUv :
           /\ ReqAlloc(x) \in heap.live
           /\ x \in hist.copied \/ MsgAlloc(x) \in heap.live

(* Each request that uv_write took is called back once, none is forgotten     *)
(* when the pipe goes, queueLen is the bytes not yet called back, and what    *)
(* was written left in the order it was sent, although messages sent before   *)
(* the connection is made are merged and others wait in the queue.            *)
CalledBackOnce ==
    /\ Running =>
         /\ Cardinality(ToSet(hist.called)) = Len(hist.called)
         /\ hist.given = ToSet(hist.called) \cup InUv
         /\ ToSet(hist.called) \cap InUv = {}
         /\ pipe.queueLen = MapThenSumSet(LAMBDA x : Len(hist.load[x]), InUv)
    /\ \A x \in hist.given : \A i, k \in DOMAIN hist.load[x] :
           i < k => hist.at[hist.load[x][i]] < hist.at[hist.load[x][k]]
    /\ \A i, k \in DOMAIN uv.wire : i < k =>
           hist.at[Last(hist.load[uv.wire[i]])] < hist.at[Head(hist.load[uv.wire[k]])]

(* Writes never wait for a loop that does not look: while one is queued on an *)
(* open stream, the watcher waits for the descriptor or was fed, whatever     *)
(* failed before it (uv_write, uv__write, uv__write_req_finish).              *)
WritesWatched ==
    uv.state = "open" /\ InUv # {} => uv.pollout \/ uv.pending

(* A pipe that is freed, in a callback or not, goes: its handle is closed and *)
(* its memory released.                                                       *)
FreedGoes == userAlloc \in heap.isFreeing ~> userAlloc \notin heap.live \/ ~Running
=============================================================================
