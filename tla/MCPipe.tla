------------------------------- MODULE MCPipe -------------------------------
(* Two messages that somebody else owns and two that are copied, sent past  *)
(* a limit of one byte in the queue, so that messages are buffered, merged, *)
(* queued and refused.  An allocator is named by what it is for.            *)
EXTENDS Pipe

MCRoot == <<"root", 0>>
MCAlloc == {<<"root", 0>>, <<"user", 0>>, <<"pipe", 0>>}
           \cup ({"msg", "req"} \X (Messages \cup Buffers))
=============================================================================
