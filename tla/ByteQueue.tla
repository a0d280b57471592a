----------------------------- MODULE ByteQueue ------------------------------
(***************************************************************************)
(* What a network buffer promises: a queue of bytes that grows at its end, *)
(* is consumed from its front, may take back what was written last, and    *)
(* may be given a header in front.  Buffer.tla runs it beside the buffer,  *)
(* each call with the arguments of the buffer's own.                       *)
(***************************************************************************)
EXTENDS Integers, Sequences

VARIABLE content

Init == content = <<>>

PushBack(s)  == content' = content \o s
PushFront(s) == content' = s \o content
PopFront(n)  == content' = SubSeq(content, n + 1, Len(content))
PopBack(n)   == content' = SubSeq(content, 1, Len(content) - n)
=============================================================================
