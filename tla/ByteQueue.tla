----------------------------- MODULE ByteQueue ------------------------------
(***************************************************************************)
(* What a Buffer promises: a sequence of bytes to which bytes are added at *)
(* the back (append, readFd, hasWritten) and at the front (prepend) and    *)
(* from whose front bytes are taken (retrieve and its variants).  Nothing  *)
(* is said of indices, capacity or the moving of bytes.                    *)
(***************************************************************************)
EXTENDS Integers, Sequences

CONSTANT Data  \* the byte sequences that are put in

VARIABLE content

Init == content = <<>>

PutBack(data) == content' = content \o data
PutFront(data) == content' = data \o content
TakeFront(n) == content' = SubSeq(content, n + 1, Len(content))

Next ==
  \/ \E data \in Data : PutBack(data) \/ PutFront(data)
  \/ \E n \in 0..Len(content) : TakeFront(n)

Spec == Init /\ [][Next]_content
=============================================================================
