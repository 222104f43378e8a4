------------------------------ MODULE ByteQueue ------------------------------
(***************************************************************************)
(* What muduo's Buffer promises its users: a queue of bytes, put in at     *)
(* either end and taken out at either end.                                 *)
(***************************************************************************)
EXTENDS Integers, Sequences

CONSTANT Chunks     \* what can be put at once: byte strings

VARIABLE content

Init == content = <<>>

Put(s) == content' = content \o s

PutFront(s) == content' = s \o content

Take(n) == content' = SubSeq(content, n + 1, Len(content))

TakeBack(n) == content' = SubSeq(content, 1, Len(content) - n)

Next ==
    \/ \E s \in Chunks : Put(s) \/ PutFront(s)
    \/ \E n \in 0 .. Len(content) : Take(n) \/ TakeBack(n)

Spec == Init /\ [][Next]_content
=============================================================================
