------------------------------ MODULE TaskFifo ------------------------------
(* What a message queue with one pushing thread promises its users: pop      *)
(* returns the messages in the order of the calls that pushed them, each once.*)
EXTENDS Sequences

CONSTANT Messages

VARIABLES
    pending,    \* messages pushed and not yet popped
    taken       \* messages popped, in order

Put(m) ==
    /\ pending' = Append(pending, m)
    /\ UNCHANGED taken

Take ==
    /\ pending # <<>>
    /\ taken' = Append(taken, Head(pending))
    /\ pending' = Tail(pending)

Init == pending = <<>> /\ taken = <<>>

Next == Take \/ \E m \in Messages : Put(m)

Spec == Init /\ [][Next]_<<pending, taken>>
=============================================================================
