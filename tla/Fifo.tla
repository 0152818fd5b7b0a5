-------------------------------- MODULE Fifo --------------------------------
(***************************************************************************)
(* What a Queue promises to the threads that share it: items come out in   *)
(* the order in which they went in, each exactly once, and a take may come *)
(* back empty-handed.  The step-level Queue module implements this.        *)
(***************************************************************************)
EXTENDS Sequences

CONSTANT Items          \* what the queue holds (pointers in the code)

VARIABLES contents,     \* the items waiting, oldest first
          taken         \* every item handed out so far, oldest first

fifoVars == <<contents, taken>>

Init == contents = <<>> /\ taken = <<>>

Put(x) == contents' = Append(contents, x) /\ UNCHANGED taken

Take == /\ contents # <<>>
        /\ contents' = Tail(contents)
        /\ taken' = Append(taken, Head(contents))

Next == Take \/ \E x \in Items : Put(x)

Spec == Init /\ [][Next]_fifoVars
=============================================================================
