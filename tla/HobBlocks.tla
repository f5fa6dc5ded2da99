------------------------------ MODULE HobBlocks ------------------------------
(***************************************************************************)
(* What the analysis of a function body promises, with no scope stack, no  *)
(* parent links and no loop table: for each function that is being read a  *)
(* stack of open blocks, each with the defers waiting in it.  Leaving a    *)
(* block drops its defers; an exit from a loop or from the function        *)
(* releases, latest first, the defers waiting in every block it leaves,    *)
(* and leaves no block of another function.                                *)
(***************************************************************************)
EXTENDS Naturals, Sequences, SequencesExt

CONSTANTS LoopNames, NoName, NoLoop, Blocks

VARIABLES
    open,      \* the functions being read, outermost first; of each, its open blocks
    released,  \* the defers that the exit just read releases, <<>> otherwise
    rejected   \* the program has been refused

vars == <<open, released, rejected>>

\* loop: NoLoop, or the name under which exits can reach the block.
Block(loop) == [loop |-> loop, pending |-> <<>>]

\* The blocks of the innermost function.
Here == open[Len(open)]
Becomes(blocks) == open' = [open EXCEPT ![Len(open)] = blocks]

\* The loop block that a name, or no name, reaches; 0 if there is none.
Target(n) ==
    LET reach == {i \in 1..Len(Here) : /\ Here[i].loop # NoLoop
                                       /\ n # NoName => Here[i].loop = n}
    IN  IF reach = {} THEN 0 ELSE Max(reach)

\* Everything pending in blocks i, i + 1, ... is one list, run backwards.
PendingFrom(blocks, i) ==
    LET from[k \in 1..Len(blocks) + 1] ==
            IF k > Len(blocks) THEN <<>> ELSE blocks[k].pending \o from[k + 1]
    IN  from[i]
Release(i) == Reverse(PendingFrom(Here, i))

Init == open = <<>> /\ released = <<>> /\ rejected = FALSE

EnterFunc ==
    /\ open' = Append(open, <<Block(NoLoop)>>)
    /\ released' = <<>>

LeaveFunc ==
    /\ open # <<>> /\ Len(Here) = 1
    /\ open' = Front(open)
    /\ released' = <<>>

EnterLoop(n) ==
    /\ open # <<>>
    /\ n # NoName => Target(n) = 0
    /\ Becomes(Append(Here, Block(n)))
    /\ released' = <<>>

EnterPlain ==
    /\ open # <<>>
    /\ Becomes(Append(Here, Block(NoLoop)))
    /\ released' = <<>>

Leave ==
    /\ open # <<>> /\ Len(Here) > 1
    /\ Becomes(Front(Here))
    /\ released' = <<>>

\* The block of a defer closes, and the defer waits in the block around it.
LeaveDefer(d) ==
    /\ open # <<>> /\ Len(Here) > 1
    /\ Becomes([Front(Here) EXCEPT ![Len(Here) - 1].pending = Append(@, d)])
    /\ released' = <<>>

ExitLoop(n) ==
    /\ open # <<>> /\ Target(n) # 0
    /\ released' = Release(Target(n))
    /\ UNCHANGED open

ExitFunc ==
    /\ open # <<>>
    /\ released' = Release(1)
    /\ UNCHANGED open

Plain ==
    /\ open # <<>>
    /\ released' = <<>>
    /\ UNCHANGED open

Refuse == open' = <<>> /\ released' = <<>> /\ rejected' = TRUE

Next ==
    \/ /\ ~rejected
       /\ \/ EnterFunc
          \/ LeaveFunc
          \/ \E n \in LoopNames \cup {NoName} : EnterLoop(n) \/ ExitLoop(n)
          \/ EnterPlain
          \/ Leave
          \/ \E d \in Blocks : LeaveDefer(d)
          \/ ExitFunc
          \/ Plain
       /\ UNCHANGED rejected
    \/ Refuse

Spec == Init /\ [][Next]_vars
=============================================================================
