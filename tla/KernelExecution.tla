-------------------------- MODULE KernelExecution --------------------------
(***************************************************************************)
(* What the GPU promises its host: once a kernel of some blocks has been   *)
(* requested, every block is run exactly once, and done is reported after  *)
(* the last one.  A reset forgets everything.                              *)
(***************************************************************************)
EXTENDS Integers

CONSTANT MaxBlocks

VARIABLES
  asked,      \* the host has requested a kernel
  blocks,     \* how many blocks the kernel has
  executing,  \* the blocks being run
  executed,   \* the blocks that have been run
  reported    \* the GPU says done

vars == <<asked, blocks, executing, executed, reported>>

Kernel == 0 .. blocks - 1

Init == /\ asked = FALSE /\ blocks = 0 /\ reported = FALSE
        /\ executing = {} /\ executed = {}

Ask(n) == /\ ~asked
          /\ asked' = TRUE /\ blocks' = n
          /\ UNCHANGED <<executing, executed, reported>>

Begin(b) == /\ b \notin executing \cup executed
            /\ executing' = executing \cup {b}
            /\ UNCHANGED <<asked, blocks, executed, reported>>

End(b) == /\ executing' = executing \ {b}
          /\ executed' = executed \cup {b}
          /\ UNCHANGED <<asked, blocks, reported>>

Report == /\ Kernel # {} /\ executed = Kernel /\ ~reported
          /\ reported' = TRUE
          /\ UNCHANGED <<asked, blocks, executing, executed>>

Forget == /\ asked' = FALSE /\ blocks' = 0 /\ reported' = FALSE
          /\ executing' = {} /\ executed' = {}

Next == \/ \E n \in 0 .. MaxBlocks : Ask(n)
        \/ \E b \in Kernel : Begin(b)
        \/ \E b \in executing : End(b)
        \/ Report
        \/ Forget

Spec == Init /\ [][Next]_vars

=============================================================================
