------------------------------ MODULE PagePool ------------------------------
(***************************************************************************)
(* What a page allocator promises: a fixed pool of pages, each of them     *)
(* free or held by exactly one caller.                                     *)
(***************************************************************************)
VARIABLES pool, held

Init == held = {}

Alloc ==
  \E p \in pool \ held : held' = held \cup {p} /\ UNCHANGED pool

Free ==
  \E p \in held : held' = held \ {p} /\ UNCHANGED pool

Next == Alloc \/ Free

Spec == Init /\ [][Next]_<<pool, held>>

=============================================================================
