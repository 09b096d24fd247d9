---------------------------- MODULE AgentHistory ----------------------------
(***************************************************************************)
(* What a versioned agent store promises: every agent has an append-only   *)
(* sequence of definitions.  Creating an agent writes version 1, each      *)
(* update writes the next version in one atomic step, deleting ends the    *)
(* history for good.                                                       *)
(***************************************************************************)
EXTENDS Naturals, Sequences

CONSTANTS AgentIds, Contents

VARIABLES history,   \* the definitions written so far, oldest first
          deleted    \* agents whose history has ended

vars == <<history, deleted>>

Init == history = [a \in AgentIds |-> << >>] /\ deleted = {}

CreateAgent(a, x) ==
    /\ history[a] = << >> /\ a \notin deleted
    /\ history' = [history EXCEPT ![a] = <<x>>]
    /\ UNCHANGED deleted

UpdateAgent(a, x) ==
    /\ history[a] # << >>
    /\ history' = [history EXCEPT ![a] = Append(@, x)]
    /\ UNCHANGED deleted

DeleteAgent(a) ==
    /\ history[a] # << >>
    /\ history' = [history EXCEPT ![a] = << >>]
    /\ deleted' = deleted \cup {a}

Next == \E a \in AgentIds :
            \/ DeleteAgent(a)
            \/ \E x \in Contents : CreateAgent(a, x) \/ UpdateAgent(a, x)

Spec == Init /\ [][Next]_vars
=============================================================================
