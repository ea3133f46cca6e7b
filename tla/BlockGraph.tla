------------------------------ MODULE BlockGraph ------------------------------
(***************************************************************************)
(* Reference definitions on the graph of the basic blocks of a function:   *)
(* what "reachable" and "distance" mean, stated without the queue, the     *)
(* depths or the loops of typeinfer.cpp.  Block 0 is the entry; G is a set *)
(* of edges <<from, to>> between the blocks 0 .. n - 1.                    *)
(***************************************************************************)
EXTENDS Integers

(* The blocks a path of at most `steps` edges leads to from the entry.     *)
ReachedWithin(n, G, steps) ==
    LET Within[k \in 0 .. steps] ==
            IF k = 0
            THEN {0}
            ELSE Within[k - 1] \cup
                    {c \in 0 .. n - 1 : \E b \in Within[k - 1] : <<b, c>> \in G}
    IN  Within[steps]

Reachable(n, G) == ReachedWithin(n, G, n)

(* The number of edges of a shortest path from the entry to a reachable b. *)
Distance(n, G, b) ==
    CHOOSE k \in 0 .. n :
        /\ b \in ReachedWithin(n, G, k)
        /\ \A m \in 0 .. (k - 1) : b \notin ReachedWithin(n, G, m)

=============================================================================
