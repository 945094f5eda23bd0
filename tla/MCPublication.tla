--------------------------- MODULE MCPublication ---------------------------
(* Small constructors for Publication. *)
EXTENDS Publication

CONSTANTS s, t, local, shared

\* A position orders the instructions of a function as its source does.
Call(pos) == [op |-> "call", value |-> s, pos |-> pos]
Publish(pos) == {[op |-> "map", value |-> s, pos |-> pos],
                 [op |-> "store", value |-> s, addr |-> shared, pos |-> pos],
                 [op |-> "store", value |-> s, addr |-> local, pos |-> pos],
                 [op |-> "map", value |-> t, pos |-> pos]}

\* s := new(S); s.m(); registry[k] = s; s.m()
Straight == {[code |-> <<<<Call(1), i, Call(3)>>>>, succs |-> <<{}>>] : i \in Publish(2)}

\* if cond { registry[k] = s } else { s.m() }; s.m()
Branches == {[code |-> <<<<>>, <<i>>, <<Call(2)>>, <<Call(3)>>>>,
              succs |-> <<{2, 3}, {4}, {4}, {}>>] : i \in Publish(1)}

\* s := new(S); for cond { s.m(); registry[k] = s }
Loops == {[code |-> <<<<>>, <<Call(1), i>>, <<>>>>, succs |-> <<{2, 3}, {2, 3}, {}>>] :
            i \in Publish(2)}

AllConstructors == Straight \cup Branches \cup Loops
=============================================================================
