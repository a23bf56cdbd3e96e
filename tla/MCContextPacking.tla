-------------------------- MODULE MCContextPacking --------------------------
(* Small chunks, memories and turns for the packing of the prompt.  An item is counted as
   long as it is, or as one token more or less. *)
EXTENDS ContextPacking

SomeChunks    == {[tokens |-> 1, exact |-> 2, score |-> 1], [tokens |-> 3, exact |-> 1, score |-> 4]}
Line(n, e)    == [tokens |-> n, exact |-> e]
SomeMemories  == {<<>>, <<Line(1, 1)>>, <<Line(3, 1), Line(1, 1)>>}
TurnOf(n, e, p) == [tokens |-> n, exact |-> e, pinned |-> p]
SomeHistories == {<<>>, <<TurnOf(1, 1, FALSE), TurnOf(2, 1, FALSE)>>,
                  <<TurnOf(2, 3, FALSE), TurnOf(1, 1, TRUE), TurnOf(1, 1, FALSE)>>}
SomeSummaries == {Line(0, 0), Line(1, 2), Line(2, 1)}
=============================================================================
