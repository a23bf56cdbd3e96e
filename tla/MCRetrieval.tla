----------------------------- MODULE MCRetrieval -----------------------------
(* Two small collections for Retrieval: near duplicates, copies, three documents on two
   topics, and a chunk of somebody else. *)
EXTENDS Retrieval

ChunkOf(doc, body, kin, topic, mine) ==
    [doc |-> doc, body |-> body, kin |-> kin, topic |-> topic, mine |-> mine]
SomeCorpora ==
    {<<ChunkOf(1, 1, 0, 1, TRUE), ChunkOf(1, 2, 2, 1, TRUE), ChunkOf(2, 3, 4, 2, TRUE), ChunkOf(3, 4, 6, 2, TRUE)>>,
     <<ChunkOf(1, 1, 0, 1, TRUE), ChunkOf(2, 1, 0, 1, TRUE), ChunkOf(2, 3, 1, 2, TRUE), ChunkOf(3, 4, 9, 2, FALSE)>>}
\* The logistic of a raw score: steep in the middle, flat above.
SomeLogistic == [raw \in 0..6 |-> IF raw < 2 THEN 2 + raw ELSE IF raw < 5 THEN 4 ELSE 5]
=============================================================================
