----------------------------- MODULE MCSseFrames -----------------------------
(* Short event streams: every text of five cells with line feeds, every one of four that may
   have carriage returns too, and longer ones with all that a frame may have. *)
EXTENDS SseFrames

SomeWires ==
    SeqOf({"name", "value", "more", "colon", "lf"}, 5) \cup SeqOf({"name", "value", "colon", "lf", "cr"}, 4)
    \cup {<<"retry", "lf", "lf", "name", "more", "lf", "value", "more", "lf", "value", "lf", "lf">>,
          <<"name", "cr", "lf", "value", "more", "cr", "lf", "value", "cr", "cr", "lf", "cr", "value">>}
=============================================================================
