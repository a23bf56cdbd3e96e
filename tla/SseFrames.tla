------------------------------- MODULE SseFrames -------------------------------
(***************************************************************************)
(* The reader of the event stream (web/src/api/sse.ts): text comes in      *)
(* chunks cut anywhere, is split into lines, and a blank line makes a      *)
(* frame of the fields before it. A wire is a sequence of pieces of lines  *)
(* and line ends; a line ends with a line feed, a carriage return, or the  *)
(* two as a pair.                                                          *)
(***************************************************************************)
EXTENDS Listing, SequencesExt, FiniteSetsExt

\* "lf" and "cr" end a line; "name"/"value" begin an event and a data line, "more" goes on with a
\* line, "colon" begins a comment and "retry" a field that is no part of an event.
Cells == {"name", "value", "more", "colon", "retry", "lf", "cr"}

CONSTANTS Wires        \* what a server may write: sequences over the cells

ASSUME WiresAssumption == Wires \subseteq Seq(Cells)

VARIABLES
    wire,
    received,   \* how much of the wire was read; its text as the chunks gave it, with the line
                \* ends they made; and whether a chunk ended between the two of a pair
    reader

sseVars == <<wire, received, reader>>

NoFrame == [event |-> <<>>, data |-> <<>>, started |-> FALSE]
Fresh   == [buffer |-> <<>>, fields |-> NoFrame, frames |-> <<>>, over |-> FALSE]

SseInit == wire \in Wires /\ received = [read |-> 0, text |-> <<>>, cut |-> FALSE] /\ reader = Fresh

\* A carriage return becomes a line feed, and takes with it the line feed it makes a pair with.
Paired(text, i) == i > 1 /\ text[i - 1] = "cr" /\ text[i] = "lf"
Kept(text)      == {i \in DOMAIN text : ~Paired(text, i)}
LineFeed(cell)  == IF cell = "cr" THEN "lf" ELSE cell
Normal(text)    == LET places == Sorted(Kept(text), Ascending(Kept(text)))
                   IN  [k \in DOMAIN places |-> LineFeed(text[places[k]])]

\* handleLine and dispatch: what one whole line adds.
Dispatched(state) ==
    IF state.fields.started
    THEN [state EXCEPT !.frames = Append(@, [event |-> state.fields.event, data |-> state.fields.data]),
                       !.fields = NoFrame]
    ELSE [state EXCEPT !.fields = NoFrame]

WithLine(state, line) ==
    IF line = <<>> THEN Dispatched(state)
    ELSE CASE line[1] = "colon" -> state
           [] line[1] = "name"  -> [state EXCEPT !.fields.event = Tail(line), !.fields.started = TRUE]
           [] line[1] = "value" -> [state EXCEPT !.fields.data = Append(@, Tail(line)), !.fields.started = TRUE]
           [] OTHER             -> [state EXCEPT !.fields.started = TRUE]

\* One turn of the loop over the buffer: its first whole line is handled and cut off.
EndsIn(text) == {i \in DOMAIN text : text[i] = "lf"}
FirstLineOff(state) ==
    LET index == Min(EndsIn(state.buffer)) IN
    IF EndsIn(state.buffer) = {} THEN state
    ELSE [WithLine(state, SubSeq(state.buffer, 1, index - 1))
             EXCEPT !.buffer = SubSeq(@, index + 1, Len(@))]

\* The whole lines of the buffer, no more of them than it has cells; the rest waits for more.
Drained(state) ==
    LET after[k \in 0..Len(state.buffer)] == IF k = 0 THEN state ELSE FirstLineOff(after[k - 1])
    IN  after[Len(state.buffer)]

Coming(n) == SubSeq(wire, received.read + 1, received.read + n)

Hear(n) ==
    /\ received.read + n <= Len(wire)
    /\ received' = [read |-> received.read + n, text |-> received.text \o Normal(Coming(n)),
                    cut |-> received.cut \/ Paired(wire, received.read + 1)]

\* As it would be if a chunk took the place of what was left of the one before.
PushForgetful(n) ==
    /\ ~reader.over /\ Hear(n)
    /\ reader' = Drained([reader EXCEPT !.buffer = Normal(Coming(n))])
    /\ UNCHANGED wire

\* push: what is left and the chunk, with its line ends made the same, line by line.
Push(n) ==
    /\ ~reader.over /\ Hear(n)
    /\ reader' = Drained([reader EXCEPT !.buffer = Normal(@ \o Coming(n))])
    /\ UNCHANGED wire

\* The stream is over, perhaps cut short: a last line without an end counts, and so does a
\* frame without its blank line.
Flush ==
    /\ ~reader.over
    /\ reader' = LET rest == IF reader.buffer = <<>> THEN reader
                             ELSE WithLine([reader EXCEPT !.buffer = <<>>], reader.buffer)
                 IN  [Dispatched(rest) EXCEPT !.over = TRUE]
    /\ UNCHANGED <<wire, received>>

SseNext == (\E n \in 1..Len(wire) : Push(n)) \/ Flush
SseSpec == SseInit /\ [][SseNext]_sseVars
-----------------------------------------------------------------------------
\* A reader has read no more than there is, and nothing that ends a line waits in it.
SseTypeOK ==
    /\ received.read \in 0..Len(wire) /\ received.text \in Seq(Cells \ {"cr"}) /\ received.cut \in BOOLEAN
    /\ reader.buffer \in Seq(Cells \ {"lf", "cr"})

(* What the first e cells of a text say when it is read as a whole: its line ends, the line
   before each, the ends of blank lines, and the block of lines between a place and the blank
   line before it. *)
EndsTo(text, e)     == {i \in 1..e : text[i] = "lf"}
LineBefore(text, i) == SubSeq(text, Max({0} \cup EndsTo(text, i - 1)) + 1, i - 1)
BlankTo(text, e)    == {i \in EndsTo(text, e) : LineBefore(text, i) = <<>>}
BlockOf(text, b)    == {i \in EndsTo(text, b - 1) : \A c \in BlankTo(text, b - 1) : c < i}
FieldsOf(text, b)   == {i \in BlockOf(text, b) : LineBefore(text, i)[1] # "colon"}
Naming(text, b)     == {i \in BlockOf(text, b) : LineBefore(text, i)[1] = "name"}
Carrying(text, b)   == {i \in BlockOf(text, b) : LineBefore(text, i)[1] = "value"}

\* The frame of a block, and the frames of all blocks with a field that a blank line ends.
FrameOf(text, b) ==
    [event |-> IF Naming(text, b) = {} THEN <<>> ELSE Tail(LineBefore(text, Max(Naming(text, b)))),
     data  |-> LET lines == Sorted(Carrying(text, b), Ascending(Carrying(text, b)))
               IN  [k \in DOMAIN lines |-> Tail(LineBefore(text, lines[k]))]]
FrameEnds(text, e)   == {b \in BlankTo(text, e) : FieldsOf(text, b) # {}}
WholeFrames(text, e) == LET ends == Sorted(FrameEnds(text, e), Ascending(FrameEnds(text, e)))
                        IN  [k \in DOMAIN ends |-> FrameOf(text, ends[k])]

\* The reader has made the frames of the text, and at its end perhaps one for a block cut short.
Reads(text) ==
    IF reader.over THEN IsPrefix(WholeFrames(text, Len(text)), reader.frames)
    ELSE reader.frames = WholeFrames(text, Len(text))

\* What was read of the wire, as the specification of event streams reads it.
SpecText == Normal(SubSeq(wire, 1, received.read))

(* The frames depend on where the chunks were cut only when a pair was: else they are those of
   the blocks of lines that a blank line ends, read from the text as a whole, and a whole block
   is never lost or split; and when a pair was cut, it counts as two line ends and nothing else
   is lost (createSSEParser). *)
FramesIgnoreChunking == Reads(IF received.cut THEN received.text ELSE SpecText)

(* What sse.ts says: "The parser implements the SSE wire format from the HTML spec: [...] and
   dispatch on a blank line", where a pair is one line end wherever a chunk ends. *)
FramesFollowSpec == Reads(SpecText)
=============================================================================
