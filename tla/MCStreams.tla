------------------------------- MODULE MCStreams -------------------------------
(***************************************************************************)
(* The parts that talk over a connection that may break: the call of the   *)
(* model that writes an answer; the browser that shows it, with its reader *)
(* of the event stream; and the crawler of websites. They share no state,  *)
(* so one of them is checked at a time: `part' says which, and the others  *)
(* keep one of their initial states.                                       *)
(***************************************************************************)
EXTENDS WebChat, MCSseFrames, LlmCall, Crawler

VARIABLE part

streamsVars == <<part, webVars, sseVars, llmVars, crawlVars>>

\* The model: what callers ask for, and messages with text, thinking, and tool calls whole and broken.
WantOf(turns, servers, toolsets, edits, fallbacks, thinks, hard) ==
    [turns |-> turns, servers |-> servers, toolsets |-> toolsets, edits |-> edits,
     fallbacks |-> fallbacks, thinks |-> thinks, hard |-> hard]
SomeWants == {WantOf("user", {}, {}, {}, FALSE, TRUE, TRUE),
              WantOf("user", {"s", "t"}, {"s"}, {"clear"}, FALSE, FALSE, TRUE),
              WantOf("user", {}, {}, {"clear", "compact"}, TRUE, FALSE, FALSE),
              WantOf("assistant", {}, {}, {}, FALSE, FALSE, FALSE),
              WantOf("none", {}, {}, {}, FALSE, FALSE, FALSE)}
Block(kind, parts, whole) == [kind |-> kind, parts |-> parts, whole |-> whole]
SomeMessages ==
    {<<>>, <<Block("text", 2, TRUE)>>,
     <<Block("thinking", 1, TRUE), Block("text", 1, TRUE), Block("tool", 2, TRUE)>>,
     <<Block("tool", 1, FALSE), Block("tool", 0, TRUE)>>,
     <<Block("text", 0, TRUE), Block("tool", 1, TRUE), Block("text", 1, TRUE)>>}

\* The website: a page on two ways, a way back to the seed, a page robots.txt keeps out, and one
\* that has moved to another site.
Web(a, b, c, other) == ("a" :> a) @@ ("b" :> b) @@ ("c" :> c) @@ ("d" :> <<>>) @@ ("other" :> other)
SomeRedirects == [p \in {"a", "b", "c", "d", "other"} |-> IF p = "d" THEN "other" ELSE p]
SomeWebs == {Web(<<"b", "c">>, <<"other", "d">>, <<"d", "a">>, <<>>), Web(<<"b">>, <<"a", "c">>, <<"d">>, <<"a">>)}
SomeSeeds == <<"a">>
-----------------------------------------------------------------------------
\* A part that does not run has one initial state.
Starts(p, Initial, resting) == Initial /\ (part = p \/ resting)

StreamsInit ==
    /\ part \in {"web", "sse", "llm", "crawl"}
    /\ WebInit
    /\ Starts("sse", SseInit, wire = <<>>)
    /\ Starts("llm", LlmInit, request = NewCall("complete", CHOOSE w \in Wants : TRUE))
    /\ Starts("crawl", CrawlerInit, site[Seeds[1]].links = (CHOOSE web \in Webs : TRUE)[Seeds[1]])

StreamsNext ==
    /\ UNCHANGED part
    /\ \/ /\ part = "web" /\ WebNext
          /\ UNCHANGED <<sseVars, llmVars, crawlVars>>
       \/ /\ part = "sse" /\ SseNext
          /\ UNCHANGED <<webVars, llmVars, crawlVars>>
       \/ /\ part = "llm" /\ LlmNext
          /\ UNCHANGED <<webVars, sseVars, crawlVars>>
       \/ /\ part = "crawl" /\ CrawlerNext
          /\ UNCHANGED <<webVars, sseVars, llmVars>>

\* WebFairness, while the browser is the part that runs.
StreamsFairness ==
    \A t \in 1..MaxTurns :
        WF_webVars(part = "web" /\ t \in DOMAIN runs /\ (Wake(t) \/ IdleTimeout(t)))

StreamsSpec == StreamsInit /\ [][StreamsNext]_streamsVars /\ StreamsFairness
-----------------------------------------------------------------------------
\* The types of the part that runs.
StreamsTypeOK ==
    CASE part = "web" -> WebTypeOK
      [] part = "sse" -> SseTypeOK
      [] part = "llm" -> LlmTypeOK
      [] part = "crawl" -> CrawlerTypeOK
=============================================================================
