------------------------------- MODULE Crawler -------------------------------
(***************************************************************************)
(* The HTTP crawler (connectors/http_crawler.py) over the runs of one      *)
(* website: the breadth-first crawl from the seeds, or the list of a       *)
(* sitemap; conditional requests; and what plan_source, process_document   *)
(* and finalize_run make of what it lists. Failures and crashes inside one *)
(* document are module IngestRun's.                                        *)
(*                                                                         *)
(* A page's version is the time of its last change: its bytes and, where   *)
(* the server sends them, its ETag and its Last-Modified. Version 0 is no  *)
(* page. Pages are named by the URL that is asked for; a redirect may lead *)
(* to any other, also to one that is foreign or kept out by robots.txt.    *)
(***************************************************************************)
EXTENDS Integers, Sequences, SequencesExt, FiniteSets, FiniteSetsExt, Listing

CONSTANTS
    Pages,
    Seeds,          \* start_urls, or what the sitemap lists, in order
    Redirected,     \* the page that answers for each: the server may redirect, and httpx follows
    Tagged,         \* pages the server sends an ETag with
    Dated,          \* pages the server sends a Last-Modified with
    Disallowed,     \* pages robots.txt keeps out
    Foreign,        \* pages outside allow_domains
    Webs,           \* the links that pages may have: functions from pages to sequences of pages
    MaxDepth,       \* max_depth
    MaxPages,       \* ingest_http_max_pages
    MaxChanges,       \* bound on the changes of the site
    MaxCrawls,      \* bound on the runs
    MaxCrawlFaults  \* bound on the failures

ASSUME CrawlerAssumption ==
    /\ IsFiniteSet(Pages) /\ Seeds \in Seq(Pages) /\ {Tagged, Dated, Disallowed, Foreign} \subseteq SUBSET Pages
    /\ Redirected \in [Pages -> Pages]
    /\ Webs \subseteq [Pages -> Seq(Pages)]
    /\ {MaxDepth, MaxPages, MaxChanges, MaxCrawls, MaxCrawlFaults} \subseteq Nat

VARIABLES
    site,       \* the server's pages: version and links
    changes,      \* the time on the site
    entries,    \* the manifest
    indexed,    \* the points of each page: live or not, and of which version
    crawl,      \* the run
    crawlFaults

crawlVars == <<site, changes, entries, indexed, crawl, crawlFaults>>

Versions == 0..MaxChanges + 1
PageEntry == [state : {"none", "live", "gone"}, etag : Versions, modified : Versions, content : Versions]
Items    == [page : Pages, etag : Versions, modified : Versions]
GotType  == [kind : {"none", "failed", "same", "page"}, version : Versions, links : Seq(Pages)]
Ungot    == [kind |-> "none", version |-> 0, links |-> <<>>]
Unanswered   == [Ungot EXCEPT !.kind = "failed"]

CrawlerTypeOK ==
    /\ site \in [Pages -> [version : Versions, links : Seq(Pages)]]
    /\ changes \in 0..MaxChanges
    /\ entries \in [Pages -> PageEntry]
    /\ indexed \in [Pages -> [live : BOOLEAN, content : Versions]]
    /\ crawl.phase \in {"idle", "choose", "get", "sitemap", "plan", "process"} /\ crawl.kind \in {"choose", "sitemap"}
    /\ crawl.seen \subseteq Pages /\ Cardinality(crawl.seen) <= MaxPages
    /\ crawl.frontier \in Seq(Pages) /\ crawl.targets \in Seq(Pages)
    /\ crawl.results \in Seq(GotType)
    /\ crawl.read \in [Pages -> SUBSET Pages] /\ crawl.took \in [Pages -> Versions] /\ crawl.answered \subseteq crawl.seen
    /\ crawl.listed \in Seq(Items) /\ crawl.tasks \in Seq(Items)
    /\ crawl.runs \in 0..MaxCrawls /\ crawlFaults \in 0..MaxCrawlFaults

(* A new connector, which knows nothing, not even robots.txt.  `read', `took', `answered' and `capped'
   only record: the links and the latest version that were downloaded, what the server answered, and
   that pages were passed over for the cap. *)
NewCrawl(runs, kind, from) ==
    [phase |-> kind, kind |-> kind, runs |-> runs, full |-> from = 0, from |-> from, error |-> FALSE,
     robots |-> "unread", depth |-> 0, frontier |-> Seeds, seen |-> {}, targets |-> <<>>, results |-> <<>>,
     listed |-> <<>>, tasks |-> <<>>, outcomes |-> <<>>, read |-> [p \in Pages |-> {}],
     took |-> [p \in Pages |-> 0], answered |-> {}, capped |-> FALSE]

CrawlerInit ==
    /\ \E web \in Webs : site = [p \in Pages |-> [version |-> 1, links |-> web[p]]]
    /\ changes = 0
    /\ entries = [p \in Pages |-> [state |-> "none", etag |-> 0, modified |-> 0, content |-> 0]]
    /\ indexed = [p \in Pages |-> [live |-> FALSE, content |-> 0]]
    /\ crawl = [NewCrawl(0, "choose", 0) EXCEPT !.phase = "idle"]
    /\ crawlFaults = 0
-----------------------------------------------------------------------------
\* The site changes: a page is written anew, with the links of another web, or taken away.
ChangePage(p) ==
    /\ changes < MaxChanges /\ changes' = changes + 1
    /\ \E web \in Webs, there \in BOOLEAN :
         site' = [site EXCEPT ![p] = [version |-> IF there THEN changes + 2 ELSE 0, links |-> web[p]]]
    /\ UNCHANGED <<entries, indexed, crawl, crawlFaults>>

CrawlFault == crawlFaults < MaxCrawlFaults /\ crawlFaults' = crawlFaults + 1

\* list_documents: a crawl of the seeds or the sitemap, of everything or of what is newer.
BeginCrawl ==
    /\ crawl.phase = "idle" /\ crawl.runs < MaxCrawls
    /\ \E kind \in {"choose", "sitemap"}, from \in 0..changes + 1 : crawl' = NewCrawl(crawl.runs + 1, kind, from)
    /\ UNCHANGED <<site, changes, entries, indexed, crawlFaults>>

(* _robots_for, before the first page is judged; robots.txt that cannot be read allows
   everything, for the rest of the run. *)
ReadRobots ==
    /\ crawl.phase \in {"choose", "sitemap"} /\ crawl.robots = "unread"
    /\ \/ crawl' = [crawl EXCEPT !.robots = "read"] /\ UNCHANGED crawlFaults
       \/ crawl' = [crawl EXCEPT !.robots = "absent"] /\ CrawlFault
    /\ UNCHANGED <<site, changes, entries, indexed>>

\* _allowed
AllowedPage(p) == p \notin Foreign /\ (crawl.robots = "read" => p \notin Disallowed)

Unseen == Picked(crawl.frontier, {i \in DOMAIN crawl.frontier : /\ crawl.frontier[i] \notin crawl.seen
                                                              /\ AllowedPage(crawl.frontier[i])})
Room  == MaxPages - Cardinality(crawl.seen)

(* The pages of the next level: those not seen on an earlier one and allowed, in order
   and up to the cap.  A page that two others link to is there twice. *)
Targets == SubSeq(Unseen, 1, IF Len(Unseen) < Room THEN Len(Unseen) ELSE Room)

Choose ==
    /\ crawl.phase = "choose" /\ crawl.robots # "unread"
    /\ crawl' = IF crawl.depth > MaxDepth \/ Targets = <<>>
                THEN [crawl EXCEPT !.phase = "plan", !.frontier = <<>>, !.capped = @ \/ (crawl.depth <= MaxDepth /\ Unseen # <<>>)]
                ELSE [crawl EXCEPT !.phase = "get", !.targets = Targets, !.results = [i \in DOMAIN Targets |-> Ungot],
                                   !.capped = @ \/ ~ToSet(Unseen) \subseteq ToSet(Targets)]
    /\ UNCHANGED <<site, changes, entries, indexed, crawlFaults>>

\* What answers for a page, and the pages whose answer has an ETag.
Behind(p) == site[Redirected[p]]
Marked    == {p \in Pages : Redirected[p] \in Tagged}

\* A date is not looked at when there is an ETag to compare (RFC 9110, 13.1.3).
NotModified(p) ==
    IF entries[p].etag # 0 THEN p \in Marked /\ entries[p].etag = Behind(p).version
    ELSE Redirected[p] \in Dated /\ Behind(p).version <= entries[p].modified

\* What the server answers to a conditional request.
Answer(p) ==
    IF Behind(p).version = 0 THEN Unanswered
    ELSE IF NotModified(p) THEN [Ungot EXCEPT !.kind = "same", !.version = entries[p].etag]
    ELSE [kind |-> "page", version |-> Behind(p).version, links |-> Behind(p).links]

\* _conditional_get, of one page of the level among the others.
Get(i) ==
    /\ crawl.phase = "get" /\ crawl.results[i] = Ungot
    /\ \/ crawl' = [crawl EXCEPT !.results[i] = Answer(crawl.targets[i])] /\ UNCHANGED crawlFaults
       \/ crawl' = [crawl EXCEPT !.results[i] = Unanswered] /\ CrawlFault
    /\ UNCHANGED <<site, changes, entries, indexed>>

\* The validators of an answer: none from a page that comes without.
EtagOf(p, got) == IF p \in Marked \/ got.kind = "same" THEN got.version ELSE 0
DateOfPage(p, got) == IF Redirected[p] \in Dated /\ got.kind = "page" THEN got.version ELSE 0
ItemOf(p, got) == [page |-> p, etag |-> EtagOf(p, got), modified |-> DateOfPage(p, got)]

\* As it would be if links were followed one level too few.
DeeperLess == crawl.depth + 1 < MaxDepth

\* Links of the last level are not followed.
Deeper == crawl.depth < MaxDepth

\* As it would be if what is not modified were not listed.
AnsweredAnew == {i \in DOMAIN crawl.targets : crawl.results[i].kind = "page"}

\* The requests of the level that did not fail.
AnsweredNow == {i \in DOMAIN crawl.targets : crawl.results[i].kind # "failed"}

(* Every answer of the level is listed, in order, and its links that were not seen so far make
   the next frontier.  A page that failed is seen and not listed. *)
Collect ==
    LET Of(i)     == crawl.targets[i]
        Got(i)    == crawl.results[i]
        Before(i) == crawl.seen \cup {Of(j) : j \in 1..i}
        items == [i \in DOMAIN crawl.targets |->
                    IF i \in AnsweredNow THEN <<ItemOf(Of(i), Got(i))>> ELSE <<>>]
        links == [i \in DOMAIN crawl.targets |->
                    IF Deeper THEN Picked(Got(i).links, {n \in DOMAIN Got(i).links : Got(i).links[n] \notin Before(i)}) ELSE <<>>]
        bodies == {i \in DOMAIN crawl.targets : Got(i).kind = "page"}
    IN  /\ crawl.phase = "get" /\ \A i \in DOMAIN crawl.results : crawl.results[i] # Ungot
        /\ crawl' = [crawl EXCEPT !.phase = "choose", !.depth = @ + 1,
                       !.seen = @ \cup ToSet(crawl.targets), !.targets = <<>>, !.results = <<>>,
                       !.frontier = FlattenSeq(links), !.listed = @ \o FlattenSeq(items),
                       !.read = [p \in Pages |-> @[p] \cup UNION {ToSet(Got(i).links) : i \in {j \in bodies : Of(j) = p}}],
                       !.took = [p \in Pages |-> Max({@[p]} \cup {Got(i).version : i \in {j \in bodies : Of(j) = p}})],
                       !.answered = @ \cup {Of(i) : i \in {j \in DOMAIN crawl.targets : Got(j).kind # "failed"}}]
        /\ UNCHANGED <<site, changes, entries, indexed, crawlFaults>>

(* _list_from_sitemap: the entries that are not older, allowed and within the cap, with the
   ETag of the last run and the date the sitemap gives.  A sitemap that cannot be read ends the enumeration. *)
ListSitemap ==
    LET Fresh(p) == Behind(p).version # 0 /\ Behind(p).version >= crawl.from /\ AllowedPage(p)
        fresh == Picked(crawl.frontier, {i \in DOMAIN crawl.frontier : Fresh(crawl.frontier[i])})
        some  == SubSeq(fresh, 1, IF Len(fresh) < MaxPages THEN Len(fresh) ELSE MaxPages)
    IN  /\ crawl.phase = "sitemap"
        /\ \/ /\ crawl.robots # "unread"
              /\ crawl' = [crawl EXCEPT !.phase = "plan", !.frontier = <<>>, !.capped = Len(fresh) > MaxPages,
                             !.listed = [i \in DOMAIN some |-> [page |-> some[i], etag |-> entries[some[i]].etag,
                                                                modified |-> Behind(some[i]).version]]]
              /\ UNCHANGED crawlFaults
           \/ CrawlFault /\ crawl' = [crawl EXCEPT !.phase = "plan", !.frontier = <<>>, !.error = TRUE]
        /\ UNCHANGED <<site, changes, entries, indexed>>
-----------------------------------------------------------------------------
(* classify_document in phase 1, without bytes: a live page is taken only if it came with an
   ETag that is not the recorded one. *)
Changed(item) ==
    \/ entries[item.page].state # "live"
    \/ item.etag # 0 /\ entries[item.page].etag # 0 /\ item.etag # entries[item.page].etag

ListedPages == {crawl.listed[i].page : i \in DOMAIN crawl.listed}

\* As it would be if any pass could tell what is missing.
MissingAlways == {p \in Pages : entries[p].state = "live"} \ ListedPages

\* detect_deletions
Missing == IF crawl.full /\ ~crawl.error THEN {p \in Pages : entries[p].state = "live"} \ ListedPages ELSE {}

\* A document that is still to be processed.
NoOutcome == [state |-> "todo", etag |-> 0, modified |-> 0, content |-> 0]

\* plan_source
PlanPages ==
    /\ crawl.phase = "plan"
    /\ LET tasks == Picked(crawl.listed, {i \in DOMAIN crawl.listed : Changed(crawl.listed[i])})
       IN crawl' = [crawl EXCEPT !.phase = "process", !.tasks = tasks, !.outcomes = [i \in DOMAIN tasks |-> NoOutcome]]
    /\ UNCHANGED <<site, changes, entries, indexed, crawlFaults>>

(* process_document: what the crawl downloaded went with its connector, and the page is asked for
   again under the validators of its entry.  Unmodified, or the bytes on record, leaves the points
   alone; else they are written.  An answer without a validator leaves the listed one.  The documents of a run are processed in any order. *)
Process(i) ==
    LET p     == crawl.tasks[i].page
        task  == crawl.tasks[i]
        entry == entries[p]
        got   == Answer(p)
        Outcome(state, etag, modified, content) ==
            [crawl EXCEPT !.outcomes[i] = [state |-> state, etag |-> etag, modified |-> modified, content |-> content]]
    IN  /\ crawl.phase = "process" /\ crawl.outcomes[i].state = "todo"
        /\ \/ /\ (got.kind = "failed" /\ UNCHANGED crawlFaults) \/ CrawlFault
              /\ crawl' = Outcome("failed", 0, 0, 0) /\ UNCHANGED indexed
           \/ /\ got.kind = "same"
              /\ crawl' = Outcome("done", task.etag, task.modified, entry.content)
              /\ UNCHANGED <<indexed, crawlFaults>>
           \/ /\ got.kind = "page"
              /\ crawl' = Outcome("done", IF p \in Marked THEN got.version ELSE task.etag,
                                 IF Redirected[p] \in Dated THEN got.version ELSE task.modified, got.version)
              /\ indexed' = IF entry.state = "live" /\ entry.content = got.version THEN indexed
                            ELSE [indexed EXCEPT ![p] = [live |-> TRUE, content |-> got.version]]
              /\ UNCHANGED crawlFaults
        /\ UNCHANGED <<site, changes, entries>>

(* finalize_run: the outcomes in the order of the plan, failed ones left out, and the points
   of what is missing hidden. *)
FinishCrawl ==
    LET Done(p) == {i \in DOMAIN crawl.tasks : crawl.tasks[i].page = p /\ crawl.outcomes[i].state # "failed"}
        New(p)  == LET o == crawl.outcomes[Max(Done(p))] IN [o EXCEPT !.state = "live"]
    IN  /\ crawl.phase = "process" /\ \A i \in DOMAIN crawl.tasks : crawl.outcomes[i].state # "todo"
        /\ entries' = [p \in Pages |-> IF p \in Missing THEN [entries[p] EXCEPT !.state = "gone"]
                                       ELSE IF Done(p) # {} THEN New(p) ELSE entries[p]]
        /\ indexed' = [p \in Pages |-> IF p \in Missing THEN [indexed[p] EXCEPT !.live = FALSE] ELSE indexed[p]]
        /\ crawl' = [crawl EXCEPT !.phase = "idle"]
        /\ UNCHANGED <<site, changes, crawlFaults>>

CrawlerNext ==
    \/ \E p \in Pages : ChangePage(p)
    \/ BeginCrawl \/ ReadRobots \/ Choose \/ Collect \/ ListSitemap \/ PlanPages \/ FinishCrawl
    \/ \E i \in DOMAIN crawl.targets : Get(i)
    \/ \E i \in DOMAIN crawl.tasks : Process(i)

CrawlerSpec == CrawlerInit /\ [][CrawlerNext]_crawlVars
-----------------------------------------------------------------------------
\* The pages within so many clicks of the seeds, over the links that were read.
Reach(allowed, read) ==
    LET reach[d \in 0..MaxDepth] ==
            IF d = 0 THEN allowed \cap ToSet(Seeds)
            ELSE reach[d - 1] \cup {q \in allowed : \E p \in reach[d - 1] : q \in read[p]}
    IN  reach

\* The pages this crawl should ask for, by the links that it downloaded.
WithinDepth == Reach({p \in Pages : AllowedPage(p)}, crawl.read)[MaxDepth]

(* A crawl asks for the pages within max_depth clicks, whatever fails and changes under it: for
   nothing else, and short of the cap for all of them, also when a page is reached on several ways.
   It speaks of the URLs that are asked for: what a redirect leads to is judged by nobody. *)
ReachIsCovered ==
    crawl.kind = "choose" /\ crawl.phase \in {"plan", "process"}
    => /\ crawl.seen \subseteq WithinDepth
       /\ ~crawl.capped => WithinDepth \subseteq crawl.seen

(* What a run is about to hide it has not reached: over what it downloaded no way leads to the
   page, the page itself did not answer, or the cap was met.  A pass that is not full, or was
   cut short, hides nothing. *)
HiddenForAReason ==
    crawl.phase = "process" /\ Missing # {}
    => /\ crawl.full /\ ~crawl.error
       /\ crawl.kind = "choose" /\ ~crawl.capped => Missing \cap WithinDepth \cap crawl.answered = {}

(* A page that comes with an ETag and that a crawl downloaded is indexed as it was then, or newer,
   and the manifest knows it, unless processing it failed. *)
ReadIsIndexed ==
    crawl.phase = "idle" => \A p \in Marked :
        crawl.took[p] # 0 /\ (\A i \in DOMAIN crawl.tasks : crawl.tasks[i].page = p => crawl.outcomes[i].state # "failed")
        => /\ indexed[p].live /\ indexed[p].content >= crawl.took[p]
           /\ entries[p].state = "live" /\ entries[p].content >= crawl.took[p]

CrawlIsHonest == ReachIsCovered /\ HiddenForAReason /\ ReadIsIndexed
=============================================================================
