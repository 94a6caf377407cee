-------------------------------- MODULE MCPostings --------------------------------
(***********************************************************************************)
(* The way of a posting to the user: crawled from a career page, told apart from     *)
(* what is known already, put to the user as a possible duplicate, read by a language *)
(* model, told by an alert of a saved search, and summed up in the daily digest.  Each *)
(* step takes the rows of the one before as given, so a behaviour is of one of them:  *)
(* part says which.                                                                  *)
(***********************************************************************************)
EXTENDS SavedSearches, TLC

CONSTANTS
    x, y,
    PageUrls, StartUrl, Pages, MaxPages, MaxJobs,
    Sources, Contents, Urls, Texts, Distance, NoUrl, Unknown, MaxBatch,
    Likeness, Jobs, Window, Limits, Factor, MaxAnswers,
    Users, Runs, MaxFailures, MaxDeletions,
    Listed, Batches, Askers, BatchSize, EmbedSize, MaxCalls

VARIABLES
    part,
    crawler, first, visited, pagesCrawled, jobs, reason, result, parsed,
    batch, next, seen, kept, dropped,
    stored, answers, asked, open, limit,
    account, active, run, told, failures,
    job, present, enricher, reading, calls, spent, twice, excused

Page == INSTANCE Crawl WITH Urls <- PageUrls
Batch == INSTANCE Deduplication
Review == INSTANCE DedupReview
Daily == INSTANCE Digest
Model == INSTANCE Enrichment

ASSUME PostingsAssumption ==
    Page!CrawlAssumption /\ Batch!DistanceAssumption /\ Review!ReviewAssumption
    /\ Model!EnrichmentAssumption

pageVars == <<crawler, first, visited, pagesCrawled, jobs, reason, result, parsed>>
batchVars == <<batch, next, seen, kept, dropped>>
reviewVars == <<stored, answers, asked, open, limit>>
dailyVars == <<account, active, run, told, failures>>
modelVars == <<job, present, enricher, reading, calls, spent, twice, excused>>
mcVars == <<part, searchVars, pageVars, batchVars, reviewVars, dailyVars, modelVars>>

MCInit ==
    /\ part \in {"search", "page", "batch", "review", "daily", "model"}
    \* What a part starts with is chosen in its own behaviours only.
    /\ Batch!DedupInit /\ (part # "batch" => batch = <<>>)
    /\ SearchesInit /\ (part # "search" => \A s \in Searches : search[s].readable)
    /\ Page!CrawlInit /\ (part # "page" => first = CHOOSE p \in Pages : TRUE)
    /\ Daily!DigestInit /\ (part # "daily" => active = Users)
    /\ Review!ReviewInit
    /\ Model!EnrichmentInit

InSearch(A) ==
    part = "search" /\ A /\ UNCHANGED <<part, pageVars, batchVars, reviewVars, dailyVars, modelVars>>
InPage(A) ==
    part = "page" /\ A /\ UNCHANGED <<part, searchVars, batchVars, reviewVars, dailyVars, modelVars>>
InBatch(A) ==
    part = "batch" /\ A /\ UNCHANGED <<part, searchVars, pageVars, reviewVars, dailyVars, modelVars>>
InReview(A) ==
    part = "review" /\ A /\ UNCHANGED <<part, searchVars, pageVars, batchVars, dailyVars, modelVars>>
InDaily(A) ==
    part = "daily" /\ A /\ UNCHANGED <<part, searchVars, pageVars, batchVars, reviewVars, modelVars>>

InModel(A) ==
    part = "model" /\ A /\ UNCHANGED <<part, searchVars, pageVars, batchVars, reviewVars, dailyVars>>

MCNext ==
    \/ InSearch(SearchesNext) \/ InPage(Page!CrawlNext) \/ InBatch(Batch!DedupNext)
    \/ InReview(Review!ReviewNext) \/ InDaily(Daily!DigestNext)
    \/ InModel(Model!EnrichmentNext)

MCSpec == MCInit /\ [][MCNext]_mcVars

Symmetry == Permutations({x, y})

-----------------------------------------------------------------------------------
(* The data of the instances *)

Url(path, page, spelling) == [path |-> path, page |-> page, spelling |-> spelling]
MCUrls == {Url("jobs", n, s) : n \in {<<>>, <<0>>, <<1>>, <<2>>, <<3>>}, s \in {0, 1}}
          \cup {Url("team", <<>>, 0)}
MCStart == Url("jobs", <<0>>, 1)

Listing(title, url) == [title |-> title, url |-> url]
Script(kind, readable, listings) ==
    [kind |-> kind, readable |-> readable, listings |-> listings]
Html(cards, scripts, links, rel, text, aria) ==
    [cards |-> cards, scripts |-> scripts, links |-> links, rel |-> rel, text |-> text,
     aria |-> aria]
\* An empty page; cards of which one selector finds only untitled ones; an unreadable
\* JSON-LD script before a state script, with a link back to the first page; a readable
\* one; and bare links, which lead to a page without a number.
MCPages ==
    LET none == Url("none", <<>>, 0) IN
    {Html(<<>>, <<>>, <<>>, none, none, none),
     Html(<<<<Listing("", "u")>>, <<Listing("A", "u"), Listing("B", "")>>>>, <<>>,
          <<Listing("C", "u")>>, none, Url("jobs", <<2>>, 0), none),
     Html(<<>>, <<Script("ld", FALSE, <<Listing("C", "")>>),
                  Script("state", TRUE, <<Listing("A", "u"), Listing("A", "u")>>)>>, <<>>,
          Url("jobs", <<1>>, 0), none, none),
     Html(<<>>, <<Script("ld", TRUE, <<Listing("B", "v")>>),
                  Script("state", TRUE, <<Listing("A", "u"), Listing("A", "u")>>)>>, <<>>,
          none, none, Url("jobs", <<3>>, 1)),
     Html(<<>>, <<>>, <<Listing("A", "w"), Listing("D", "w")>>, none, none,
          Url("jobs", <<>>, 0))}

\* An aggregator's posting with nothing known of its board, and with a Greenhouse link;
\* and one whose provider is known only from its extra data.
MCSources ==
    {[field |-> "none", extra |-> "none", source |-> "serpapi", host |-> "none",
      given |-> "none", path |-> "none", domain |-> "none", board |-> "none"],
     [field |-> "none", extra |-> "none", source |-> "serpapi", host |-> "greenhouse",
      given |-> "none", path |-> "7", domain |-> "none", board |-> "acme"],
     [field |-> "none", extra |-> "greenhouse", source |-> "theirstack", host |-> "none",
      given |-> "7", path |-> "none", domain |-> "none", board |-> "none"]}
\* s and u are each near to t, but not to one another.
MCDistance ==
    [p \in Texts \X Texts |->
        IF p[1] = p[2] THEN 0 ELSE IF {p[1], p[2]} = {"s", "u"} THEN 3 ELSE 2]

\* Both sides of the two thresholds, 30 and 85.
MCLikeness ==
    [p \in Jobs \X Jobs |->
        CASE p = <<1, 2>> -> 60 [] p = <<2, 3>> -> 45 [] p = <<1, 3>> -> 80
          [] p = <<3, 4>> -> 90 [] p = <<1, 4>> -> 30 [] OTHER -> 50]

-----------------------------------------------------------------------------------
\* The properties of the instances, stated in their modules.
CrawlIsComplete == Page!CrawlIsComplete
\* A posting is dropped only for one that stands for it, and a doubtful pair comes up.
DuplicatesExplained == Batch!KeptStandForAll /\ Review!DoubtsComeUp
AllOrNobody == Daily!AllOrNobody
EnrichmentExplained == Model!EnrichmentExplained
===================================================================================
