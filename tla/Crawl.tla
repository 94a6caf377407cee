---------------------------------- MODULE Crawl ----------------------------------
(***********************************************************************************)
(* Reading a paginated career page (scraping/execution/page_crawler.py,               *)
(* scrapers/adaptive_parser.py, and the part of scraping/service.py that uses them).  *)
(* The crawler parses a page, looks for the next one, sleeps, fetches it, and goes on *)
(* until there is none, a limit is reached, a fetch fails, or the service's timeout    *)
(* cancels it; then the service reads the first page alone.                           *)
(*                                                                                  *)
(* The site is not to be trusted to end: it may link any page from any page.  A URL   *)
(* is a path, the number of the page in it, if any, and how the rest is spelled,        *)
(* which does not matter to the server.  A listing is its title and URL, "" if absent. *)
(***********************************************************************************)
EXTENDS Integers, Sequences, FiniteSets, SequencesExt

CONSTANTS
    Urls, StartUrl,   \* [path, page, spelling], the page a number <<n>> or none, <<>>
    Pages,            \* [cards, scripts, links, rel, text, aria]: what extract() and
                      \* _detect_next_url find in one page
    MaxPages, MaxJobs

Nowhere == [path |-> "none", page |-> <<>>, spelling |-> 0]

VARIABLES
    crawler,   \* [at, url, html, next]: where it is, the current page, and the next URL
    first,     \* first_page_html
    visited, pagesCrawled, jobs, reason,   \* visited, and the PaginationResult
    result,    \* what _extract_target_jobs returns
    parsed     \* history: the pages whose parse went well, with their URLs

crawlVars == <<crawler, first, visited, pagesCrawled, jobs, reason, result, parsed>>

-----------------------------------------------------------------------------------
(* AdaptiveCareerParser.extract: the first of four ways that finds anything *)

Titled(listings) == SelectSeq(listings, LAMBDA l : l.title # "")
Flat(lists) == FoldLeft(\o, <<>>, lists)
FirstNonEmpty(lists) ==
    IF \E i \in DOMAIN lists : lists[i] # <<>>
    THEN lists[CHOOSE i \in DOMAIN lists : lists[i] # <<>> /\ \A j \in 1..(i - 1) : lists[j] = <<>>]
    ELSE <<>>

\* Of the selectors, the first with a titled element.
BySelectors(page) == FirstNonEmpty([i \in DOMAIN page.cards |-> Titled(page.cards[i])])
\* All postings of all scripts of a kind that can be read.
OfScripts(page, kind) ==
    LET scripts == SelectSeq(page.scripts, LAMBDA s : s.kind = kind /\ s.readable)
    IN  Flat([i \in DOMAIN scripts |-> Titled(scripts[i].listings)])
ByJsonLd(page) == OfScripts(page, "ld")
ByState(page) == OfScripts(page, "state")
ByLinks(page) == Titled(page.links)

\* The first of each, in their order.
NoTwice(s) ==
    LET firsts == {i \in DOMAIN s : \A k \in DOMAIN s : k < i => s[k] # s[i]}
    IN  [n \in 1..Cardinality(firsts) |->
            s[CHOOSE i \in firsts : Cardinality({k \in firsts : k < i}) = n - 1]]
Extract(page) ==
    NoTwice(FirstNonEmpty(<<BySelectors(page), ByJsonLd(page), ByState(page), ByLinks(page)>>))

-----------------------------------------------------------------------------------
(* The next URL *)

\* A number up to 1 counts up without a link; any later page needs one, and so does a URL
\* without a number.
CountUp(url) ==
    IF url.page # <<>> /\ url.page[1] <= 1
    THEN [url EXCEPT !.page = <<url.page[1] + 1>>] ELSE Nowhere
DetectNext(page, url) ==
    IF page.rel # Nowhere THEN page.rel ELSE IF page.text # Nowhere THEN page.text
    ELSE IF page.aria # Nowhere THEN page.aria ELSE CountUp(url)
\* Mutant: URLs are compared as they are spelled.
Normal_spelled(url) == url
Normal(url) == [url EXCEPT !.spelling = 0]

\* Assumed of the constants by the module that instantiates this one.
CrawlAssumption ==
    /\ StartUrl \in Urls /\ Nowhere \notin Urls
    /\ \A u \in Urls : u = [path |-> u.path, page |-> u.page, spelling |-> u.spelling]
    /\ \A p \in Pages : /\ {p.rel, p.text, p.aria} \subseteq Urls \cup {Nowhere}
                        /\ Extract(p) \in Seq(ToSet(Extract(p)))
    /\ MaxPages \in Nat \ {0} /\ MaxJobs \in Nat \ {0}

-----------------------------------------------------------------------------------
(* crawl *)

CrawlInit ==
    /\ first \in Pages
    /\ crawler = [at |-> "page", url |-> StartUrl, html |-> first, next |-> Nowhere]
    /\ visited = {} /\ pagesCrawled = 0 /\ jobs = <<>> /\ reason = "no_more_pages"
    /\ result = <<>> /\ parsed = {}

\* A dict without a URL stands for the target's.
Keyed(l) == [title |-> l.title, url |-> IF l.url = "" THEN "start" ELSE l.url]
\* _normalize_target_jobs.
NormalJobs(listings) == NoTwice([i \in DOMAIN listings |-> Keyed(listings[i])])

\* One turn of the loop up to the sleep.  parse_fn may raise: the page then counts as empty,
\* and the crawl goes on.
CrawlPage(raises) ==
    LET found == IF raises THEN <<>> ELSE Extract(crawler.html)
        all == jobs \o found
        n == pagesCrawled + 1
        next == DetectNext(crawler.html, crawler.url)
        why == IF Len(all) >= MaxJobs THEN "max_jobs" ELSE IF n >= MaxPages THEN "max_pages"
               ELSE IF raises THEN "error" ELSE reason
        ends == Len(all) >= MaxJobs \/ n >= MaxPages \/ next = Nowhere
                \/ Normal(next) \in visited \cup {Normal(crawler.url)}
    IN  /\ crawler.at = "page"
        /\ visited' = visited \cup {Normal(crawler.url)} /\ pagesCrawled' = n
        /\ jobs' = all /\ reason' = why
        /\ parsed' = IF raises THEN parsed
                     ELSE parsed \cup {[url |-> crawler.url, html |-> crawler.html]}
        /\ crawler' = [at |-> IF ends THEN "done" ELSE "fetching", url |-> crawler.url,
                       html |-> crawler.html, next |-> IF ends THEN Nowhere ELSE next]
        /\ result' = IF ends THEN NormalJobs(all) ELSE <<>>
        /\ UNCHANGED first

Fetch(html) ==
    /\ crawler.at = "fetching"
    /\ crawler' = [at |-> "page", url |-> crawler.next, html |-> html, next |-> Nowhere]
    /\ UNCHANGED <<first, visited, pagesCrawled, jobs, reason, result, parsed>>
FetchFails ==
    /\ crawler.at = "fetching" /\ reason' = "error"
    /\ crawler' = [crawler EXCEPT !.at = "done"] /\ result' = NormalJobs(jobs)
    /\ UNCHANGED <<first, visited, pagesCrawled, jobs, parsed>>

\* PAGINATION_TIMEOUT_S while it sleeps or fetches, or a link of the page that urljoin
\* refuses: what was found is dropped and the first page read again, where an exception is
\* the target's failure.
TimeOut(raises) ==
    /\ crawler.at \in {"page", "fetching"}
    /\ crawler' = [crawler EXCEPT !.at = IF raises THEN "failed" ELSE "fallback"]
    /\ result' = IF raises THEN <<>> ELSE NormalJobs(Extract(first))
    /\ UNCHANGED <<first, visited, pagesCrawled, jobs, reason, parsed>>

CrawlNext ==
    \/ \E raises \in BOOLEAN : CrawlPage(raises) \/ TimeOut(raises)
    \/ \E html \in Pages : Fetch(html)
    \/ FetchFails
CrawlSpec == CrawlInit /\ [][CrawlNext]_crawlVars

-----------------------------------------------------------------------------------
(* Properties *)

CrawlTypeOK ==
    /\ crawler.at \in {"page", "fetching", "done", "fallback", "failed"}
    /\ crawler.url \in Urls /\ crawler.html \in Pages /\ visited \subseteq Urls
    /\ reason \in {"no_more_pages", "max_pages", "max_jobs", "error"}

Over == crawler.at = "done"
SamePage(u, v) == u.path = v.path /\ u.page = v.page
Holds(s, l) == \E i \in DOMAIN s : s[i] = Keyed(l)

\* Whatever a site links, the crawl reads each page once and no more than its limit; its
\* result has every posting it has found, each once; and a crawl that says there are no more
\* pages has read the one its last page leads to, and has had no error.
CrawlIsComplete ==
    /\ pagesCrawled = Cardinality(visited) /\ pagesCrawled <= MaxPages
    /\ \A p, q \in parsed : SamePage(p.url, q.url) => p = q
    /\ Over =>
         /\ \A p \in parsed : \A i \in DOMAIN Extract(p.html) : Holds(result, Extract(p.html)[i])
         /\ \A i, j \in DOMAIN result : result[i] = result[j] => i = j
         /\ reason = "no_more_pages" =>
              /\ Cardinality(parsed) = pagesCrawled
              /\ LET next == DetectNext(crawler.html, crawler.url)
                 IN  next = Nowhere \/ \E p \in parsed : SamePage(p.url, next)
===================================================================================
