------------------------------ MODULE Deduplication ------------------------------
(***********************************************************************************)
(* What a scrape keeps of the postings it has fetched (scraping/deduplication.py):    *)
(* one pass over them, in which a posting is dropped when its ATS key, its title and  *)
(* company, or its URL has been seen, or when its text is near that of a kept one.    *)
(* What a dropped posting has shown up to the layer that dropped it counts as seen.   *)
(*                                                                                  *)
(* A posting is its position in the batch with the four features the layers compare;  *)
(* how near two texts are is the number of different bits of their fingerprints.      *)
(***********************************************************************************)
EXTENDS Naturals, Sequences, FiniteSets, SequencesExt

CONSTANTS
    Sources,      \* what derive_ats_identity reads: the provider by [field, extra, source,
                  \* host], the id by [given, path], the scope by [domain, board]
    Contents, Urls, Texts,   \* title with company, URLs without tracking, descriptions
    NoUrl, Unknown,
    Distance,     \* of two texts
    MaxBatch      \* bound

\* Assumed of the constants by the module that instantiates this one.
DistanceAssumption ==
    \A s, t \in Texts : Distance[<<s, t>>] \in Nat /\ Distance[<<s, t>>] = Distance[<<t, s>>]

VARIABLES
    batch,   \* the postings: [from, content, url, text]
    next,    \* the one the loop looks at
    seen,    \* [keys, contents, urls]
    kept, dropped   \* positions; dropped is history

dedupVars == <<batch, next, seen, kept, dropped>>

-----------------------------------------------------------------------------------
(* The ATS identity of a posting *)

NoKey == <<>>
Providers == {"greenhouse", "lever", "ashby"}
\* The field, else the extra data, else the scraper's name or the URL's host where one of
\* them is a provider's.
Provider(s) ==
    IF s.field # Unknown THEN s.field
    ELSE IF s.extra # Unknown THEN s.extra
    ELSE IF s.source \in Providers THEN s.source
    ELSE IF s.host \in Providers THEN s.host ELSE Unknown
\* The id is read from a URL only when the provider is known to put it there.
JobId(s) ==
    IF s.given # Unknown THEN s.given
    ELSE IF Provider(s) \in Providers THEN s.path ELSE Unknown
Scope(s) == IF s.domain # Unknown THEN s.domain
            ELSE IF Provider(s) \in Providers THEN s.board ELSE Unknown
\* Mutant: postings of all boards of a provider share their ids.
Key_unscoped(s) ==
    IF Provider(s) = Unknown \/ JobId(s) = Unknown THEN NoKey
    ELSE <<Unknown, Provider(s), JobId(s)>>
Key(s) ==
    IF Provider(s) = Unknown \/ JobId(s) = Unknown THEN NoKey
    ELSE <<Scope(s), Provider(s), JobId(s)>>

-----------------------------------------------------------------------------------
(* The pass *)

DedupInit ==
    /\ \E n \in 0..MaxBatch :
           batch \in [1..n -> [from : Sources, content : Contents, url : Urls \cup {NoUrl},
                               text : Texts]]
    /\ next = 1 /\ kept = <<>> /\ dropped = {}
    /\ seen = [keys |-> {}, contents |-> {}, urls |-> {}]

Job == batch[next]
KeyOf(i) == Key(batch[i].from)
Near(i, j) == Distance[<<batch[i].text, batch[j].text>>] < 3

SameKey == KeyOf(next) # NoKey /\ KeyOf(next) \in seen.keys
SameContent == ~SameKey /\ Job.content \in seen.contents
SameUrl == ~SameKey /\ ~SameContent /\ Job.url # NoUrl /\ Job.url \in seen.urls
Past == ~SameKey /\ ~SameContent /\ ~SameUrl
NearKept == \E i \in DOMAIN kept : Near(next, kept[i])

\* What is noted down before the given layer.
See(layer) ==
    [keys |-> IF layer > 1 /\ KeyOf(next) # NoKey THEN seen.keys \cup {KeyOf(next)} ELSE seen.keys,
     contents |-> IF layer > 2 THEN seen.contents \cup {Job.content} ELSE seen.contents,
     urls |-> IF layer > 3 /\ Job.url # NoUrl THEN seen.urls \cup {Job.url} ELSE seen.urls]

Drop(layer) ==
    /\ next \in DOMAIN batch
    /\ \/ layer = 1 /\ SameKey
       \/ layer = 2 /\ SameContent
       \/ layer = 3 /\ SameUrl
       \/ layer = 4 /\ Past /\ NearKept
    /\ seen' = See(layer) /\ dropped' = dropped \cup {next} /\ next' = next + 1
    /\ UNCHANGED <<batch, kept>>
Keep ==
    /\ next \in DOMAIN batch /\ Past /\ ~NearKept
    /\ seen' = See(4) /\ kept' = Append(kept, next) /\ next' = next + 1
    /\ UNCHANGED <<batch, dropped>>

DedupNext == Keep \/ \E layer \in 1..4 : Drop(layer)
DedupSpec == DedupInit /\ [][DedupNext]_dedupVars

-----------------------------------------------------------------------------------
(* Properties *)

SamePosting(i, j) ==
    LET s == batch[i].from
        t == batch[j].from
    IN  /\ Provider(s) # Unknown /\ JobId(s) # Unknown
        /\ Provider(s) = Provider(t) /\ JobId(s) = JobId(t) /\ Scope(s) = Scope(t)
Matches(i, j) ==
    \/ SamePosting(i, j) \/ batch[i].content = batch[j].content
    \/ (batch[i].url # NoUrl /\ batch[i].url = batch[j].url) \/ Near(i, j)
\* A set of postings that the loop has looked at, with the kept ones, and with all that match
\* a member: the least such set are those that chains of matches link to a kept one.
HasLinked(S) ==
    /\ ToSet(kept) \subseteq S
    /\ \A i \in 1..(next - 1), j \in S : Matches(i, j) => i \in S

\* No two kept postings match in any layer, though each layer notes down only a part of
\* what it has seen; every dropped one is linked to a kept one by a chain of matches, so that
\* boards that number their postings alike do not lose any; and none is both kept and dropped.
KeptStandForAll ==
    /\ \A i, j \in ToSet(kept) : i # j => ~Matches(i, j)
    /\ \A S \in SUBSET (1..(next - 1)) : HasLinked(S) => dropped \subseteq S
    /\ ToSet(kept) \cup dropped = 1..(next - 1) /\ ToSet(kept) \cap dropped = {}
===================================================================================
