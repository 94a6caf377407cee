------------------------------ MODULE TargetBook ------------------------------
(***************************************************************************)
(* A user's list of scrape targets (scraping/routes/targets.py and          *)
(* career_pages.py): imports, career pages that are entered, edited and     *)
(* deleted, and targets that are patched, by requests that overlap.  Each   *)
(* looks for a target of the same URL, which no constraint forbids, and     *)
(* writes the columns that differ from what it has read.                    *)
(*                                                                         *)
(* A URL is a page and whether it is spelled in another than the normal     *)
(* form.  Priorities, intervals and names are not told apart.               *)
(***************************************************************************)
EXTENDS Naturals, Sequences, TLC

CONSTANTS
  Users,    \* requests
  Vendor,   \* of each page: the ATS whose pattern its URL has, or ""
  Lists,    \* imports: sequences of items [url, vendor]; vendor is "" if not given
  Tiers     \* start tiers a request may set

VARIABLES
  checks,   \* whether the database checks foreign keys
  rows,     \* of each id: [url, class, by, looked, stored, changed, own, patched, crossed]
  ids,      \* rows so far
  clock,    \* commits so far
  req,      \* of each request: [op, at, id, read, url, todo, add, looked, since]
  tried     \* targets with an attempt in scrape_attempts

bookVars == <<checks, rows, ids, clock, req, tried>>

Pages == DOMAIN Vendor
Url(page) == [page |-> page, spelled |-> FALSE]
\* AnyHttpUrl: the host in lower case, and a path.  Imports only strip.
Normal(url) == [url EXCEPT !.spelled = FALSE]

\* ATS_RULES: the start tier, and whether the URL names the board.
AtsRules ==
  [v \in {"greenhouse", "lever", "ashby", "workday"} |-> [tier |-> 0, names |-> TRUE]]
  @@ [v \in {"icims", "smartrecruiters", "jobvite", "breezy"} |-> [tier |-> 1, names |-> FALSE]]
ClassifyTarget(url) ==
  LET v == Vendor[url.page]
  IN IF v = "" THEN [vendor |-> "", token |-> "", tier |-> 1, kind |-> "career_page"]
     ELSE [vendor |-> v, token |-> IF AtsRules[v].names THEN url.page ELSE "",
           tier |-> AtsRules[v].tier, kind |-> "ats_board"]

NoRow == [url |-> Url(""), class |-> [vendor |-> "", token |-> "", tier |-> 1, kind |-> ""],
          by |-> "nobody", looked |-> 0, stored |-> 0, changed |-> 0, own |-> FALSE,
          patched |-> FALSE, crossed |-> FALSE]
Idle == [op |-> "none", at |-> "idle", id |-> 0, read |-> NoRow, url |-> Url(""),
         todo |-> <<>>, add |-> <<>>, looked |-> 0, since |-> 0]

\* A career page is there from the beginning.
BookInit ==
  /\ checks \in BOOLEAN
  /\ \E page \in Pages :
       /\ Vendor[page] = ""
       /\ rows = <<[NoRow EXCEPT !.url = Url(page), !.class = ClassifyTarget(Url(page))]>>
  /\ ids = 1 /\ clock = 0 /\ tried = {}
  /\ req = [r \in Users |-> Idle]

Exists(url, but) == \E i \in DOMAIN rows \ but : rows[i].url = url
NewRow(r, url, vendor) ==
  LET class == ClassifyTarget(url)
  IN [NoRow EXCEPT !.url = url, !.by = r, !.looked = clock, !.own = vendor # "",
                   !.class = IF vendor = "" THEN class ELSE [class EXCEPT !.vendor = vendor]]
End(r) == req' = [req EXCEPT ![r] = [Idle EXCEPT !.at = "done"]]
Begin(r, to) == req[r].at = "idle" /\ req' = [req EXCEPT ![r] = to]
Same == UNCHANGED <<checks, rows, ids, clock, tried>>

-----------------------------------------------------------------------------
(***************************************************************************)
(* import_targets and create_career_page.                                   *)
(***************************************************************************)
BeginImport(r, list) == Begin(r, [Idle EXCEPT !.op = "import", !.at = "look", !.todo = list]) /\ Same
BeginCreate(r, url) ==
  Begin(r, [Idle EXCEPT !.op = "create", !.at = "look", !.url = Normal(url)]) /\ Same

Queued(r, url) == \E n \in DOMAIN req[r].add : req[r].add[n].url = url
LookItem(r) ==
  /\ req[r].at = "look" /\ req[r].op = "import" /\ req[r].todo # <<>>
  /\ LET item == Head(req[r].todo)
         skipped == Exists(item.url, {}) \/ Queued(r, item.url)
         add == IF skipped THEN req[r].add
                ELSE Append(req[r].add, NewRow(r, item.url, item.vendor))
     IN req' = [req EXCEPT ![r] = [@ EXCEPT !.todo = Tail(req[r].todo), !.add = add]]
  /\ Same
LookCreate(r) ==
  /\ req[r].at = "look" /\ req[r].op = "create"
  /\ IF Exists(req[r].url, {}) THEN End(r)
     ELSE LET new == <<NewRow(r, req[r].url, "")>>
          IN req' = [req EXCEPT ![r] = [@ EXCEPT !.at = "store", !.add = new]]
  /\ Same

StoreNew(r) ==
  /\ \/ req[r].op = "import" /\ req[r].todo = <<>> /\ req[r].at = "look"
     \/ req[r].op = "create" /\ req[r].at = "store"
  /\ rows' = [i \in DOMAIN rows \cup (ids + 1..ids + Len(req[r].add)) |->
                IF i \in DOMAIN rows THEN rows[i]
                ELSE [req[r].add[i - ids] EXCEPT !.stored = clock + 1, !.changed = clock + 1]]
  /\ ids' = ids + Len(req[r].add) /\ clock' = clock + 1
  /\ End(r) /\ UNCHANGED <<checks, tried>>

-----------------------------------------------------------------------------
(***************************************************************************)
(* update_career_page, update_target and release_target.                    *)
(***************************************************************************)
Loaded(op, at, i) == [Idle EXCEPT !.op = op, !.at = at, !.id = i, !.read = rows[i], !.since = clock,
                                  !.url = rows[i].url]
BeginEdit(r, i, url) ==
  /\ rows[i].class.kind = "career_page"
  /\ Begin(r, [Loaded("edit", "look", i) EXCEPT !.url = Normal(url)]) /\ Same
\* A new name classifies the page anew, too.
BeginRename(r, i) ==
  rows[i].class.kind = "career_page" /\ Begin(r, Loaded("edit", "store", i)) /\ Same
LookEdit(r) ==
  /\ req[r].at = "look" /\ req[r].op = "edit"
  /\ IF Exists(req[r].url, {req[r].id}) THEN End(r)
     ELSE req' = [req EXCEPT ![r] = [@ EXCEPT !.at = "store", !.looked = clock]]
  /\ Same

\* Only what differs from what was read is written.
Column(now, read, new) == IF new = read THEN now ELSE new
Columns(now, read, new) == [c \in DOMAIN now |-> Column(now[c], read[c], new[c])]
Disturbed(r) == rows[req[r].id].changed > req[r].since
Change(r, row) ==
  /\ rows' = [rows EXCEPT ![req[r].id] = [row EXCEPT !.changed = clock + 1]]
  /\ clock' = clock + 1 /\ End(r) /\ UNCHANGED <<checks, ids, tried>>
\* Mutant: the page keeps the class of its old URL.
StoreEdit_url(r) ==
  /\ req[r].op = "edit" /\ req[r].at = "store" /\ req[r].id \in DOMAIN rows
  /\ Change(r, [rows[req[r].id] EXCEPT !.url = req[r].url])
StoreEdit(r) ==
  /\ req[r].op = "edit" /\ req[r].at = "store" /\ req[r].id \in DOMAIN rows
  /\ LET row == rows[req[r].id]
         read == req[r].read
         moves == req[r].url # read.url
     IN Change(r, [row EXCEPT
          !.url = Column(row.url, read.url, req[r].url),
          !.class = Columns(row.class, read.class, ClassifyTarget(req[r].url)),
          !.by = IF moves THEN r ELSE row.by,
          !.looked = IF moves THEN req[r].looked ELSE row.looked,
          !.stored = IF moves THEN clock + 1 ELSE row.stored,
          !.own = FALSE, !.patched = FALSE, !.crossed = Disturbed(r)])

BeginPatch(r, i, tier) ==
  /\ Begin(r, [Loaded("patch", "store", i) EXCEPT !.looked = tier]) /\ Same
StorePatch(r) ==
  /\ req[r].op = "patch" /\ req[r].id \in DOMAIN rows
  /\ LET class == rows[req[r].id].class
         tier == Column(class.tier, req[r].read.class.tier, req[r].looked)
     IN Change(r, [rows[req[r].id] EXCEPT !.class = [class EXCEPT !.tier = tier],
                                          !.patched = TRUE])

-----------------------------------------------------------------------------
(***************************************************************************)
(* delete_career_page, and the attempts of batches, which fail when they    *)
(* mark a target that is gone.                                              *)
(***************************************************************************)
BeginDelete(r, i) ==
  rows[i].class.kind = "career_page" /\ Begin(r, Loaded("delete", "look", i)) /\ Same
LookDelete(r) ==
  /\ req[r].at = "look" /\ req[r].op = "delete"
  /\ IF req[r].id \in tried THEN End(r) ELSE req' = [req EXCEPT ![r].at = "store"]
  /\ Same
StoreDelete(r) ==
  /\ req[r].op = "delete" /\ req[r].at = "store" /\ req[r].id \in DOMAIN rows
  /\ ~checks \/ req[r].id \notin tried
  /\ rows' = [i \in DOMAIN rows \ {req[r].id} |-> rows[i]]
  /\ clock' = clock + 1 /\ End(r) /\ UNCHANGED <<checks, ids, tried>>

\* The row is gone, the key is refused, or the request dies: nothing is stored.
GiveUp(r) == req[r].at \in {"look", "store"} /\ End(r) /\ Same

AddAttempt(i) == tried' = tried \cup {i} /\ UNCHANGED <<checks, rows, ids, clock, req>>

BookNext ==
  \/ \E r \in Users :
       \/ \E list \in Lists : BeginImport(r, list)
       \/ \E page \in Pages, spelled \in BOOLEAN :
            BeginCreate(r, [page |-> page, spelled |-> spelled])
       \/ LookItem(r) \/ LookCreate(r) \/ StoreNew(r)
       \/ \E i \in DOMAIN rows :
            \/ \E page \in Pages : BeginEdit(r, i, Url(page))
            \/ BeginRename(r, i) \/ BeginDelete(r, i) \/ \E tier \in Tiers : BeginPatch(r, i, tier)
       \/ LookEdit(r) \/ StoreEdit(r) \/ StorePatch(r) \/ LookDelete(r) \/ StoreDelete(r)
       \/ GiveUp(r)
  \/ \E i \in DOMAIN rows : AddAttempt(i)
BookSpec == BookInit /\ [][BookNext]_bookVars

-----------------------------------------------------------------------------
(***************************************************************************)
(* Properties.                                                              *)
(***************************************************************************)
Overlap(a, b) == a.by # b.by /\ a.looked < b.stored /\ b.looked < a.stored

\* A page is a target twice only by requests that overlapped, or in two spellings.
DoublesExplained ==
  \A i, k \in DOMAIN rows :
    i # k /\ rows[i].url = rows[k].url => Overlap(rows[i], rows[k])

\* A target is scraped the way its URL asks for, unless an import or a patch has said
\* otherwise, or edits of it overlapped; the next undisturbed edit puts it right.
ClassesExplained ==
  \A i \in DOMAIN rows :
    \/ rows[i].class = ClassifyTarget(rows[i].url)
    \/ rows[i].own \/ rows[i].patched \/ rows[i].crossed

\* Attempts keep their target where the database checks it.
TargetsExplained == DoublesExplained /\ ClassesExplained /\ (checks => tried \subseteq DOMAIN rows)
=============================================================================
