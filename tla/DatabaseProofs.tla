--------------------------- MODULE DatabaseProofs ----------------------------
(***************************************************************************)
(* Proofs about the database: about UserData, for any users, postings,      *)
(* batches and sessions, and about Migrations, for any commands.            *)
(***************************************************************************)
EXTENDS MCDatabase, WellFoundedInduction, TLAPS

-----------------------------------------------------------------------------
IsJob(row) == row = [owner |-> row.owner, target |-> row.target, key |-> row.key,
                     seen |-> row.seen] /\ row.seen \in Nat
IsPending(p) == p = Nothing \/ (p = [item |-> p.item, at |-> p.at, read |-> p.read]
                                /\ p.at \in Ids /\ (p.read = Nothing \/ IsJob(p.read)))
IsScrape(w) ==
    /\ w.op = "scrape"
    /\ w = [op |-> "scrape", user |-> w.user, aimed |-> w.aimed, todo |-> w.todo,
            pending |-> w.pending, hits |-> w.hits]
    /\ w.hits \in [Ids -> Nat] /\ w.todo \in Seq(Items) /\ IsPending(w.pending)
IsErasure(w) ==
    /\ w.op = "erase"
    /\ w = [op |-> "erase", user |-> w.user, keep |-> w.keep, step |-> w.step,
            taken |-> w.taken, runs |-> w.runs]
    /\ w.step \in {"notes", "jobs", "targets", "user"}
IsNote(n) == n = [by |-> n.by, kind |-> n.kind, job |-> n.job]

RowsCount ==
    /\ DOMAIN rows = Ids /\ sightings \in [Ids -> Nat]
    /\ \A i \in Ids : IF rows[i] = Nothing THEN sightings[i] = 0
                      ELSE IsJob(rows[i]) /\ (rows[i].seen # sightings[i] => i \in raced)

\* What a scrape has written and not committed.
Written(w, d) ==
    \A i \in Ids :
        IF i \notin DOMAIN d THEN w.hits[i] = 0
        ELSE /\ d[i] # Nothing /\ IsJob(d[i])
             /\ d[i].seen # sightings[i] + w.hits[i] => i \in raced
             /\ d[i].owner = IF rows[i] = Nothing THEN w.user ELSE rows[i].owner

\* What an erasure has deleted.
Erased(w, d) ==
    /\ \A i \in DOMAIN d : i \in Ids /\ d[i] = Nothing /\ rows[i] # Nothing /\ rows[i].owner = w.user
    /\ \A n \in w.taken : n.by = w.user
    /\ w.step = "notes" => w.taken = {}
    /\ w.step \in {"notes", "jobs"} => DOMAIN d = {}

\* And what is left of the user's, who has done nothing else.
Alone(s, w, d) ==
    /\ \A t \in Others(s) : work[t] = Idle \/ work[t].user # w.user
    /\ w.step # "notes" => \A n \in notes : n.by = w.user => n \in w.taken
    /\ w.step \in {"targets", "user"} =>
           \A i \in Ids : rows[i] # Nothing /\ rows[i].owner = w.user => i \in DOMAIN d
    /\ w.step = "user" => runs[w.user] = w.runs

SessionHolds(s, w, d) ==
    \/ w = Idle /\ DOMAIN d = {}
    \/ IsScrape(w) /\ Written(w, d)
    \/ IsErasure(w) /\ Erased(w, d) /\ (overlapped[s] \/ Alone(s, w, d))

\* Locks: no two sessions have written the same row, and nobody deletes a job that a note
\* points at which another erasure has deleted.
Locks ==
    \A s, t \in Sessions : s # t =>
        /\ Touched(s) \cap Touched(t) = {}
        /\ Erasing(s) /\ Erasing(t) => \A n \in work[s].taken : n.job \notin Touched(t)

DataInv ==
    /\ DOMAIN work = Sessions /\ DOMAIN dirty = Sessions /\ DOMAIN overlapped = Sessions
    /\ RowsCount /\ Locks /\ \A n \in notes : IsNote(n)
    /\ \A s \in Sessions : SessionHolds(s, work[s], dirty[s])
    /\ verdict # "alone"

-----------------------------------------------------------------------------
(* What a job is. *)

LEMMA JobIsSomething == ASSUME NEW row, IsJob(row) PROVE row # Nothing
<1>1. DOMAIN row = {"owner", "target", "key", "seen"}
  BY DEF IsJob
<1>2. DOMAIN Nothing = {}
  BY DEF Nothing
<1> QED BY <1>1, <1>2

\* A session is of one kind.
LEMMA KindsApart ==
  ASSUME NEW w
  PROVE  /\ IsScrape(w) => w.op = "scrape" /\ w # Idle
         /\ IsErasure(w) => w.op = "erase" /\ w # Idle
         /\ Idle.op = "none"
BY DEF IsScrape, IsErasure, Idle

LEMMA OfScrape ==
  ASSUME DataInv, NEW s \in Sessions, Scraping(s)
  PROVE  IsScrape(work[s]) /\ Written(work[s], dirty[s])
BY KindsApart DEF DataInv, SessionHolds, Scraping

LEMMA OfErasure ==
  ASSUME DataInv, NEW s \in Sessions, Erasing(s)
  PROVE  /\ IsErasure(work[s]) /\ Erased(work[s], dirty[s])
         /\ overlapped[s] \/ Alone(s, work[s], dirty[s])
BY KindsApart DEF DataInv, SessionHolds, Erasing

-----------------------------------------------------------------------------
(* A step of one session. *)

\* The others keep what they hold, if their rows do.
LEMMA OthersStay ==
  ASSUME DataInv, NEW s \in Sessions, NEW w, Go(s, w),
         \A t \in Others(s) :
             /\ dirty'[t] = dirty[t] /\ (overlapped[t] => overlapped'[t])
             /\ \A i \in Touched(t) \cap Ids :
                                      /\ rows'[i] = rows[i] /\ sightings'[i] = sightings[i]
                                      /\ i \in raced => i \in raced'
             /\ Erasing(t) /\ ~overlapped'[t] /\ Alone(t, work[t], dirty[t]) =>
                    Alone(t, work[t], dirty[t])'
  PROVE  /\ DOMAIN work' = Sessions /\ work'[s] = w
         /\ \A t \in Others(s) : work'[t] = work[t]
         /\ \A t \in Others(s) : SessionHolds(t, work[t], dirty[t])'
<1>1. DOMAIN work' = Sessions /\ work'[s] = w /\ \A t \in Others(s) : work'[t] = work[t]
  BY DEF Go, DataInv, Others
<1>2. ASSUME NEW t \in Others(s) PROVE SessionHolds(t, work[t], dirty[t])'
  <2>1. t \in Sessions /\ t # s
    BY DEF Others
  <2>2. PICK x, d : x = work[t] /\ d = dirty[t]
    OBVIOUS
  <2>3. x = work'[t] /\ d = dirty'[t]
    BY <1>1, <2>2
  <2>4. SessionHolds(t, x, d)
    BY <2>1, <2>2 DEF DataInv
  <2>5. \A i \in DOMAIN d \cap Ids :
                            /\ rows'[i] = rows[i] /\ sightings'[i] = sightings[i]
                            /\ i \in raced => i \in raced'
    BY <2>2 DEF Touched
  <2>6. CASE x = Idle /\ DOMAIN d = {}
    BY <2>3, <2>6 DEF SessionHolds
  <2>7. CASE IsScrape(x) /\ Written(x, d)
    <3>1. Written(x, d)'
      BY <2>5, <2>7 DEF Written
    <3> QED BY <2>3, <2>7, <3>1 DEF SessionHolds
  <2>8. CASE IsErasure(x) /\ Erased(x, d) /\ (overlapped[t] \/ Alone(t, x, d))
    <3>1. Erased(x, d)'
      BY <2>5, <2>8 DEF Erased
    <3>2. Erasing(t)
      BY <2>2, <2>8, KindsApart DEF Erasing
    <3>3. overlapped'[t] \/ Alone(t, work[t], dirty[t])'
      BY <2>2, <2>8, <3>2
    <3> QED BY <2>3, <2>8, <3>1, <3>3 DEF SessionHolds
  <2> QED BY <2>4, <2>6, <2>7, <2>8 DEF SessionHolds
<1> QED BY <1>1, <1>2

\* An erasure that has been alone stays so when nothing is committed and its user rests.
LEMMA AloneStays ==
  ASSUME DataInv, NEW s \in Sessions, NEW w, Go(s, w), NEW t \in Others(s),
         UNCHANGED <<rows, notes>>, dirty'[t] = dirty[t], runs'[work[t].user] = runs[work[t].user],
         w = Idle \/ w.user # work[t].user, Alone(t, work[t], dirty[t])
  PROVE  Alone(t, work[t], dirty[t])'
<1>1. work'[s] = w /\ \A r \in Others(s) : work'[r] = work[r]
  BY DEF Go, DataInv, Others
<1>2. PICK x, d : x = work[t] /\ d = dirty[t]
  OBVIOUS
<1>3. x = work'[t] /\ d = dirty'[t]
  BY <1>1, <1>2
<1>4. ASSUME NEW r \in Others(t) PROVE work'[r] = Idle \/ work'[r].user # x.user
  <2>1. r \in Sessions /\ (work[r] = Idle \/ work[r].user # x.user)
    BY <1>2, <1>4 DEF Alone, Others
  <2>2. CASE r # s
    BY <1>1, <2>1, <2>2 DEF Others
  <2>3. CASE r = s
    BY <1>1, <1>2, <2>3
  <2> QED BY <2>2, <2>3
<1>5. Alone(t, x, d)'
  BY <1>2, <1>4 DEF Alone
<1> QED BY <1>3, <1>5

\* What a session takes, nobody else has.
LEMMA LocksStay ==
  ASSUME DataInv, NEW s \in Sessions, NEW w, Go(s, w),
         \A t \in Others(s) : dirty'[t] = dirty[t] /\ DOMAIN dirty'[s] \cap Touched(t) = {},
         w.op = "erase" => \A t \in Others(s) : Erasing(t) =>
             /\ \A n \in w.taken : n.job \notin Touched(t)
             /\ \A n \in work[t].taken : n.job \notin DOMAIN dirty'[s]
  PROVE  Locks'
<1>1. work'[s] = w /\ \A r \in Others(s) : work'[r] = work[r]
  BY DEF Go, DataInv, Others
<1>2. ASSUME NEW t \in Sessions, NEW r \in Sessions, t # r
      PROVE  /\ DOMAIN dirty'[t] \cap DOMAIN dirty'[r] = {}
             /\ work'[t].op = "erase" /\ work'[r].op = "erase" =>
                    \A n \in work'[t].taken : n.job \notin DOMAIN dirty'[r]
  <2>1. CASE t # s /\ r # s
    BY <1>1, <1>2, <2>1 DEF DataInv, Locks, Others, Touched, Erasing
  <2>2. CASE t = s
    BY <1>1, <1>2, <2>2 DEF Others, Touched, Erasing
  <2>3. CASE r = s
    BY <1>1, <1>2, <2>3 DEF Others, Touched, Erasing
  <2> QED BY <2>1, <2>2, <2>3
<1> QED BY <1>2 DEF Locks, Touched, Erasing

\* A step of a session that commits nothing.
LEMMA QuietKeeps ==
  ASSUME DataInv, NEW s \in Sessions, NEW w, Go(s, w), UNCHANGED <<rows, notes, sightings>>,
         raced \subseteq raced', verdict' # "alone",
         DOMAIN dirty' = Sessions, DOMAIN overlapped' = Sessions,
         \A t \in Others(s) :
             /\ dirty'[t] = dirty[t] /\ DOMAIN dirty'[s] \cap Touched(t) = {}
             /\ overlapped[t] => overlapped'[t]
             /\ Erasing(t) /\ ~overlapped'[t] =>
                    /\ w = Idle \/ w.user # work[t].user
                    /\ runs'[work[t].user] = runs[work[t].user],
         w.op = "erase" => \A t \in Others(s) : Erasing(t) =>
             /\ \A n \in w.taken : n.job \notin Touched(t)
             /\ \A n \in work[t].taken : n.job \notin DOMAIN dirty'[s],
         SessionHolds(s, w, dirty[s])'
  PROVE  DataInv'
<1>1. Locks'
  BY LocksStay
<1>2. \A t \in Others(s) :
             /\ dirty'[t] = dirty[t] /\ (overlapped[t] => overlapped'[t])
             /\ \A i \in Touched(t) \cap Ids :
                                      /\ rows'[i] = rows[i] /\ sightings'[i] = sightings[i]
                                      /\ i \in raced => i \in raced'
             /\ Erasing(t) /\ ~overlapped'[t] /\ Alone(t, work[t], dirty[t]) =>
                    Alone(t, work[t], dirty[t])'
  BY AloneStays
<1>3. /\ DOMAIN work' = Sessions /\ work'[s] = w
      /\ \A t \in Others(s) : work'[t] = work[t]
      /\ \A t \in Others(s) : SessionHolds(t, work[t], dirty[t])'
  BY <1>2, OthersStay
<1>4. ASSUME NEW t \in Sessions PROVE SessionHolds(t, work[t], dirty[t])'
  <2>1. CASE t = s
    BY <1>3, <2>1
  <2>2. CASE t # s
    BY <1>3, <2>2 DEF Others
  <2> QED BY <2>1, <2>2
<1>5. RowsCount'
  BY DEF DataInv, RowsCount
<1> QED BY <1>1, <1>3, <1>4, <1>5 DEF DataInv

\* Who has an erasure that was alone has no other session.
LEMMA UserRests ==
  ASSUME DataInv, NEW s \in Sessions, NEW t \in Others(s), work[s] # Idle, Erasing(t),
         ~overlapped[t]
  PROVE  work[s].user # work[t].user
BY OfErasure DEF Alone, Others

\* A session that goes on.
LEMMA GoesOn ==
  ASSUME DataInv, NEW s \in Sessions, NEW w, work[s] # Idle, w.user = work[s].user, Go(s, w),
         UNCHANGED <<rows, notes, sightings, runs, overlapped, verdict>>, raced \subseteq raced',
         DOMAIN dirty' = Sessions,
         \A t \in Others(s) : dirty'[t] = dirty[t] /\ DOMAIN dirty'[s] \cap Touched(t) = {},
         w.op = "erase" => \A t \in Others(s) : Erasing(t) =>
             /\ \A n \in w.taken : n.job \notin Touched(t)
             /\ \A n \in work[t].taken : n.job \notin DOMAIN dirty'[s],
         SessionHolds(s, w, dirty[s])'
  PROVE  DataInv'
<1>1. \A t \in Others(s) :
             /\ dirty'[t] = dirty[t] /\ DOMAIN dirty'[s] \cap Touched(t) = {}
             /\ overlapped[t] => overlapped'[t]
             /\ Erasing(t) /\ ~overlapped'[t] =>
                    /\ w = Idle \/ w.user # work[t].user
                    /\ runs'[work[t].user] = runs[work[t].user]
  BY UserRests
<1>2. verdict' # "alone" /\ DOMAIN overlapped' = Sessions
  BY DEF DataInv
<1> QED BY <1>1, <1>2, QuietKeeps

\* A session that ends without a commit.
LEMMA EndKeeps ==
  ASSUME DataInv, NEW s \in Sessions, End(s), UNCHANGED <<rows, notes, sightings, runs, raced>>,
         overlapped' = overlapped \/ overlapped' = [overlapped EXCEPT ![s] = FALSE],
         verdict' # "alone"
  PROVE  DataInv'
<1>1. PICK w : w = Idle
  OBVIOUS
<1>2. Go(s, w) /\ dirty' = [dirty EXCEPT ![s] = Untouched]
  BY <1>1 DEF Go, End
<1>3. DOMAIN Untouched = {}
  BY DEF Untouched
<1>4. DOMAIN dirty' = Sessions /\ dirty'[s] = Untouched /\ DOMAIN overlapped' = Sessions
  BY <1>2 DEF DataInv
<1>5. \A t \in Others(s) : dirty'[t] = dirty[t] /\ overlapped'[t] = overlapped[t]
  BY <1>2 DEF DataInv, Others
<1>6. SessionHolds(s, w, dirty[s])'
  BY <1>1, <1>3, <1>4 DEF SessionHolds
<1>7. w.op # "erase"
  BY <1>1 DEF Idle
<1>8. \A t \in Others(s) :
             /\ dirty'[t] = dirty[t] /\ DOMAIN dirty'[s] \cap Touched(t) = {}
             /\ overlapped[t] => overlapped'[t]
             /\ Erasing(t) /\ ~overlapped'[t] =>
                    /\ w = Idle \/ w.user # work[t].user
                    /\ runs'[work[t].user] = runs[work[t].user]
  BY <1>1, <1>3, <1>4, <1>5
<1> QED BY <1>2, <1>4, <1>6, <1>7, <1>8, QuietKeeps

\* A session that begins.
LEMMA IdleHolds ==
  ASSUME DataInv, NEW s \in Sessions, work[s] = Idle
  PROVE  Touched(s) = {}
BY KindsApart DEF DataInv, SessionHolds, Touched

LEMMA BeginScrapeKeeps ==
  ASSUME DataInv, NEW s \in Sessions, NEW u, NEW aimed, NEW batch \in Batches,
         BeginScrape(s, u, aimed, batch)
  PROVE  DataInv'
<1>1. PICK h : h = [i \in Ids |-> 0]
  OBVIOUS
<1>2. PICK w : w = [op |-> "scrape", user |-> u, aimed |-> aimed, todo |-> batch,
                   pending |-> Nothing, hits |-> h]
  OBVIOUS
<1>3. /\ work[s] = Idle /\ Go(s, w) /\ Note(s, u)
      /\ UNCHANGED <<rows, notes, dirty, sightings, raced, verdict>>
      /\ runs' = IF aimed THEN [runs EXCEPT ![u] = @ + 1] ELSE runs
  BY <1>1, <1>2 DEF BeginScrape
<1>4. Touched(s) = {}
  BY <1>3, IdleHolds
<1>5. IsScrape(w)
  <2>1. h \in [Ids -> Nat] /\ batch \in Seq(Items)
    BY <1>1, Found
  <2> QED BY <1>2, <2>1 DEF IsScrape, IsPending
<1>6. Written(w, dirty[s])'
  BY <1>1, <1>2, <1>3, <1>4 DEF Written, Touched
<1>7. SessionHolds(s, w, dirty[s])'
  BY <1>5, <1>6 DEF SessionHolds
<1>8. DOMAIN overlapped' = Sessions /\ DOMAIN dirty' = Sessions /\ verdict' # "alone"
  BY <1>3 DEF DataInv, Note
<1>9. ASSUME NEW t \in Others(s)
      PROVE  /\ dirty'[t] = dirty[t] /\ DOMAIN dirty'[s] \cap Touched(t) = {}
             /\ overlapped[t] => overlapped'[t]
             /\ Erasing(t) /\ ~overlapped'[t] =>
                    /\ w = Idle \/ w.user # work[t].user
                    /\ runs'[work[t].user] = runs[work[t].user]
  <2>1. overlapped'[t] = (overlapped[t] \/ (Erasing(t) /\ work[t].user = u))
    BY <1>3 DEF Note, Disturbed, Others
  <2>2. w.user = u
    BY <1>2
  <2>3. work[t].user # u => runs'[work[t].user] = runs[work[t].user]
    BY <1>3
  <2> QED BY <1>3, <1>4, <2>1, <2>2, <2>3 DEF Touched
<1>10. w.op # "erase"
  BY <1>2
<1> QED BY <1>3, <1>7, <1>8, <1>9, <1>10, QuietKeeps

LEMMA BeginErasureKeeps ==
  ASSUME DataInv, NEW s \in Sessions, NEW u, NEW keep, BeginErasure(s, u, keep)
  PROVE  DataInv'
<1>1. PICK w : w = [op |-> "erase", user |-> u, keep |-> keep, step |-> "notes", taken |-> {},
                   runs |-> 0]
  OBVIOUS
<1>2. /\ work[s] = Idle /\ Go(s, w)
      /\ UNCHANGED <<rows, notes, dirty, sightings, raced, verdict, runs>>
      /\ overlapped' = [t \in Sessions |->
                          IF t # s THEN Disturbed(s, u, t)
                          ELSE \E r \in Others(s) : work[r] # Idle /\ work[r].user = u]
  BY <1>1 DEF BeginErasure
<1>3. Touched(s) = {}
  BY <1>2, IdleHolds
<1>4. IsErasure(w) /\ w.user = u /\ w.step = "notes" /\ w.taken = {}
  BY <1>1 DEF IsErasure
<1>5. Erased(w, dirty[s])'
  BY <1>2, <1>3, <1>4 DEF Erased, Touched
<1>6. overlapped'[s] \/ Alone(s, w, dirty[s])'
  <2>1. SUFFICES ASSUME ~overlapped'[s] PROVE Alone(s, w, dirty[s])'
    OBVIOUS
  <2>2. \A r \in Others(s) : work[r] = Idle \/ work[r].user # u
    BY <1>2, <2>1
  <2>3. \A r \in Others(s) : work'[r] = work[r]
    BY <1>2 DEF Go, DataInv, Others
  <2> QED BY <1>4, <2>2, <2>3 DEF Alone
<1>7. SessionHolds(s, w, dirty[s])'
  BY <1>4, <1>5, <1>6 DEF SessionHolds
<1>8. DOMAIN overlapped' = Sessions /\ DOMAIN dirty' = Sessions /\ verdict' # "alone"
  BY <1>2 DEF DataInv
<1>9. ASSUME NEW t \in Others(s)
      PROVE  /\ dirty'[t] = dirty[t] /\ DOMAIN dirty'[s] \cap Touched(t) = {}
             /\ overlapped[t] => overlapped'[t]
             /\ Erasing(t) /\ ~overlapped'[t] =>
                    /\ w = Idle \/ w.user # work[t].user
                    /\ runs'[work[t].user] = runs[work[t].user]
  <2>1. overlapped'[t] = (overlapped[t] \/ (Erasing(t) /\ work[t].user = u))
    BY <1>2 DEF Disturbed, Others
  <2> QED BY <1>2, <1>3, <1>4, <2>1 DEF Touched
<1>10. \A t \in Others(s) : Erasing(t) =>
             /\ \A n \in w.taken : n.job \notin Touched(t)
             /\ \A n \in work[t].taken : n.job \notin DOMAIN dirty'[s]
  BY <1>2, <1>3, <1>4 DEF Touched
<1> QED BY <1>2, <1>7, <1>8, <1>9, <1>10, QuietKeeps

-----------------------------------------------------------------------------
(* The steps of a scrape. *)

\* What a session sees of a row.
LEMMA ViewFacts ==
  ASSUME DataInv, NEW s \in Sessions, Scraping(s), NEW i \in Ids, NEW row, row = View(s)[i]
  PROVE  IF row = Nothing THEN i \notin Touched(s) /\ rows[i] = Nothing
         ELSE /\ IsJob(row)
              /\ row.seen # sightings[i] + work[s].hits[i] => i \in raced
              /\ row.owner = IF rows[i] = Nothing THEN work[s].user ELSE rows[i].owner
<1>1. row = IF i \in Touched(s) THEN dirty[s][i] ELSE rows[i]
  BY DEF View
<1>2. IsScrape(work[s]) /\ Written(work[s], dirty[s])
  BY OfScrape
<1>3. CASE i \in Touched(s)
  BY <1>1, <1>2, <1>3 DEF Written, Touched
<1>4. CASE i \notin Touched(s)
  <2>1. work[s].hits[i] = 0 /\ row = rows[i]
    BY <1>1, <1>2, <1>4 DEF Written, Touched
  <2>2. sightings[i] + 0 = sightings[i]
    BY DEF DataInv, RowsCount
  <2> QED BY <1>4, <2>1, <2>2 DEF DataInv, RowsCount
<1> QED BY <1>3, <1>4

LEMMA LookupKeeps ==
  ASSUME DataInv, NEW s \in Sessions, Lookup(s)
  PROVE  DataInv'
<1>1. PICK k, d : k = work[s] /\ d = dirty[s]
  OBVIOUS
<1>2. PICK item : item = Head(k.todo)
  OBVIOUS
<1>3. /\ Scraping(s) /\ k.pending = Nothing /\ k.todo # <<>>
      /\ UNCHANGED <<runs, rows, notes, dirty, sightings, raced, overlapped, verdict>>
  BY <1>1 DEF Lookup
<1>4. IsScrape(k) /\ Written(k, d) /\ k # Idle
  BY <1>1, <1>3, OfScrape, KindsApart
<1>5. item \in Items /\ item.id \in Ids
  <2>1. item \in Items
    BY <1>2, <1>3, <1>4 DEF IsScrape
  <2> QED BY <2>1, Found
<1>6. PICK at \in Ids : Go(s, [k EXCEPT !.todo = Tail(k.todo),
                  !.pending = [item |-> item, at |-> at, read |-> View(s)[at]]])
  BY <1>1, <1>2, <1>5 DEF Lookup
<1>7. PICK p : p = [item |-> item, at |-> at, read |-> View(s)[at]]
  OBVIOUS
<1>8. PICK w : w = [k EXCEPT !.todo = Tail(k.todo), !.pending = p]
  OBVIOUS
<1>9. w = [op |-> "scrape", user |-> k.user, aimed |-> k.aimed, todo |-> Tail(k.todo),
           pending |-> p, hits |-> k.hits]
  BY <1>4, <1>8, Zenon DEF IsScrape
<1>10. IsScrape(w)
  <2>1. IsPending(p)
    <3>1. PICK row : row = View(s)[at]
      OBVIOUS
    <3>2. row = Nothing \/ IsJob(row)
      BY <1>3, <3>1, ViewFacts
    <3> QED BY <1>7, <3>1, <3>2 DEF IsPending
  <2>2. Tail(k.todo) \in Seq(Items)
    BY <1>3, <1>4 DEF IsScrape
  <2> QED BY <1>4, <1>9, <2>1, <2>2 DEF IsScrape
<1>11. Written(w, d)'
  BY <1>3, <1>4, <1>9 DEF Written
<1>12. SessionHolds(s, w, dirty[s])'
  BY <1>1, <1>3, <1>10, <1>11 DEF SessionHolds
<1>13. DOMAIN dirty' = Sessions
  BY <1>3 DEF DataInv
<1>14. \A t \in Others(s) : dirty'[t] = dirty[t] /\ DOMAIN dirty'[s] \cap Touched(t) = {}
  BY <1>3 DEF DataInv, Locks, Others, Touched
<1>15. Go(s, w) /\ w.user = work[s].user /\ w.op # "erase" /\ work[s] # Idle
  <2>1. Go(s, w)
    BY <1>6, <1>7, <1>8
  <2> QED BY <1>1, <1>4, <1>9, <2>1
<1> QED BY <1>3, <1>12, <1>13, <1>14, <1>15, GoesOn

LEMMA WriteKeeps ==
  ASSUME DataInv, NEW s \in Sessions, Write(s)
  PROVE  DataInv'
<1>1. PICK k, d, i : k = work[s] /\ d = dirty[s] /\ i = At(s)
  OBVIOUS
<1>2. PICK row : row = IF Read(s) = Nothing THEN NewRow(s) ELSE Row(s)
  OBVIOUS
<1>3. PICK e : e = [j \in DOMAIN d \cup {i} |-> IF j = i THEN row ELSE d[j]]
  OBVIOUS
<1>4. PICK h : h = [k.hits EXCEPT ![i] = k.hits[i] + 1]
  OBVIOUS
<1>5. PICK w : w = [k EXCEPT !.pending = Nothing, !.hits = h]
  OBVIOUS
<1>6. /\ Scraping(s) /\ k.pending # Nothing /\ Blockers(s) = {} /\ Accepted(s)
      /\ dirty' = [dirty EXCEPT ![s] = e] /\ Go(s, w)
      /\ raced' = IF Read(s) # Nothing /\ Read(s).seen # View(s)[i].seen
                  THEN raced \cup {i} ELSE raced
      /\ UNCHANGED <<runs, rows, notes, sightings, overlapped, verdict>>
  BY <1>1, <1>2, <1>3, <1>4, <1>5 DEF Write, Touched
<1>7. IsScrape(k) /\ Written(k, d) /\ k # Idle
  BY <1>1, <1>6, OfScrape, KindsApart
<1>8. i \in Ids /\ k.hits[i] \in Nat /\ k.hits \in [Ids -> Nat] /\ sightings[i] \in Nat
  BY <1>1, <1>6, <1>7 DEF IsScrape, IsPending, At, DataInv, RowsCount
<1>9. w = [op |-> "scrape", user |-> k.user, aimed |-> k.aimed, todo |-> k.todo,
           pending |-> Nothing, hits |-> h]
  BY <1>5, <1>7, Zenon DEF IsScrape
<1>10. /\ h \in [Ids -> Nat] /\ h[i] = k.hits[i] + 1
       /\ \A j \in Ids : j # i => h[j] = k.hits[j]
  BY <1>4, <1>8
<1>11. IsScrape(w)
  BY <1>7, <1>9, <1>10 DEF IsScrape, IsPending
<1>12. PICK now : now = View(s)[i]
  OBVIOUS
<1>13. IF now = Nothing THEN i \notin DOMAIN d /\ rows[i] = Nothing
       ELSE /\ IsJob(now)
            /\ now.seen # sightings[i] + k.hits[i] => i \in raced
            /\ now.owner = IF rows[i] = Nothing THEN k.user ELSE rows[i].owner
  BY <1>1, <1>6, <1>8, <1>12, ViewFacts DEF Touched
<1>14. /\ row # Nothing /\ IsJob(row)
       /\ row.seen # sightings[i] + h[i] => i \in raced'
       /\ row.owner = IF rows[i] = Nothing THEN k.user ELSE rows[i].owner
  <2>1. CASE Read(s) = Nothing
    <3>1. now = Nothing
      BY <1>1, <1>6, <1>12, <2>1 DEF Accepted
    <3>2. k.hits[i] = 0 /\ sightings[i] = 0
      BY <1>7, <1>8, <1>13, <3>1 DEF Written, DataInv, RowsCount
    <3>3. row = NewRow(s)
      BY <1>2, <2>1
    <3>4. row = [owner |-> k.user, target |-> Aim(s), key |-> Key(s), seen |-> 1]
      BY <1>1, <3>3 DEF NewRow
    <3>5. IsJob(row) /\ row.seen = 1 /\ row.owner = k.user
      BY <3>4 DEF IsJob
    <3> QED BY <1>10, <1>13, <3>1, <3>2, <3>5, JobIsSomething
  <2>2. CASE Read(s) # Nothing
    <3>1. now # Nothing
      BY <1>1, <1>6, <1>12, <2>2 DEF Accepted
    <3>2. PICK target, key, seen :
            /\ target = Setting(now.target, Read(s).target, Aim(s))
            /\ key = Setting(now.key, Read(s).key, Key(s)) /\ seen = Read(s).seen + 1
      OBVIOUS
    <3>3. row = [now EXCEPT !.target = target, !.key = key, !.seen = seen]
      BY <1>1, <1>2, <1>12, <2>2, <3>2 DEF Row
    <3>4. row = [owner |-> now.owner, target |-> target, key |-> key, seen |-> seen]
      BY <1>13, <3>1, <3>3, Zenon DEF IsJob
    <3>5. IsJob(Read(s))
      BY <1>1, <1>6, <1>7, <2>2 DEF IsScrape, IsPending, Read
    <3>6. IsJob(now) /\ now.seen \in Nat /\ seen \in Nat
      BY <1>13, <3>1, <3>2, <3>5 DEF IsJob
    <3>7. IsJob(row) /\ row.seen = seen /\ row.owner = now.owner
      BY <3>4, <3>6 DEF IsJob
    <3>8. ASSUME i \notin raced' PROVE seen = sightings[i] + h[i]
      <4>1. Read(s).seen = now.seen /\ i \notin raced
        BY <1>6, <1>12, <2>2, <3>8
      <4>2. now.seen = sightings[i] + k.hits[i]
        BY <1>13, <3>1, <4>1
      <4> QED BY <1>8, <1>10, <3>2, <4>1, <4>2
    <3> QED BY <1>13, <3>1, <3>7, <3>8, JobIsSomething
  <2> QED BY <2>1, <2>2
<1>15. DOMAIN e = DOMAIN d \cup {i} /\ e[i] = row /\ \A j \in DOMAIN d \ {i} : e[j] = d[j]
  BY <1>3
<1>16. dirty'[s] = e /\ DOMAIN dirty' = Sessions /\ \A t \in Others(s) : dirty'[t] = dirty[t]
  BY <1>6 DEF DataInv, Others
<1>17. Written(w, e)'
  <2>1. raced \subseteq raced'
    BY <1>6
  <2>2. ASSUME NEW j \in Ids
        PROVE  IF j \notin DOMAIN e THEN w.hits[j] = 0
               ELSE /\ e[j] # Nothing /\ IsJob(e[j])
                    /\ e[j].seen # sightings[j] + w.hits[j] => j \in raced'
                    /\ e[j].owner = IF rows[j] = Nothing THEN w.user ELSE rows[j].owner
    <3>1. CASE j = i
      BY <1>9, <1>14, <1>15, <3>1
    <3>2. CASE j # i
      BY <1>7, <1>9, <1>10, <1>15, <2>1, <3>2 DEF Written
    <3> QED BY <3>1, <3>2
  <2> QED BY <1>6, <2>2 DEF Written
<1>18. SessionHolds(s, w, dirty[s])'
  BY <1>11, <1>16, <1>17 DEF SessionHolds
<1>19. ASSUME NEW t \in Others(s) PROVE DOMAIN dirty'[s] \cap Touched(t) = {}
  <2>1. i \notin Touched(t)
    BY <1>1, <1>6 DEF Blockers, BlocksWrite
  <2>2. DOMAIN d \cap Touched(t) = {}
    BY <1>1 DEF DataInv, Locks, Others, Touched
  <2> QED BY <1>15, <1>16, <2>1, <2>2
<1>20. w.user = work[s].user /\ w.op # "erase" /\ work[s] # Idle
  BY <1>1, <1>7, <1>9
<1>21. raced \subseteq raced'
  BY <1>6
<1> QED BY <1>6, <1>16, <1>18, <1>19, <1>20, <1>21, GoesOn

-----------------------------------------------------------------------------
(* The steps of an erasure. *)

\* What a session is waiting for, when nothing.
LEMMA NothingWaits ==
  ASSUME NEW s \in Sessions, Erasing(s), Blockers(s) = {}, NEW t \in Others(s)
  PROVE  /\ work[s].step = "notes" => \A n \in Taken(t) : n.by # work[s].user
         /\ work[s].step = "jobs" =>
                /\ Touched(t) \cap OwnJobs(work[s].user) = {}
                /\ \A n \in Taken(t) : n.job \notin OwnJobs(work[s].user)
<1>1. ~BlocksErasure(s, t)
  BY DEF Blockers
<1>2. CASE work[s].step = "notes"
  BY <1>1, <1>2 DEF BlocksErasure
<1>3. CASE work[s].step = "jobs"
  BY <1>1, <1>3 DEF BlocksErasure
<1> QED BY <1>2, <1>3

LEMMA EraseNotesKeeps ==
  ASSUME DataInv, NEW s \in Sessions, EraseNotes(s)
  PROVE  DataInv'
<1>1. PICK k, d : k = work[s] /\ d = dirty[s]
  OBVIOUS
<1>2. PICK mine : mine = {n \in notes : n.by = k.user}
  OBVIOUS
<1>3. PICK w : w = [k EXCEPT !.step = "jobs", !.taken = mine]
  OBVIOUS
<1>4. /\ Erasing(s) /\ k.step = "notes" /\ Blockers(s) = {} /\ Go(s, w)
      /\ UNCHANGED <<runs, rows, notes, dirty, sightings, raced, overlapped, verdict>>
  BY <1>1, <1>2, <1>3 DEF EraseNotes
<1>5. IsErasure(k) /\ Erased(k, d) /\ (overlapped[s] \/ Alone(s, k, d)) /\ k # Idle
  BY <1>1, <1>4, OfErasure, KindsApart
<1>6. w = [op |-> "erase", user |-> k.user, keep |-> k.keep, step |-> "jobs", taken |-> mine,
           runs |-> k.runs]
  BY <1>3, <1>5, Zenon DEF IsErasure
<1>7. IsErasure(w) /\ w.user = k.user /\ w.step = "jobs" /\ w.taken = mine /\ w.op = "erase"
  BY <1>6 DEF IsErasure
<1>8. Erased(w, d)'
  BY <1>2, <1>4, <1>5, <1>7 DEF Erased
<1>9. \A r \in Others(s) : work'[r] = work[r]
  BY <1>4 DEF Go, DataInv, Others
<1>10. overlapped'[s] \/ Alone(s, w, d)'
  BY <1>2, <1>4, <1>5, <1>7, <1>9 DEF Alone
<1>11. SessionHolds(s, w, dirty[s])'
  BY <1>1, <1>4, <1>7, <1>8, <1>10 DEF SessionHolds
<1>12. DOMAIN dirty' = Sessions /\ DOMAIN d = {}
  BY <1>4, <1>5 DEF DataInv, Erased
<1>13. \A t \in Others(s) : dirty'[t] = dirty[t] /\ DOMAIN dirty'[s] \cap Touched(t) = {}
  BY <1>1, <1>4, <1>12
<1>14. ASSUME NEW t \in Others(s), Erasing(t)
       PROVE  /\ \A n \in w.taken : n.job \notin Touched(t)
              /\ \A n \in work[t].taken : n.job \notin DOMAIN dirty'[s]
  <2>1. \A n \in Taken(t) : n.by # k.user
    BY <1>1, <1>4, NothingWaits
  <2> QED BY <1>1, <1>2, <1>4, <1>7, <1>12, <1>14, <2>1 DEF Taken
<1> QED BY <1>1, <1>4, <1>5, <1>7, <1>11, <1>12, <1>13, <1>14, GoesOn

LEMMA EraseJobsKeeps ==
  ASSUME DataInv, NEW s \in Sessions, EraseJobs(s)
  PROVE  DataInv'
<1>1. PICK k : k = work[s]
  OBVIOUS
<1>2. PICK e : e = [i \in OwnJobs(k.user) |-> Nothing]
  OBVIOUS
<1>3. PICK w : w = [k EXCEPT !.step = "targets"]
  OBVIOUS
<1>4. /\ Erasing(s) /\ k.step = "jobs" /\ Blockers(s) = {} /\ Go(s, w)
      /\ dirty' = [dirty EXCEPT ![s] = e]
      /\ UNCHANGED <<runs, rows, notes, sightings, raced, overlapped, verdict>>
  BY <1>1, <1>2, <1>3 DEF EraseJobs
<1>5. /\ IsErasure(k) /\ Erased(k, dirty[s]) /\ (overlapped[s] \/ Alone(s, k, dirty[s]))
      /\ k # Idle
  BY <1>1, <1>4, OfErasure, KindsApart
<1>6. w = [op |-> "erase", user |-> k.user, keep |-> k.keep, step |-> "targets",
           taken |-> k.taken, runs |-> k.runs]
  BY <1>3, <1>5, Zenon DEF IsErasure
<1>7. /\ IsErasure(w) /\ w.user = k.user /\ w.step = "targets" /\ w.taken = k.taken
      /\ w.op = "erase"
  BY <1>6 DEF IsErasure
<1>8. /\ DOMAIN e = OwnJobs(k.user) /\ (\A i \in DOMAIN e : e[i] = Nothing)
      /\ dirty'[s] = e /\ DOMAIN dirty' = Sessions
      /\ \A t \in Others(s) : dirty'[t] = dirty[t]
  BY <1>2, <1>4 DEF DataInv, Others
<1>9. Erased(w, e)'
  BY <1>4, <1>5, <1>7, <1>8 DEF Erased, OwnJobs
<1>10. \A r \in Others(s) : work'[r] = work[r]
  BY <1>4 DEF Go, DataInv, Others
<1>11. overlapped'[s] \/ Alone(s, w, e)'
  BY <1>4, <1>5, <1>7, <1>8, <1>10 DEF Alone, OwnJobs
<1>12. SessionHolds(s, w, dirty[s])'
  BY <1>7, <1>8, <1>9, <1>11 DEF SessionHolds
<1>13. ASSUME NEW t \in Others(s)
       PROVE  /\ dirty'[t] = dirty[t] /\ DOMAIN dirty'[s] \cap Touched(t) = {}
              /\ Erasing(t) => /\ \A n \in w.taken : n.job \notin Touched(t)
                               /\ \A n \in work[t].taken : n.job \notin DOMAIN dirty'[s]
  <2>1. /\ Touched(t) \cap OwnJobs(k.user) = {}
        /\ \A n \in Taken(t) : n.job \notin OwnJobs(k.user)
    BY <1>1, <1>4, NothingWaits
  <2>2. Erasing(t) => \A n \in work[s].taken : n.job \notin Touched(t)
    BY <1>4 DEF DataInv, Locks, Others
  <2> QED BY <1>1, <1>7, <1>8, <2>1, <2>2 DEF Taken
<1> QED BY <1>1, <1>4, <1>5, <1>7, <1>8, <1>12, <1>13, GoesOn

LEMMA EraseTargetsKeeps ==
  ASSUME DataInv, NEW s \in Sessions, EraseTargets(s)
  PROVE  DataInv'
<1>1. PICK k, d : k = work[s] /\ d = dirty[s]
  OBVIOUS
<1>2. PICK n : n = runs[k.user]
  OBVIOUS
<1>3. PICK w : w = [k EXCEPT !.step = "user", !.runs = n]
  OBVIOUS
<1>4. /\ Erasing(s) /\ k.step = "targets" /\ Go(s, w)
      /\ UNCHANGED <<runs, rows, notes, dirty, sightings, raced, overlapped, verdict>>
  BY <1>1, <1>2, <1>3 DEF EraseTargets
<1>5. IsErasure(k) /\ Erased(k, d) /\ (overlapped[s] \/ Alone(s, k, d)) /\ k # Idle
  BY <1>1, <1>4, OfErasure, KindsApart
<1>6. w = [op |-> "erase", user |-> k.user, keep |-> k.keep, step |-> "user",
           taken |-> k.taken, runs |-> n]
  BY <1>3, <1>5, Zenon DEF IsErasure
<1>7. /\ IsErasure(w) /\ w.user = k.user /\ w.step = "user" /\ w.taken = k.taken
      /\ w.op = "erase" /\ w.runs = n
  BY <1>6 DEF IsErasure
<1>8. Erased(w, d)'
  BY <1>4, <1>5, <1>7 DEF Erased
<1>9. \A r \in Others(s) : work'[r] = work[r]
  BY <1>4 DEF Go, DataInv, Others
<1>10. overlapped'[s] \/ Alone(s, w, d)'
  BY <1>2, <1>4, <1>5, <1>7, <1>9 DEF Alone
<1>11. SessionHolds(s, w, dirty[s])'
  BY <1>1, <1>4, <1>7, <1>8, <1>10 DEF SessionHolds
<1>12. ASSUME NEW t \in Others(s)
       PROVE  /\ dirty'[t] = dirty[t] /\ DOMAIN dirty'[s] \cap Touched(t) = {}
              /\ Erasing(t) => /\ \A m \in w.taken : m.job \notin Touched(t)
                               /\ \A m \in work[t].taken : m.job \notin DOMAIN dirty'[s]
  BY <1>1, <1>4, <1>7 DEF DataInv, Locks, Others, Touched
<1>13. DOMAIN dirty' = Sessions
  BY <1>4 DEF DataInv
<1> QED BY <1>1, <1>4, <1>5, <1>7, <1>11, <1>12, <1>13, GoesOn

\* An erasure is not refused without a cause.
LEMMA RefusedForCause ==
  ASSUME DataInv, NEW s \in Sessions, EraseRefused(s)
  PROVE  \E cause \in {"shared", "overlapped"} :
             ErasureFails(s, cause) /\ verdict' # "alone"
<1>1. Erasing(s)
  BY DEF EraseRefused
<1>2. /\ IsErasure(work[s]) /\ Erased(work[s], dirty[s])
      /\ overlapped[s] \/ Alone(s, work[s], dirty[s])
  BY <1>1, OfErasure
<1>3. CASE overlapped[s]
  BY <1>3 DEF EraseRefused, ErasureFails
<1>4. CASE ~overlapped[s]
  <2>1. Alone(s, work[s], dirty[s])
    BY <1>2, <1>4
  <2>2. ASSUME NEW i \in Ids, View(s)[i] # Nothing, work[s].step \in {"targets", "user"}
        PROVE  View(s)[i] = rows[i] /\ rows[i].owner # work[s].user
    <3>1. View(s)[i] = IF i \in Touched(s) THEN dirty[s][i] ELSE rows[i]
      BY DEF View
    <3>2. i \notin Touched(s)
      BY <1>2, <2>2, <3>1 DEF Erased, Touched
    <3> QED BY <2>1, <2>2, <3>1, <3>2 DEF Alone, Touched
  <2>3. CASE /\ work[s].step = "targets" /\ Shared(s) # {}
             /\ ErasureFails(s, IF \E i \in Shared(s) : rows[i].owner # work[s].user
                                THEN "shared" ELSE "alone")
    <3>1. \E i \in Shared(s) : rows[i].owner # work[s].user
      BY <2>2, <2>3 DEF Shared
    <3> QED BY <1>4, <2>3, <3>1 DEF ErasureFails
  <2>4. CASE work[s].step = "user" /\ Left(s)
    BY <2>1, <2>2, <2>4 DEF Left, Alone
  <2> QED BY <2>3, <2>4 DEF EraseRefused
<1> QED BY <1>3, <1>4

LEMMA FailuresKeep ==
  ASSUME DataInv, NEW s \in Sessions, ScrapeFails(s) \/ EraseRefused(s) \/ Victim(s)
  PROVE  DataInv'
<1>1. CASE ScrapeFails(s)
  BY <1>1, EndKeeps DEF ScrapeFails, DataInv
<1>2. CASE EraseRefused(s)
  <2>1. PICK cause : ErasureFails(s, cause) /\ verdict' # "alone"
    BY <1>2, RefusedForCause
  <2> QED BY <2>1, EndKeeps DEF ErasureFails
<1>3. CASE Victim(s)
  <2>1. CASE End(s) /\ UNCHANGED <<users, targets, runs, rows, notes, sightings, raced,
                                   overlapped, verdict, spent>>
    BY <2>1, EndKeeps DEF DataInv
  <2>2. CASE ErasureFails(s, "crossed")
    BY <2>2, EndKeeps DEF ErasureFails
  <2> QED BY <1>3, <2>1, <2>2 DEF Victim
<1> QED BY <1>1, <1>2, <1>3

-----------------------------------------------------------------------------
(* Commits. *)

LEMMA EndIs ==
  ASSUME DataInv, NEW s \in Sessions, End(s)
  PROVE  /\ Go(s, Idle) /\ DOMAIN work' = Sessions /\ work'[s] = Idle
         /\ \A t \in Others(s) : work'[t] = work[t] /\ dirty'[t] = dirty[t]
         /\ DOMAIN dirty' = Sessions /\ dirty'[s] = Untouched /\ DOMAIN Untouched = {}
         /\ SessionHolds(s, work[s], dirty[s])'
<1>1. DOMAIN Untouched = {}
  BY DEF Untouched
<1>2. /\ DOMAIN work' = Sessions /\ work'[s] = Idle /\ DOMAIN dirty' = Sessions
      /\ dirty'[s] = Untouched
      /\ \A t \in Others(s) : work'[t] = work[t] /\ dirty'[t] = dirty[t]
  BY DEF End, DataInv, Others
<1>3. Go(s, Idle)
  BY DEF End, Go
<1> QED BY <1>1, <1>2, <1>3 DEF SessionHolds

\* A commit keeps the invariant, if rows, notes and the erasures of others stay as they must.
LEMMA CommitKeeps ==
  ASSUME DataInv, NEW s \in Sessions, End(s), Committed(s), RowsCount',
         \A n \in notes' : IsNote(n), DOMAIN overlapped' = Sessions, verdict' # "alone",
         \A i \in Ids \ Touched(s) : sightings'[i] = sightings[i] /\ (i \in raced => i \in raced'),
         \A t \in Others(s) :
             /\ overlapped[t] => overlapped'[t]
             /\ Erasing(t) /\ ~overlapped'[t] /\ Alone(t, work[t], dirty[t]) =>
                    Alone(t, work[t], dirty[t])'
  PROVE  DataInv'
<1>1. PICK w : w = Idle
  OBVIOUS
<1>2. /\ Go(s, w) /\ DOMAIN work' = Sessions /\ work'[s] = w
      /\ \A t \in Others(s) : work'[t] = work[t] /\ dirty'[t] = dirty[t]
      /\ DOMAIN dirty' = Sessions /\ DOMAIN dirty'[s] = {}
      /\ SessionHolds(s, work[s], dirty[s])'
  BY <1>1, EndIs
<1>3. w.op # "erase"
  BY <1>1 DEF Idle
<1>4. Locks'
  BY <1>2, <1>3, LocksStay
<1>5. ASSUME NEW t \in Others(s), NEW i \in Touched(t) \cap Ids
      PROVE  /\ rows'[i] = rows[i] /\ sightings'[i] = sightings[i]
             /\ i \in raced => i \in raced'
  <2>1. i \notin Touched(s)
    BY <1>5 DEF DataInv, Locks, Others
  <2> QED BY <2>1 DEF Committed, View
<1>6. \A t \in Others(s) :
             /\ dirty'[t] = dirty[t] /\ (overlapped[t] => overlapped'[t])
             /\ \A i \in Touched(t) \cap Ids :
                                      /\ rows'[i] = rows[i] /\ sightings'[i] = sightings[i]
                                      /\ i \in raced => i \in raced'
             /\ Erasing(t) /\ ~overlapped'[t] /\ Alone(t, work[t], dirty[t]) =>
                    Alone(t, work[t], dirty[t])'
  BY <1>2, <1>5
<1>7. \A t \in Others(s) : SessionHolds(t, work[t], dirty[t])'
  BY <1>2, <1>6, OthersStay
<1>8. ASSUME NEW t \in Sessions PROVE SessionHolds(t, work[t], dirty[t])'
  <2>1. CASE t = s
    BY <1>2, <2>1
  <2>2. CASE t # s
    BY <1>7, <2>2 DEF Others
  <2> QED BY <2>1, <2>2
<1> QED BY <1>2, <1>4, <1>8 DEF DataInv

LEMMA FinishKeeps ==
  ASSUME DataInv, NEW s \in Sessions, Finish(s)
  PROVE  DataInv'
<1>1. PICK k, d : k = work[s] /\ d = dirty[s]
  OBVIOUS
<1>2. /\ Scraping(s) /\ Committed(s) /\ End(s)
      /\ sightings' = [i \in Ids |-> sightings[i] + k.hits[i]]
      /\ runs' = IF k.aimed THEN runs ELSE [runs EXCEPT ![k.user] = @ + 1]
      /\ Note(s, k.user) /\ UNCHANGED <<notes, raced, verdict>>
  BY <1>1 DEF Finish
<1>3. IsScrape(k) /\ Written(k, d) /\ k # Idle
  BY <1>1, <1>2, OfScrape, KindsApart
<1>4. \A i \in Ids : /\ sightings[i] \in Nat /\ k.hits[i] \in Nat
                     /\ sightings[i] + 0 = sightings[i]
                     /\ sightings[i] + k.hits[i] \in Nat
  BY <1>3 DEF DataInv, RowsCount, IsScrape
<1>5. \A i \in Ids : rows'[i] = IF i \in DOMAIN d THEN d[i] ELSE rows[i]
  BY <1>1, <1>2 DEF Committed, View, Touched
<1>6. \A i \in Ids \ Touched(s) : sightings'[i] = sightings[i] /\ (i \in raced => i \in raced')
  BY <1>1, <1>2, <1>3, <1>4 DEF Written, Touched
<1>7. RowsCount'
  <2>1. DOMAIN rows' = Ids /\ sightings' \in [Ids -> Nat]
    BY <1>2, <1>4 DEF Committed, View
  <2>2. ASSUME NEW i \in Ids
        PROVE  IF rows'[i] = Nothing THEN sightings'[i] = 0
               ELSE IsJob(rows'[i]) /\ (rows'[i].seen # sightings'[i] => i \in raced')
    <3>1. CASE i \in DOMAIN d
      BY <1>2, <1>3, <1>5, <3>1 DEF Written
    <3>2. CASE i \notin DOMAIN d
      BY <1>1, <1>2, <1>5, <1>6, <3>2 DEF DataInv, RowsCount, Touched
    <3> QED BY <3>1, <3>2
  <2> QED BY <2>1, <2>2 DEF RowsCount
<1>8. ASSUME NEW t \in Others(s)
      PROVE  /\ overlapped[t] => overlapped'[t]
             /\ Erasing(t) /\ ~overlapped'[t] /\ Alone(t, work[t], dirty[t]) =>
                    Alone(t, work[t], dirty[t])'
  <2>1. overlapped'[t] = (overlapped[t] \/ (Erasing(t) /\ work[t].user = k.user))
    BY <1>2 DEF Note, Disturbed, Others
  <2>2. ASSUME Erasing(t), ~overlapped'[t], Alone(t, work[t], dirty[t])
        PROVE  Alone(t, work[t], dirty[t])'
    <3>1. PICK x, e : x = work[t] /\ e = dirty[t]
      OBVIOUS
    <3>2. x.user # k.user
      BY <2>1, <2>2, <3>1
    <3>3. /\ x = work'[t] /\ e = dirty'[t] /\ work'[s] = Idle
          /\ \A r \in Others(s) : work'[r] = work[r]
      BY <1>2, <3>1, EndIs
    <3>4. \A r \in Others(t) : work'[r] = Idle \/ work'[r].user # x.user
      BY <2>2, <3>1, <3>3 DEF Alone, Others
    <3>5. ASSUME NEW i \in Ids, x.step \in {"targets", "user"}, rows'[i] # Nothing,
                 rows'[i].owner = x.user
          PROVE  i \in DOMAIN e
      <4>1. CASE i \in DOMAIN d
        <5>1. rows[i] # Nothing /\ rows[i].owner = x.user
          BY <1>3, <1>5, <3>2, <3>5, <4>1 DEF Written
        <5> QED BY <2>2, <3>1, <3>5, <5>1 DEF Alone
      <4>2. CASE i \notin DOMAIN d
        BY <1>5, <2>2, <3>1, <3>5, <4>2 DEF Alone
      <4> QED BY <4>1, <4>2
    <3>6. runs'[x.user] = runs[x.user]
      BY <1>2, <3>2
    <3>7. Alone(t, x, e)'
      BY <1>2, <2>2, <3>1, <3>4, <3>5, <3>6 DEF Alone
    <3> QED BY <3>3, <3>7
  <2> QED BY <2>1, <2>2
<1>9. DOMAIN overlapped' = Sessions /\ verdict' # "alone" /\ \A n \in notes' : IsNote(n)
  BY <1>2 DEF DataInv, Note
<1> QED BY <1>2, <1>6, <1>7, <1>8, <1>9, CommitKeeps

\* What the deletion of jobs leaves of a note.
LEMMA CascadeIs ==
  ASSUME DataInv, NEW s \in Sessions, NEW n \in Cascaded(s)
  PROVE  \E m \in notes \ work[s].taken :
             /\ IsNote(n) /\ n.by = m.by /\ n.kind = m.kind /\ n.job \in {m.job, NoJob}
             /\ m.job \notin Touched(s) => n = m
<1>1. PICK m \in notes \ work[s].taken :
        n = IF m.job \in Touched(s) THEN [m EXCEPT !.job = NoJob] ELSE m
  BY DEF Cascaded
<1>2. IsNote(m)
  BY DEF DataInv
<1>3. CASE m.job \in Touched(s)
  <2>1. n = [by |-> m.by, kind |-> m.kind, job |-> NoJob]
    <3>1. n = [m EXCEPT !.job = NoJob]
      BY <1>1, <1>3
    <3> QED BY <1>2, <3>1, Zenon DEF IsNote
  <2> QED BY <1>3, <2>1 DEF IsNote
<1>4. CASE m.job \notin Touched(s)
  BY <1>1, <1>2, <1>4
<1> QED BY <1>3, <1>4

LEMMA EraseUserKeeps ==
  ASSUME DataInv, NEW s \in Sessions, EraseUser(s)
  PROVE  DataInv'
<1>1. PICK k, d : k = work[s] /\ d = dirty[s]
  OBVIOUS
<1>2. /\ Erasing(s) /\ Committed(s) /\ End(s) /\ notes' = Cascaded(s)
      /\ runs' = [runs EXCEPT ![k.user] = @ - k.runs]
      /\ sightings' = [i \in Ids |-> IF i \in Touched(s) THEN 0 ELSE sightings[i]]
      /\ raced' = raced \ Touched(s) /\ overlapped' = [overlapped EXCEPT ![s] = FALSE]
      /\ verdict' = "done"
  BY <1>1 DEF EraseUser
<1>3. IsErasure(k) /\ Erased(k, d) /\ k # Idle
  BY <1>1, <1>2, OfErasure, KindsApart
<1>4. \A i \in Ids : rows'[i] = IF i \in Touched(s) THEN Nothing ELSE rows[i]
  BY <1>1, <1>2, <1>3 DEF Committed, View, Touched, Erased
<1>5. \A i \in Ids \ Touched(s) : sightings'[i] = sightings[i] /\ (i \in raced => i \in raced')
  BY <1>2
<1>6. RowsCount'
  <2>1. DOMAIN rows' = Ids /\ sightings' \in [Ids -> Nat]
    BY <1>2 DEF Committed, View, DataInv, RowsCount
  <2>2. ASSUME NEW i \in Ids
        PROVE  IF rows'[i] = Nothing THEN sightings'[i] = 0
               ELSE IsJob(rows'[i]) /\ (rows'[i].seen # sightings'[i] => i \in raced')
    <3>1. CASE i \in Touched(s)
      BY <1>2, <1>4, <3>1
    <3>2. CASE i \notin Touched(s)
      BY <1>4, <1>5, <3>2 DEF DataInv, RowsCount
    <3> QED BY <3>1, <3>2
  <2> QED BY <2>1, <2>2 DEF RowsCount
<1>7. \A n \in notes' : IsNote(n)
  BY <1>2, CascadeIs
<1>8. ASSUME NEW t \in Others(s)
      PROVE  /\ overlapped[t] => overlapped'[t]
             /\ Erasing(t) /\ ~overlapped'[t] /\ Alone(t, work[t], dirty[t]) =>
                    Alone(t, work[t], dirty[t])'
  <2>1. overlapped'[t] = overlapped[t]
    BY <1>2 DEF Others
  <2>2. ASSUME Erasing(t), ~overlapped'[t], Alone(t, work[t], dirty[t])
        PROVE  Alone(t, work[t], dirty[t])'
    <3>1. PICK x, e : x = work[t] /\ e = dirty[t]
      OBVIOUS
    <3>2. x.user # k.user
      BY <1>1, <1>3, <2>1, <2>2, <3>1, UserRests
    <3>3. /\ x = work'[t] /\ e = dirty'[t] /\ work'[s] = Idle
          /\ \A r \in Others(s) : work'[r] = work[r]
      BY <1>2, <3>1, EndIs
    <3>4. \A r \in Others(t) : work'[r] = Idle \/ work'[r].user # x.user
      BY <2>2, <3>1, <3>3 DEF Alone, Others
    <3>5. ASSUME NEW n \in notes', x.step # "notes", n.by = x.user PROVE n \in x.taken
      <4>1. PICK m \in notes : n.by = m.by /\ (m.job \notin Touched(s) => n = m)
        BY <1>2, <3>5, CascadeIs
      <4>2. m \in x.taken
        BY <2>2, <3>1, <3>5, <4>1 DEF Alone
      <4>3. m.job \notin Touched(s)
        BY <1>2, <2>2, <3>1, <4>2 DEF DataInv, Locks, Others
      <4> QED BY <4>1, <4>2, <4>3
    <3>6. \A i \in Ids : rows'[i] # Nothing => rows'[i] = rows[i]
      BY <1>4
    <3>7. runs'[x.user] = runs[x.user]
      BY <1>2, <3>2
    <3>8. Alone(t, x, e)'
      BY <2>2, <3>1, <3>4, <3>5, <3>6, <3>7 DEF Alone
    <3> QED BY <3>3, <3>8
  <2> QED BY <2>1, <2>2
<1>9. DOMAIN overlapped' = Sessions /\ verdict' # "alone"
  BY <1>2 DEF DataInv
<1> QED BY <1>2, <1>5, <1>6, <1>7, <1>8, <1>9, CommitKeeps

LEMMA AddNoteKeeps ==
  ASSUME DataInv, NEW u, NEW kind, NEW i, AddNote(u, kind, i)
  PROVE  DataInv'
<1>1. PICK n : n = [by |-> u, kind |-> kind, job |-> i]
  OBVIOUS
<1>2. /\ notes' = notes \cup {n}
      /\ overlapped' = [t \in Sessions |-> overlapped[t] \/ (Erasing(t) /\ work[t].user = u)]
      /\ UNCHANGED <<runs, rows, work, dirty, sightings, raced, verdict>>
  BY <1>1 DEF AddNote
<1>3. IsNote(n) /\ n.by = u
  BY <1>1 DEF IsNote
<1>4. ASSUME NEW t \in Sessions PROVE SessionHolds(t, work[t], dirty[t])'
  <2>1. PICK x, d : x = work[t] /\ d = dirty[t]
    OBVIOUS
  <2>2. SessionHolds(t, x, d) /\ x = work'[t] /\ d = dirty'[t]
    BY <1>2, <2>1 DEF DataInv
  <2>3. CASE x = Idle /\ DOMAIN d = {}
    BY <2>2, <2>3 DEF SessionHolds
  <2>4. CASE IsScrape(x) /\ Written(x, d)
    <3>1. Written(x, d)'
      BY <1>2, <2>4 DEF Written
    <3> QED BY <2>2, <2>4, <3>1 DEF SessionHolds
  <2>5. CASE IsErasure(x) /\ Erased(x, d) /\ (overlapped[t] \/ Alone(t, x, d))
    <3>1. Erased(x, d)'
      BY <1>2, <2>5 DEF Erased
    <3>2. overlapped'[t] \/ Alone(t, x, d)'
      <4>1. SUFFICES ASSUME ~overlapped'[t] PROVE Alone(t, x, d)'
        OBVIOUS
      <4>2. Erasing(t)
        BY <2>1, <2>5, KindsApart DEF Erasing
      <4>3. ~overlapped[t] /\ x.user # u
        BY <1>2, <2>1, <4>1, <4>2
      <4> QED BY <1>2, <1>3, <2>5, <4>3 DEF Alone
    <3> QED BY <2>2, <2>5, <3>1, <3>2 DEF SessionHolds
  <2> QED BY <2>2, <2>3, <2>4, <2>5 DEF SessionHolds
<1>5. RowsCount' /\ Locks'
  BY <1>2 DEF DataInv, RowsCount, Locks, Touched, Erasing
<1> QED BY <1>2, <1>3, <1>4, <1>5 DEF DataInv

-----------------------------------------------------------------------------
(* The theorems. *)

LEMMA DataStart == Init => DataInv
<1> SUFFICES ASSUME Init PROVE DataInv
  OBVIOUS
<1>1. DOMAIN Untouched = {}
  BY DEF Untouched
<1>2. RowsCount
  BY DEF Init, RowsCount
<1>3. \A s \in Sessions : Touched(s) = {}
  BY <1>1 DEF Init, Touched
<1>4. Locks
  BY <1>3 DEF Locks
<1>5. \A s \in Sessions : SessionHolds(s, work[s], dirty[s])
  BY <1>1 DEF Init, SessionHolds
<1> QED BY <1>2, <1>4, <1>5 DEF DataInv, Init

\* A request, a note or a step of a session.
LEMMA NextIs ==
  ASSUME Next
  PROVE  \/ \E s \in Sessions, u \in Users, aimed \in BOOLEAN, batch \in Batches :
                BeginScrape(s, u, aimed, batch)
         \/ \E s \in Sessions, u \in Users, keep \in BOOLEAN : BeginErasure(s, u, keep)
         \/ \E u \in Users, kind \in Kinds, i \in Ids : AddNote(u, kind, i)
         \/ \E s \in Sessions : Step(s)
<1>1. PICK c : c = CHOOSE t \in Free : TRUE
  OBVIOUS
<1>2. {c : f \in Free} \subseteq Sessions
  BY <1>1 DEF Free
<1>3. \/ \E s \in {c : f \in Free}, u \in Users :
            \/ \E aimed \in BOOLEAN, batch \in Batches : BeginScrape(s, u, aimed, batch)
            \/ \E keep \in BOOLEAN : BeginErasure(s, u, keep)
      \/ \E u \in Users, kind \in Kinds, i \in Ids : AddNote(u, kind, i)
      \/ \E s \in Sessions : Step(s)
  BY <1>1, Zenon DEF Next
<1>4. ASSUME NEW s \in {c : f \in Free}, NEW u \in Users, NEW aimed \in BOOLEAN,
             NEW batch \in Batches, BeginScrape(s, u, aimed, batch)
      PROVE  \E r \in Sessions, v \in Users, b \in BOOLEAN, l \in Batches :
                 BeginScrape(r, v, b, l)
  BY <1>2, <1>4, Zenon
<1>5. ASSUME NEW s \in {c : f \in Free}, NEW u \in Users, NEW keep \in BOOLEAN,
             BeginErasure(s, u, keep)
      PROVE  \E r \in Sessions, v \in Users, b \in BOOLEAN : BeginErasure(r, v, b)
  BY <1>2, <1>5, Zenon
<1> QED BY <1>3, <1>4, <1>5, Zenon

LEMMA DataStep == DataInv /\ [Next]_vars => DataInv'
<1> SUFFICES ASSUME DataInv, [Next]_vars PROVE DataInv'
  OBVIOUS
<1>1. ASSUME NEW s \in Sessions, Step(s) PROVE DataInv'
  BY <1>1, LookupKeeps, WriteKeeps, FinishKeeps, EraseNotesKeeps, EraseJobsKeeps,
     EraseTargetsKeeps, EraseUserKeeps, FailuresKeep DEF Step
<1>2. CASE Next
  BY <1>1, <1>2, NextIs, BeginScrapeKeeps, BeginErasureKeeps, AddNoteKeeps
<1>3. CASE UNCHANGED vars
  <2>1. UNCHANGED <<runs, rows, notes, work, dirty, sightings, raced, overlapped, verdict>>
    BY <1>3 DEF vars
  <2> QED BY <2>1 DEF DataInv, RowsCount, Locks, Touched, Erasing, SessionHolds, Written,
                      Erased, Alone
<1> QED BY <1>2, <1>3

LEMMA DataAlways == Spec => []DataInv
BY DataStart, DataStep, PTL DEF Spec

\* Of persist_jobs: whoever scrapes, erases and stores again, a job's seen_count is the number
\* of items stored in it, unless a scrape has written what it had read too early.
THEOREM SightingsAreExplained == Spec => []SightingsExplained
<1>1. DataInv => SightingsExplained
  BY DEF DataInv, RowsCount, SightingsExplained
<1> QED BY <1>1, DataAlways, PTL

\* Of clear_data and delete_account: an erasure fails only when its user did something else
\* meanwhile, when jobs of others hang on the user's targets, or in a deadlock.
THEOREM ErasuresFailRightly == Spec => []ErasuresFailForCause
<1>1. DataInv => ErasuresFailForCause
  BY DEF DataInv, ErasuresFailForCause
<1> QED BY <1>1, DataAlways, PTL

\* Jobs and notes go only with a commit.
LEMMA OnlyCommits ==
  ASSUME Next
  PROVE  \/ rows' = rows /\ notes \subseteq notes'
         \/ \E s \in Sessions : Finish(s) \/ EraseUser(s)
<1>1. ASSUME NEW s \in Sessions, Step(s)
      PROVE  \/ rows' = rows /\ notes \subseteq notes'
             \/ Finish(s) \/ EraseUser(s)
  BY <1>1 DEF Step, Lookup, Write, ScrapeFails, EraseNotes, EraseJobs, EraseTargets,
              EraseRefused, ErasureFails, Victim
<1> QED BY <1>1, NextIs DEF BeginScrape, BeginErasure, AddNote

\* Of clear_data and delete_account: nobody's jobs and applications go but by an erasure of
\* the one who has them.
THEOREM OthersAlwaysKeepTheirs == Spec => OthersKeepTheirs
<1>1. ASSUME DataInv, Next
      PROVE  /\ \A i \in Ids : rows[i] # Nothing /\ rows'[i] = Nothing =>
                    \E s \in Sessions : Erasing(s) /\ work[s].user = rows[i].owner
             /\ \A n \in notes : n.kind = "application" =>
                    \/ \E m \in notes' : m.by = n.by /\ m.kind = n.kind /\ m.job \in {n.job, NoJob}
                    \/ \E s \in Sessions : Erasing(s) /\ work[s].user = n.by
  <2>1. CASE rows' = rows /\ notes \subseteq notes'
    BY <2>1
  <2>2. ASSUME NEW s \in Sessions, Finish(s)
        PROVE  notes' = notes /\ \A i \in Ids : rows[i] # Nothing => rows'[i] # Nothing
    <3>1. Scraping(s) /\ Committed(s) /\ notes' = notes
      BY <2>2 DEF Finish
    <3>2. Written(work[s], dirty[s])
      BY <1>1, <3>1, OfScrape
    <3> QED BY <3>1, <3>2 DEF Committed, View, Written, Touched
  <2>3. ASSUME NEW s \in Sessions, EraseUser(s)
        PROVE  /\ \A i \in Ids : rows[i] # Nothing /\ rows'[i] = Nothing =>
                      Erasing(s) /\ work[s].user = rows[i].owner
               /\ \A n \in notes : n.kind = "application" =>
                    \/ \E m \in notes' : m.by = n.by /\ m.kind = n.kind /\ m.job \in {n.job, NoJob}
                    \/ Erasing(s) /\ work[s].user = n.by
    <3>1. Erasing(s) /\ Committed(s) /\ notes' = Cascaded(s)
      BY <2>3 DEF EraseUser
    <3>2. Erased(work[s], dirty[s])
      BY <1>1, <3>1, OfErasure
    <3>3. \A i \in Ids : rows[i] # Nothing /\ rows'[i] = Nothing => work[s].user = rows[i].owner
      BY <3>1, <3>2 DEF Committed, View, Erased, Touched
    <3>4. ASSUME NEW n \in notes, n.kind = "application", work[s].user # n.by
          PROVE  \E m \in notes' : m.by = n.by /\ m.kind = n.kind /\ m.job \in {n.job, NoJob}
      <4>1. n \in notes \ work[s].taken
        BY <3>2, <3>4 DEF Erased
      <4>2. CASE n.job \notin Touched(s)
        BY <3>1, <3>4, <4>1, <4>2 DEF Cascaded
      <4>3. CASE n.job \in Touched(s)
        <5>1. PICK m : m = [n EXCEPT !.job = NoJob]
          OBVIOUS
        <5>2. m \in notes'
          BY <3>1, <3>4, <4>1, <4>3, <5>1 DEF Cascaded
        <5>3. m = [by |-> n.by, kind |-> n.kind, job |-> NoJob]
          <6>1. IsNote(n)
            BY <1>1 DEF DataInv
          <6> QED BY <5>1, <6>1, Zenon DEF IsNote
        <5> QED BY <5>2, <5>3
      <4> QED BY <4>2, <4>3
    <3> QED BY <3>1, <3>3, <3>4
  <2> QED BY <1>1, <2>1, <2>2, <2>3, OnlyCommits
<1> QED BY <1>1, DataAlways, PTL DEF Spec, OthersKeepTheirs

\* Erasures take their user's rows and nobody else's, and fail only for a reason.
THEOREM ErasuresAreAlwaysSound == Spec => ErasuresAreSound
BY ErasuresFailRightly, OthersAlwaysKeepTheirs DEF ErasuresAreSound

-----------------------------------------------------------------------------
(* Migrations.  The tables live beside the rows of UserData; its proofs use nothing of them. *)

\* The order of the natural numbers has a least element in every set of them.
LEMMA LessIsWellFounded ==
  \E R : IsWellFoundedOn(R, Nat) /\ \A a, b \in Nat : a < b => <<a, b>> \in R
<1> DEFINE R == OpToRel(<, Nat)
<1>1. IsWellFoundedOn(R, Nat)
  BY NatLessThanWellFounded, Zenon
<1>2. \A a, b \in Nat : a < b => <<a, b>> \in R
  BY Zenon DEF OpToRel
<1> QED BY <1>1, <1>2, Zenon

\* Induction over the natural numbers, stated of a set: the library's induction theorems
\* take an operator, its least-element theorem does not.
LEMMA Induction ==
  ASSUME NEW S, 0 \in S, \A n \in Nat : n \in S => n + 1 \in S
  PROVE  Nat \subseteq S
<1>1. PICK R : IsWellFoundedOn(R, Nat) /\ \A a, b \in Nat : a < b => <<a, b>> \in R
  BY LessIsWellFounded
<1> DEFINE T == Nat \ S
<1>2. SUFFICES ASSUME T # {} PROVE FALSE
  OBVIOUS
<1>3. PICK x \in T : \A y \in T : ~(<<y, x>> \in R)
  <2>1. T \subseteq Nat /\ T # {} /\ IsWellFoundedOn(R, Nat)
    BY <1>1, <1>2
  <2> HIDE DEF T
  <2> QED BY <2>1, WFMin, Zenon
<1>4. x - 1 \in T /\ x - 1 < x
  OBVIOUS
<1> QED BY <1>1, <1>3, <1>4

\* Induction over an interval.
LEMMA FromTo ==
  ASSUME NEW m \in Nat, NEW n \in Nat, NEW S, m \in S, \A k \in m..(n - 1) : k \in S => k + 1 \in S
  PROVE  m..n \subseteq S
<1> DEFINE T == {k \in Nat : m + k <= n => m + k \in S}
<1>1. 0 \in T
  OBVIOUS
<1>2. ASSUME NEW k \in Nat, k \in T PROVE k + 1 \in T
  <2> SUFFICES ASSUME m + (k + 1) <= n PROVE m + (k + 1) \in S
    OBVIOUS
  <2>1. m + k \in S /\ m + k \in m..(n - 1) /\ m + (k + 1) = (m + k) + 1
    BY <1>2
  <2> QED BY <2>1
<1>3. Nat \subseteq T
  <2> HIDE DEF T
  <2> QED BY <1>1, <1>2, Induction
<1>4. \A i \in m..n : i - m \in Nat /\ m + (i - m) = i
  OBVIOUS
<1> QED BY <1>3, <1>4

-----------------------------------------------------------------------------
\* The tables of the models, those whose job_id the audit revision changes, and the columns
\* the revisions add to tables that exist.
Tables == DOMAIN M!Declared
Audited == {"auto_apply_runs", "applications", "cover_letters", "interview_sessions"}

Additions ==
  {M!AddColumns("companies", M!CompanyColumns), M!AddColumns("source_registry", M!RegistryColumns),
   M!AddColumns("user_profiles", M!ProfileColumns),
   M!AddColumns("saved_searches", {"last_checked_at"}),
   M!AddColumns("jobs", M!LifecycleColumns), M!AddColumns("scraper_runs", M!TierColumns),
   M!AddColumns("users", {"token_version"}), M!AddColumns("scrape_attempts", M!AttemptColumns),
   M!AddColumns("jobs", M!AtsColumns), M!AddColumns("saved_searches", M!AlertColumns),
   M!AddColumns("user_integration_secrets", M!SecretColumns),
   M!AddColumns("email_logs", M!ProvenanceColumns),
   M!AddColumns("auto_apply_runs", {"review_items"})}

\* What a table gets from a later revision than the one that creates it: for these a table
\* may differ from the models until that revision has run.
LaterColumn(t, c) == \E a \in Additions : a.table = t /\ c \in a.cols
LaterKey(t, fk) ==
    \/ t = "jobs" /\ fk[1] = "source_target_id" /\ fk[2] = "scrape_targets"
    \/ t \in Audited /\ fk[1] = "job_id" /\ fk[2] = "jobs"
LaterUnique(t, u) == t = "jobs" /\ u = {"ats_composite_key"}

\* The shapes of a table and of a database.
IsTable(s) == s = [cols |-> s.cols, fks |-> s.fks, unique |-> s.unique]
IsDatabase(d) ==
    /\ d = [tables |-> d.tables, rows |-> d.rows]
    /\ d.tables = [t \in DOMAIN d.tables |-> d.tables[t]]
    /\ \A t \in DOMAIN d.tables : IsTable(d.tables[t])

\* A table that is as the models declare it, up to what a later revision changes.
StartsAs(t, s) ==
    /\ \A c \in M!Declared[t].cols : c \in s.cols \/ LaterColumn(t, c)
    /\ \A fk \in s.fks \cup M!Declared[t].fks :
           LaterKey(t, fk) \/ (fk \in s.fks <=> fk \in M!Declared[t].fks \ M!NeverCreated)
    /\ \A u \in s.unique \cup M!Declared[t].unique :
           LaterUnique(t, u) \/ (u \in s.unique <=> u \in M!Declared[t].unique)

Grounded(d) ==
    IsDatabase(d) /\ \A t \in Tables : M!Exists(d, t) => StartsAs(t, d.tables[t])

\* An operation that builds something of a table of the models, and that its effect is there.
Building  == {"create", "ensure", "add", "fk", "unique"}
Builds(o) == o.op \in Building /\ o.table \in Tables
InPlace(o, d) ==
    /\ M!Exists(d, o.table)
    /\ o.op = "add" => o.cols \subseteq d.tables[o.table].cols
    /\ o.op = "fk" =>
           /\ o.fk \in d.tables[o.table].fks
           /\ \A fk \in d.tables[o.table].fks :
                  fk[1] = o.fk[1] /\ fk[2] = o.fk[2] => fk = o.fk
    /\ o.op = "unique" => o.cols \in d.tables[o.table].unique

\* An operation that takes nothing away of a table that the models declare and no later
\* revision adds.
Operations == {"create", "ensure", "drop", "add", "remove", "fk", "unfk", "unique", "ununique",
               "move", "refuse"}
Harmless(o) ==
    /\ o.op \in Operations
    /\ o.op \in {"create", "ensure"} =>
           IsTable(o.spec) /\ (o.table \in Tables => StartsAs(o.table, o.spec))
    /\ o.op = "unfk" /\ o.table \in Tables =>
           \A fk \in M!Declared[o.table].fks : LaterKey(o.table, fk) \/ fk[1] # o.col
    /\ o.op = "remove" /\ o.table \in Tables =>
           /\ \A c \in o.cols : LaterColumn(o.table, c)
           /\ \A fk \in M!Declared[o.table].fks : LaterKey(o.table, fk) \/ fk[1] \notin o.cols
           /\ \A u \in M!Declared[o.table].unique : LaterUnique(o.table, u) \/ u \cap o.cols = {}
    /\ o.op = "fk" => LaterKey(o.table, o.fk)
    /\ o.op \in {"unique", "ununique"} => LaterUnique(o.table, o.cols)

\* Operation p does not undo what operation o has built.
Spares(p, o) ==
    \/ p.op \in {"move", "refuse"}
    \/ p.table # o.table
    \/ p.op \in {"create", "ensure", "add", "unique"}
    \/ p.op = "fk" /\ (o.op = "fk" /\ p.fk[1] = o.fk[1] /\ p.fk[2] = o.fk[2] => p.fk = o.fk)
    \/ p.op = "unfk" /\ (o.op = "fk" => o.fk[1] # p.col)
    \/ p.op = "ununique" /\ (o.op = "unique" => o.cols # p.cols)
    \/ /\ p.op = "remove" /\ (o.op = "fk" => o.fk[1] \notin p.cols)
       /\ o.op \in {"add", "unique"} => o.cols \cap p.cols = {}

\* The database with a table put in, or replaced.
LEMMA WithTableIs ==
  ASSUME NEW d, IsDatabase(d), NEW t, NEW s, IsTable(s)
  PROVE  /\ IsDatabase(M!WithTable(d, t, s))
         /\ DOMAIN M!WithTable(d, t, s).tables = DOMAIN d.tables \cup {t}
         /\ \A u \in DOMAIN d.tables \cup {t} :
                M!WithTable(d, t, s).tables[u] = IF u = t THEN s ELSE d.tables[u]
<1>1. M!WithTable(d, t, s) =
        [tables |-> [u \in DOMAIN d.tables \cup {t} |-> IF u = t THEN s ELSE d.tables[u]],
         rows   |-> d.rows]
  BY DEF M!WithTable, IsDatabase
<1> QED BY <1>1 DEF IsDatabase

\* The database with a table dropped.
LEMMA WithoutIs ==
  ASSUME NEW d, IsDatabase(d), NEW t
  PROVE  /\ IsDatabase(M!Without(d, t))
         /\ DOMAIN M!Without(d, t).tables = DOMAIN d.tables \ {t}
         /\ \A u \in DOMAIN d.tables \ {t} : M!Without(d, t).tables[u] = d.tables[u]
<1> DEFINE R == {k \in d.rows : M!LivesIn(k) # t}
<1>1. M!Without(d, t) = [tables |-> [u \in DOMAIN d.tables \ {t} |-> d.tables[u]], rows |-> R]
  BY DEF M!Without
<1> HIDE DEF R
<1> QED BY <1>1 DEF IsDatabase

\* What an operation that succeeds has done.
Changed(o, s) ==
    CASE o.op = "add"      -> M!Table(s.cols \cup o.cols, s.fks, s.unique)
      [] o.op = "remove"   -> M!Table(s.cols \ o.cols, {fk \in s.fks : fk[1] \notin o.cols},
                                    {u \in s.unique : u \cap o.cols = {}})
      [] o.op = "fk"       -> M!Table(s.cols, {fk \in s.fks : fk[1] # o.fk[1] \/ fk[2] # o.fk[2]}
                                            \cup {o.fk}, s.unique)
      [] o.op = "unfk"     -> M!Table(s.cols, {fk \in s.fks : fk[1] # o.col}, s.unique)
      [] o.op = "unique"   -> M!Table(s.cols, s.fks, s.unique \cup {o.cols})
      [] o.op = "ununique" -> M!Table(s.cols, s.fks, s.unique \ {o.cols})
Creates(o, d, e) == ~M!Exists(d, o.table) /\ e = M!WithTable(d, o.table, o.spec)
Changes(o, d, e) ==
    M!Exists(d, o.table) /\ e = M!WithTable(d, o.table, Changed(o, d.tables[o.table]))

\* An operation that succeeds on a database has one of five effects.
LEMMA Effect ==
  ASSUME NEW d, IsDatabase(d), NEW o, o.op \in Operations, M!Perform(d, o) # M!Failed
  PROVE  \/ /\ o.op \in {"move", "refuse"} /\ IsDatabase(M!Perform(d, o))
            /\ M!Perform(d, o).tables = d.tables
         \/ o.op \in {"create", "ensure"} /\ Creates(o, d, M!Perform(d, o))
         \/ o.op = "ensure" /\ M!Exists(d, o.table) /\ M!Perform(d, o) = d
         \/ o.op = "drop" /\ M!Perform(d, o) = M!Without(d, o.table)
         \/ /\ o.op \in {"add", "remove", "fk", "unfk", "unique", "ununique"}
            /\ Changes(o, d, M!Perform(d, o))
<1>0. d # M!Failed
  BY DEF M!Perform
<1>1. CASE o.op \in {"create", "ensure", "drop", "refuse"}
  BY <1>0, <1>1 DEF M!Perform, Creates
<1>2. CASE o.op \in {"add", "remove"}
  BY <1>0, <1>2 DEF M!Perform, Changes, Changed
<1>3. CASE o.op \in {"fk", "unfk"}
  BY <1>0, <1>3 DEF M!Perform, Changes, Changed
<1>4. CASE o.op \in {"unique", "ununique"}
  BY <1>0, <1>4 DEF M!Perform, Changes, Changed
<1>5. CASE o.op = "move"
  <2>1. M!Perform(d, o) = d \/ M!Perform(d, o) = [d EXCEPT !.rows = (@ \ {o.from}) \cup {o.to}]
    BY <1>0, <1>5 DEF M!Perform
  <2> QED BY <2>1, <1>5 DEF IsDatabase
<1> QED BY <1>1, <1>2, <1>3, <1>4, <1>5 DEF Operations

\* An operation that changes a table leaves it a table, and one that has begun as the
\* models declare it.
LEMMA ChangesTables ==
  ASSUME NEW d, Grounded(d), NEW o, Harmless(o), M!Exists(d, o.table),
         o.op \in {"add", "remove", "fk", "unfk", "unique", "ununique"}
  PROVE  /\ IsTable(Changed(o, d.tables[o.table]))
         /\ o.table \in Tables => StartsAs(o.table, Changed(o, d.tables[o.table]))
<1> DEFINE s == d.tables[o.table]
           D == M!Declared[o.table]
<1>1. IsTable(s) /\ (o.table \in Tables => StartsAs(o.table, s))
  BY DEF Grounded, IsDatabase, M!Exists
<1> HIDE DEF s, D
<1> SUFFICES /\ IsTable(Changed(o, s)) /\ (o.table \in Tables => StartsAs(o.table, Changed(o, s)))
  BY DEF s
<1>2. IsTable(Changed(o, s))
  BY DEF Changed, M!Table, IsTable
<1>3. ASSUME o.table \in Tables PROVE StartsAs(o.table, Changed(o, s))
  <2>1. /\ \A c \in D.cols : c \in s.cols \/ LaterColumn(o.table, c)
        /\ \A fk \in s.fks \cup D.fks :
               LaterKey(o.table, fk) \/ (fk \in s.fks <=> fk \in D.fks \ M!NeverCreated)
        /\ \A u \in s.unique \cup D.unique :
               LaterUnique(o.table, u) \/ (u \in s.unique <=> u \in D.unique)
    BY <1>1, <1>3 DEF StartsAs, D
  <2> SUFFICES
        /\ \A c \in D.cols : c \in Changed(o, s).cols \/ LaterColumn(o.table, c)
        /\ \A fk \in Changed(o, s).fks \cup D.fks :
               LaterKey(o.table, fk) \/ (fk \in Changed(o, s).fks <=> fk \in D.fks \ M!NeverCreated)
        /\ \A u \in Changed(o, s).unique \cup D.unique :
               LaterUnique(o.table, u) \/ (u \in Changed(o, s).unique <=> u \in D.unique)
    BY DEF StartsAs, D
  <2>2. CASE o.op = "add"
    BY <2>1, <2>2 DEF Changed, M!Table
  <2>3. CASE o.op = "remove"
    <3>1. /\ \A fk \in D.fks : LaterKey(o.table, fk) \/ fk[1] \notin o.cols
          /\ \A c \in o.cols : LaterColumn(o.table, c)
          /\ \A u \in D.unique : LaterUnique(o.table, u) \/ u \cap o.cols = {}
      BY <1>3, <2>3 DEF Harmless, D
    <3> QED BY <2>1, <3>1, <2>3 DEF Changed, M!Table
  <2>4. CASE o.op = "fk"
    <3>1. LaterKey(o.table, o.fk)
      BY <2>4 DEF Harmless
    <3>2. \A fk : fk[1] = o.fk[1] /\ fk[2] = o.fk[2] => LaterKey(o.table, fk)
      BY <3>1 DEF LaterKey
    <3> QED BY <2>1, <3>1, <3>2, <2>4 DEF Changed, M!Table
  <2>5. CASE o.op = "unfk"
    <3>1. \A fk \in D.fks : LaterKey(o.table, fk) \/ fk[1] # o.col
      BY <1>3, <2>5 DEF Harmless, D
    <3> QED BY <2>1, <3>1, <2>5 DEF Changed, M!Table
  <2>6. CASE o.op \in {"unique", "ununique"}
    <3>1. LaterUnique(o.table, o.cols)
      BY <2>6 DEF Harmless
    <3> QED BY <2>1, <3>1, <2>6 DEF Changed, M!Table
  <2> QED BY <2>2, <2>3, <2>4, <2>5, <2>6
<1> QED BY <1>2, <1>3

\* No operation of a revision takes a table away from what the models declare.
LEMMA StaysGrounded ==
  ASSUME NEW d, Grounded(d), NEW o, Harmless(o), M!Perform(d, o) # M!Failed
  PROVE  Grounded(M!Perform(d, o))
<1> DEFINE e == M!Perform(d, o)
<1>0. IsDatabase(d) /\ o.op \in Operations
  BY DEF Grounded, Harmless
<1>a. ASSUME NEW s, IsTable(s), o.table \in Tables => StartsAs(o.table, s),
             e = M!WithTable(d, o.table, s)
      PROVE  Grounded(e)
  <2>1. IsDatabase(e)
    BY <1>0, <1>a, WithTableIs
  <2>2. DOMAIN e.tables = DOMAIN d.tables \cup {o.table}
        /\ \A u \in DOMAIN d.tables \cup {o.table} :
                e.tables[u] = IF u = o.table THEN s ELSE d.tables[u]
    BY <1>0, <1>a, WithTableIs
  <2> HIDE DEF e
  <2>3. ASSUME NEW t \in Tables, M!Exists(e, t) PROVE StartsAs(t, e.tables[t])
    BY <1>a, <2>2, <2>3 DEF Grounded, M!Exists
  <2> QED BY <2>1, <2>3 DEF Grounded
<1>1. CASE o.op \in {"move", "refuse"} /\ IsDatabase(e) /\ e.tables = d.tables
  BY <1>1 DEF Grounded, M!Exists
<1>2. CASE o.op \in {"create", "ensure"} /\ Creates(o, d, e)
  BY <1>2, <1>a DEF Creates, Harmless
<1>3. CASE e = d
  BY <1>3
<1>4. CASE o.op = "drop" /\ e = M!Without(d, o.table)
  <2>1. IsDatabase(e) /\ DOMAIN e.tables = DOMAIN d.tables \ {o.table}
        /\ \A u \in DOMAIN d.tables \ {o.table} : e.tables[u] = d.tables[u]
    BY <1>0, <1>4, WithoutIs
  <2> SUFFICES Grounded(e)
    OBVIOUS
  <2> HIDE DEF e
  <2> QED BY <2>1 DEF Grounded, M!Exists
<1>5. CASE o.op \in {"add", "remove", "fk", "unfk", "unique", "ununique"} /\ Changes(o, d, e)
  BY <1>5, <1>a, ChangesTables DEF Changes
<1> QED BY <1>0, <1>1, <1>2, <1>3, <1>4, <1>5, Effect

\* What an operation leaves in place of what earlier ones have built.
LEMMA StaysInPlace ==
  ASSUME NEW d, IsDatabase(d), NEW p, p.op \in Operations, M!Perform(d, p) # M!Failed,
         NEW o, InPlace(o, d), Spares(p, o)
  PROVE  InPlace(o, M!Perform(d, p))
<1> DEFINE e == M!Perform(d, p)
           s == d.tables[o.table]
<1>0. M!Exists(d, o.table) /\ IsTable(s)
  BY DEF InPlace, M!Exists, IsDatabase
<1>a. ASSUME o.table \in DOMAIN e.tables, e.tables[o.table] = s PROVE InPlace(o, e)
  BY <1>a DEF InPlace, M!Exists
<1>b. ASSUME p.table # o.table, NEW f, IsTable(f), e = M!WithTable(d, p.table, f)
      PROVE  InPlace(o, e)
  BY <1>0, <1>a, <1>b, WithTableIs DEF M!Exists
<1>1. CASE e.tables = d.tables
  BY <1>0, <1>1, <1>a DEF M!Exists
<1>2. CASE p.op \in {"create", "ensure"} /\ Creates(p, d, e)
  <2>1. p.table # o.table
    BY <1>0, <1>2 DEF Creates
  <2>2. e = M!WithTable(d, p.table, p.spec)
    BY <1>2 DEF Creates
  <2>3. e.tables = [u \in DOMAIN d.tables \cup {p.table} |->
                       IF u = p.table THEN p.spec ELSE d.tables[u]]
    BY <2>2 DEF M!WithTable, IsDatabase
  <2>4. e.tables[o.table] = s /\ o.table \in DOMAIN e.tables
    BY <2>1, <2>3, <1>0, Zenon DEF M!Exists
  <2> QED BY <2>4, <1>a
<1>3. CASE p.op = "drop" /\ e = M!Without(d, p.table)
  <2>1. p.table # o.table
    BY <1>3 DEF Spares
  <2>2. e.tables[o.table] = s /\ o.table \in DOMAIN e.tables
    BY <1>0, <1>3, <2>1, WithoutIs DEF M!Exists
  <2> QED BY <2>2, <1>a
<1>4. CASE p.op \in {"add", "remove", "fk", "unfk", "unique", "ununique"} /\ Changes(p, d, e)
  <2>1. e = M!WithTable(d, p.table, Changed(p, d.tables[p.table]))
    BY <1>4 DEF Changes
  <2>2. IsTable(Changed(p, d.tables[p.table]))
    BY <1>4 DEF Changed, M!Table, IsTable
  <2>3. CASE p.table # o.table
    BY <2>1, <2>2, <2>3, <1>b
  <2>4. CASE p.table = o.table
    <3>1. M!Exists(e, o.table) /\ e.tables[o.table] = Changed(p, s)
      BY <2>1, <2>2, <2>4, WithTableIs DEF M!Exists
    <3> HIDE DEF e, s
    <3>2. /\ o.op = "add" => o.cols \subseteq s.cols
          /\ o.op = "fk" =>
                 /\ o.fk \in s.fks
                 /\ \A fk \in s.fks : fk[1] = o.fk[1] /\ fk[2] = o.fk[2] => fk = o.fk
          /\ o.op = "unique" => o.cols \in s.unique
      BY DEF InPlace, s
    <3> DEFINE c == Changed(p, s)
    <3>3. /\ o.op = "add" => o.cols \subseteq c.cols
          /\ o.op = "fk" =>
                 /\ o.fk \in c.fks
                 /\ \A fk \in c.fks : fk[1] = o.fk[1] /\ fk[2] = o.fk[2] => fk = o.fk
          /\ o.op = "unique" => o.cols \in c.unique
      <4>1. CASE p.op = "add"
        BY <3>2, <4>1 DEF Changed, M!Table
      <4>2. CASE p.op = "remove"
        <5>1. /\ o.op = "fk" => o.fk[1] \notin p.cols
              /\ o.op \in {"add", "unique"} => o.cols \cap p.cols = {}
          BY <2>4, <4>2 DEF Spares
        <5> QED BY <3>2, <4>2, <5>1 DEF Changed, M!Table
      <4>3. CASE p.op = "fk"
        <5>1. o.op = "fk" /\ p.fk[1] = o.fk[1] /\ p.fk[2] = o.fk[2] => p.fk = o.fk
          BY <2>4, <4>3 DEF Spares
        <5> QED BY <3>2, <4>3, <5>1 DEF Changed, M!Table
      <4>4. CASE p.op = "unfk"
        <5>1. o.op = "fk" => o.fk[1] # p.col
          BY <2>4, <4>4 DEF Spares
        <5> QED BY <3>2, <4>4, <5>1 DEF Changed, M!Table
      <4>5. CASE p.op = "unique"
        BY <3>2, <4>5 DEF Changed, M!Table
      <4>6. CASE p.op = "ununique"
        <5>1. o.op = "unique" => o.cols # p.cols
          BY <2>4, <4>6 DEF Spares
        <5> QED BY <3>2, <4>6, <5>1 DEF Changed, M!Table
      <4> QED BY <1>4, <4>1, <4>2, <4>3, <4>4, <4>5, <4>6
    <3> SUFFICES InPlace(o, e)
      BY DEF e
    <3>4. M!Exists(e, o.table) /\ e.tables[o.table] = c
      BY <3>1
    <3> HIDE DEF c
    <3> QED BY <3>3, <3>4 DEF InPlace
  <2> QED BY <2>3, <2>4
<1>5. CASE e = d
  BY <1>5
<1> QED BY <1>1, <1>2, <1>3, <1>4, <1>5, Effect

\* What a building operation has just done is in place.
LEMMA IsBuilt ==
  ASSUME NEW d, IsDatabase(d), NEW o, o.op \in Building, M!Perform(d, o) # M!Failed
  PROVE  InPlace(o, M!Perform(d, o))
<1> DEFINE e == M!Perform(d, o)
           c == Changed(o, d.tables[o.table])
<1>0. o.op \in Operations
  BY DEF Building, Operations
<1>1. CASE Creates(o, d, e) /\ o.op \in {"create", "ensure"}
  <2>1. DOMAIN e.tables = DOMAIN d.tables \cup {o.table}
    BY <1>1 DEF Creates, M!WithTable, IsDatabase
  <2> QED BY <2>1, <1>1 DEF InPlace, M!Exists
<1>2. CASE o.op = "ensure" /\ M!Exists(d, o.table) /\ e = d
  BY <1>2 DEF InPlace
<1>3. CASE o.op \in {"add", "fk", "unique"} /\ Changes(o, d, e)
  <2>1. IsTable(c)
    BY <1>3 DEF Changed, M!Table, IsTable
  <2>2. M!Exists(e, o.table) /\ e.tables[o.table] = c
    BY <2>1, <1>3, WithTableIs DEF M!Exists, Changes
  <2>3. /\ o.op = "add" => o.cols \subseteq c.cols
        /\ o.op = "fk" =>
               /\ o.fk \in c.fks
               /\ \A fk \in c.fks : fk[1] = o.fk[1] /\ fk[2] = o.fk[2] => fk = o.fk
        /\ o.op = "unique" => o.cols \in c.unique
    BY <1>3 DEF Changed, M!Table
  <2> SUFFICES InPlace(o, e)
    OBVIOUS
  <2> HIDE DEF c, e
  <2> QED BY <2>2, <2>3 DEF InPlace
<1> QED BY <1>0, <1>1, <1>2, <1>3, Effect DEF Building

-----------------------------------------------------------------------------

\* The operations of a revision run one after the other: the databases between them, none of
\* which has failed when the last one has not.
LEMMA PerformAllRuns ==
  ASSUME NEW d, NEW ops, Len(ops) \in Nat
  PROVE  \E f : /\ M!PerformAll(d, ops) = f[Len(ops)] /\ f[0] = d
                /\ \A i \in 1..Len(ops) : f[i] = M!Perform(f[i - 1], ops[i])
                /\ M!PerformAll(d, ops) # M!Failed => \A i \in 0..Len(ops) : f[i] # M!Failed
<1> DEFINE Is(n, f) == f = [i \in 0..n |-> IF i = 0 THEN d ELSE M!Perform(f[i - 1], ops[i])]
           S == {n \in Nat : \E f : Is(n, f)}
           after == CHOOSE f : Is(Len(ops), f)
<1>1. 0 \in S
  <2>1. Is(0, [i \in 0..0 |-> d])
    OBVIOUS
  <2> QED BY <2>1
<1>2. ASSUME NEW n \in Nat, n \in S PROVE n + 1 \in S
  <2>1. PICK f : Is(n, f)
    BY <1>2
  <2> DEFINE g == [i \in 0..(n + 1) |-> IF i = n + 1 THEN M!Perform(f[n], ops[n + 1]) ELSE f[i]]
  <2>2. ASSUME NEW i \in 0..(n + 1) PROVE g[i] = IF i = 0 THEN d ELSE M!Perform(g[i - 1], ops[i])
    <3>1. CASE i = n + 1
      BY <3>1
    <3>2. CASE i \in 0..n
      <4>1. g[i] = f[i] /\ (i # 0 => g[i - 1] = f[i - 1])
        BY <3>2
      <4>2. f[i] = IF i = 0 THEN d ELSE M!Perform(f[i - 1], ops[i])
        BY <2>1, <3>2
      <4> QED BY <4>1, <4>2
    <3> QED BY <3>1, <3>2
  <2>3. g = [i \in 0..(n + 1) |-> g[i]]
    OBVIOUS
  <2> HIDE DEF g
  <2>4. Is(n + 1, g)
    BY <2>2, <2>3
  <2> HIDE DEF Is
  <2> QED BY <2>4
<1>3. Len(ops) \in S
  <2> HIDE DEF S
  <2> QED BY <1>1, <1>2, Induction
<1>4. Is(Len(ops), after)
  <2>1. \E f : Is(Len(ops), f)
    BY <1>3
  <2> HIDE DEF Is
  <2> QED BY <2>1, Zenon DEF after
<1>5. M!PerformAll(d, ops) = after[Len(ops)]
  BY Zenon DEF M!PerformAll
<1> HIDE DEF after
<1>6. after[0] = d /\ \A i \in 1..Len(ops) : after[i] = M!Perform(after[i - 1], ops[i])
  BY <1>4
<1>7. ASSUME M!PerformAll(d, ops) # M!Failed PROVE \A i \in 0..Len(ops) : after[i] # M!Failed
  <2> DEFINE T == {k \in Nat : k <= Len(ops) => after[Len(ops) - k] # M!Failed}
  <2>1. 0 \in T
    BY <1>5, <1>7
  <2>2. ASSUME NEW k \in Nat, k \in T PROVE k + 1 \in T
    <3> SUFFICES ASSUME k + 1 <= Len(ops) PROVE after[Len(ops) - (k + 1)] # M!Failed
      OBVIOUS
    <3>1. /\ after[Len(ops) - k] # M!Failed /\ Len(ops) - k \in 1..Len(ops)
          /\ Len(ops) - k - 1 = Len(ops) - (k + 1)
      BY <2>2
    <3>2. after[Len(ops) - k] = M!Perform(after[Len(ops) - (k + 1)], ops[Len(ops) - k])
      BY <1>6, <3>1
    <3> QED BY <3>1, <3>2 DEF M!Perform
  <2>3. Nat \subseteq T
    <3> HIDE DEF T
    <3> QED BY <2>1, <2>2, Induction
  <2> QED BY <2>3
<1> QED BY <1>5, <1>6, <1>7

\* What is in place after any sequence of operations that none of the others takes away.
LEMMA Sequences ==
  ASSUME NEW d, Grounded(d), NEW ops, Len(ops) \in Nat,
         \A i \in 1..Len(ops) : Harmless(ops[i]), M!PerformAll(d, ops) # M!Failed
  PROVE  /\ Grounded(M!PerformAll(d, ops))
         /\ \A o : InPlace(o, d) /\ (\A i \in 1..Len(ops) : Spares(ops[i], o))
                      => InPlace(o, M!PerformAll(d, ops))
         /\ \A k \in 1..Len(ops) :
                ops[k].op \in Building /\ (\A i \in 1..Len(ops) : Spares(ops[i], ops[k]))
                      => InPlace(ops[k], M!PerformAll(d, ops))
<1> DEFINE n == Len(ops)
<1>1. PICK f : /\ M!PerformAll(d, ops) = f[n] /\ f[0] = d
               /\ \A i \in 1..n : f[i] = M!Perform(f[i - 1], ops[i])
               /\ M!PerformAll(d, ops) # M!Failed => \A i \in 0..n : f[i] # M!Failed
  BY PerformAllRuns
<1>2. \A i \in 0..n : f[i] # M!Failed
  BY <1>1
<1>3. \A i \in 0..n : Grounded(f[i])
  <2> DEFINE S == {k \in Nat : Grounded(f[k])}
  <2>1. 0 \in S
    BY <1>1
  <2>2. ASSUME NEW k \in 0..(n - 1), k \in S PROVE k + 1 \in S
    <3>1. Grounded(f[k]) /\ k + 1 \in 1..n /\ f[k + 1] = M!Perform(f[k], ops[k + 1])
      BY <1>1, <2>2
    <3>2. f[k + 1] # M!Failed
      BY <1>2, <3>1
    <3>3. Grounded(f[k + 1])
      BY <3>1, <3>2, StaysGrounded
    <3> QED BY <3>3
  <2>3. 0..n \subseteq S
    <3>1. 0 \in Nat /\ n \in Nat
      OBVIOUS
    <3> HIDE DEF S, n
    <3> QED BY <3>1, <2>1, <2>2, FromTo, Zenon
  <2> QED BY <2>3
<1>4. ASSUME NEW o, \A i \in 1..n : Spares(ops[i], o), NEW m \in 0..n, InPlace(o, f[m])
      PROVE  InPlace(o, f[n])
  <2> DEFINE S == {k \in Nat : InPlace(o, f[k])}
  <2>1. m \in S
    BY <1>4
  <2>2. ASSUME NEW k \in m..(n - 1), k \in S PROVE k + 1 \in S
    <3>1. InPlace(o, f[k]) /\ k \in 0..n /\ k + 1 \in 1..n /\ f[k + 1] = M!Perform(f[k], ops[k + 1])
      BY <1>1, <2>2
    <3>2. f[k + 1] # M!Failed /\ IsDatabase(f[k]) /\ ops[k + 1].op \in Operations
      BY <3>1, <1>2, <1>3 DEF Grounded, Harmless
    <3>3. InPlace(o, f[k + 1])
      BY <3>1, <3>2, <1>4, StaysInPlace
    <3> QED BY <3>3
  <2>3. m..n \subseteq S
    <3>1. m \in Nat /\ n \in Nat
      OBVIOUS
    <3> HIDE DEF S, n
    <3> QED BY <3>1, <2>1, <2>2, FromTo, Zenon
  <2> QED BY <2>3
<1>5. ASSUME NEW k \in 1..n, ops[k].op \in Building, \A i \in 1..n : Spares(ops[i], ops[k])
      PROVE  InPlace(ops[k], f[n])
  <2>1. f[k] = M!Perform(f[k - 1], ops[k]) /\ f[k] # M!Failed /\ IsDatabase(f[k - 1]) /\ k \in 0..n
    BY <1>1, <1>2, <1>3 DEF Grounded
  <2>2. InPlace(ops[k], f[k])
    BY <2>1, <1>5, IsBuilt
  <2> QED BY <2>1, <2>2, <1>4, <1>5
<1>6. \A o : InPlace(o, d) /\ (\A i \in 1..n : Spares(ops[i], o)) => InPlace(o, f[n])
  BY <1>1, <1>4
<1>7. Grounded(f[n])
  BY <1>3
<1> QED BY <1>1, <1>5, <1>6, <1>7

-----------------------------------------------------------------------------

\* The tables of the models, by name.
LEMMA DeclaredIs ==
  /\ Tables = {"ml_model_artifacts", "users", "field_mapping_rules", "application_dedup",
               "auto_apply_profiles", "auto_apply_rules", "auto_apply_runs", "canonical_jobs",
               "raw_job_sources", "companies", "cover_letters", "email_logs", "followup_reminders",
               "interview_sessions", "jobs", "contacts", "referral_requests", "notifications",
               "application_outcomes", "company_insights", "applications",
               "application_status_history", "user_profiles", "resume_archetypes",
               "resume_versions", "salary_cache", "dedup_feedback", "scraper_runs",
               "scrape_targets", "scrape_attempts", "query_templates", "expansion_rules",
               "query_performance", "saved_searches", "user_integration_secrets", "source_registry",
               "source_check_log"}
  /\ M!Declared["ml_model_artifacts"] = M!MLModelArtifact
  /\ M!Declared["users"] = M!User
  /\ M!Declared["field_mapping_rules"] = M!FieldMappingRule
  /\ M!Declared["application_dedup"] = M!ApplicationDedup
  /\ M!Declared["auto_apply_profiles"] = M!AutoApplyProfile
  /\ M!Declared["auto_apply_rules"] = M!AutoApplyRule
  /\ M!Declared["auto_apply_runs"] = M!AutoApplyRun
  /\ M!Declared["canonical_jobs"] = M!CanonicalJob
  /\ M!Declared["raw_job_sources"] = M!RawJobSource
  /\ M!Declared["companies"] = M!Company
  /\ M!Declared["cover_letters"] = M!CoverLetter
  /\ M!Declared["email_logs"] = M!EmailLog
  /\ M!Declared["followup_reminders"] = M!FollowupReminder
  /\ M!Declared["interview_sessions"] = M!InterviewSession
  /\ M!Declared["jobs"] = M!Job
  /\ M!Declared["contacts"] = M!Contact
  /\ M!Declared["referral_requests"] = M!ReferralRequest
  /\ M!Declared["notifications"] = M!Notification
  /\ M!Declared["application_outcomes"] = M!ApplicationOutcome
  /\ M!Declared["company_insights"] = M!CompanyInsight
  /\ M!Declared["applications"] = M!Application
  /\ M!Declared["application_status_history"] = M!ApplicationStatusHistory
  /\ M!Declared["user_profiles"] = M!UserProfile
  /\ M!Declared["resume_archetypes"] = M!ResumeArchetype
  /\ M!Declared["resume_versions"] = M!ResumeVersion
  /\ M!Declared["salary_cache"] = M!SalaryCache
  /\ M!Declared["dedup_feedback"] = M!DedupFeedback
  /\ M!Declared["scraper_runs"] = M!ScraperRun
  /\ M!Declared["scrape_targets"] = M!ScrapeTarget
  /\ M!Declared["scrape_attempts"] = M!ScrapeAttempt
  /\ M!Declared["query_templates"] = M!QueryTemplate
  /\ M!Declared["expansion_rules"] = M!ExpansionRule
  /\ M!Declared["query_performance"] = M!QueryPerformance
  /\ M!Declared["saved_searches"] = M!SavedSearch
  /\ M!Declared["user_integration_secrets"] = M!UserIntegrationSecret
  /\ M!Declared["source_registry"] = M!SourceRegistry
  /\ M!Declared["source_check_log"] = M!SourceCheckLog
BY DEF Tables, M!Declared

\* An operation that creates a table, and one that creates it as the models declare it.
Makes(o, t)  == o.op \in {"create", "ensure"} /\ o.table = t /\ IsTable(o.spec)
Begins(o, t) == Makes(o, t) /\ (t \in Tables => StartsAs(t, o.spec))

\* The columns the later revisions add.
LEMMA Later ==
  /\ \A c \in M!CompanyColumns : LaterColumn("companies", c)
  /\ \A c \in M!RegistryColumns : LaterColumn("source_registry", c)
  /\ \A c \in M!ProfileColumns : LaterColumn("user_profiles", c)
  /\ \A c \in {"last_checked_at"} \cup M!AlertColumns : LaterColumn("saved_searches", c)
  /\ \A c \in M!LifecycleColumns \cup M!AtsColumns : LaterColumn("jobs", c)
  /\ \A c \in M!TierColumns : LaterColumn("scraper_runs", c)
  /\ LaterColumn("users", "token_version")
  /\ \A c \in M!AttemptColumns : LaterColumn("scrape_attempts", c)
  /\ \A c \in M!SecretColumns : LaterColumn("user_integration_secrets", c)
  /\ \A c \in M!ProvenanceColumns : LaterColumn("email_logs", c)
  /\ LaterColumn("auto_apply_runs", "review_items")
BY DEF LaterColumn, Additions, M!AddColumns

\* The tables the revisions create.
LEMMA Creations ==
  /\ Makes(M!CreateUsers, "users")
  /\ Makes(M!CreateJobs, "jobs")
  /\ Makes(M!CreateSavedSearches, "saved_searches")
  /\ Makes(M!CreateScraperRuns, "scraper_runs")
  /\ Makes(M!CreateCareerPages, "career_pages")
  /\ Makes(M!CreateUserProfiles, "user_profiles")
  /\ Makes(M!CreateResumeVersions, "resume_versions")
  /\ Makes(M!CreateApplications, "applications")
  /\ Makes(M!CreateApplicationStatusHistory, "application_status_history")
  /\ Makes(M!CreateAutoApplyProfiles, "auto_apply_profiles")
  /\ Makes(M!CreateAutoApplyRules, "auto_apply_rules")
  /\ Makes(M!CreateAutoApplyRuns, "auto_apply_runs")
  /\ Makes(M!CreateCoverLetters, "cover_letters")
  /\ Makes(M!CreateInterviewSessions, "interview_sessions")
  /\ Makes(M!CreateSalaryCache, "salary_cache")
  /\ Makes(M!CreateCompanies, "companies")
  /\ Makes(M!CreateSourceRegistry, "source_registry")
  /\ Makes(M!CreateSourceCheckLog, "source_check_log")
  /\ Makes(M!CreateNotifications, "notifications")
  /\ Makes(M!CreateCanonicalJobs, "canonical_jobs")
  /\ Makes(M!CreateRawJobSources, "raw_job_sources")
  /\ Makes(M!CreateFollowupReminders, "followup_reminders")
  /\ Makes(M!CreateQueryTemplates, "query_templates")
  /\ Makes(M!CreateExpansionRules, "expansion_rules")
  /\ Makes(M!CreateQueryPerformance, "query_performance")
  /\ Makes(M!CreateScrapeTargets, "scrape_targets")
  /\ Makes(M!CreateScrapeAttempts, "scrape_attempts")
  /\ Makes(M!RecreateCareerPages, "career_pages")
  /\ Makes(M!CreateEmailLogs, "email_logs")
  /\ Makes(M!CreateContacts, "contacts")
  /\ Makes(M!CreateReferralRequests, "referral_requests")
  /\ Makes(M!CreateResumeArchetypes, "resume_archetypes")
  /\ Makes(M!CreateDedupFeedback, "dedup_feedback")
  /\ Makes(M!CreateFieldMappingRules, "field_mapping_rules")
  /\ Makes(M!CreateApplicationDedup, "application_dedup")
  /\ Makes(M!EnsureResumeArchetypes, "resume_archetypes")
  /\ Makes(M!EnsureFieldMappingRules, "field_mapping_rules")
  /\ Makes(M!EnsureApplicationDedup, "application_dedup")
  /\ Makes(M!EnsureDedupFeedback, "dedup_feedback")
  /\ Makes(M!EnsureEmailLogs, "email_logs")
  /\ Makes(M!EnsureContacts, "contacts")
  /\ Makes(M!EnsureReferralRequests, "referral_requests")
  /\ Makes(M!EnsureMlModelArtifacts, "ml_model_artifacts")
  /\ Makes(M!EnsureApplicationOutcomes, "application_outcomes")
  /\ Makes(M!EnsureCompanyInsights, "company_insights")
  /\ Makes(M!CreateUserIntegrationSecrets, "user_integration_secrets")
BY DEF Makes, M!Create, M!Ensure, M!Table, IsTable, M!CreateUsers, M!CreateJobs,
       M!CreateSavedSearches,
       M!CreateScraperRuns, M!CreateCareerPages, M!CreateUserProfiles, M!CreateResumeVersions,
       M!CreateApplications, M!CreateApplicationStatusHistory, M!CreateAutoApplyProfiles,
       M!CreateAutoApplyRules, M!CreateAutoApplyRuns, M!CreateCoverLetters,
       M!CreateInterviewSessions, M!CreateSalaryCache, M!CreateCompanies, M!CreateSourceRegistry,
       M!CreateSourceCheckLog, M!CreateNotifications, M!CreateCanonicalJobs,
       M!CreateRawJobSources, M!CreateFollowupReminders, M!CreateQueryTemplates,
       M!CreateExpansionRules, M!CreateQueryPerformance, M!CreateScrapeTargets,
       M!CreateScrapeAttempts, M!RecreateCareerPages, M!CreateEmailLogs, M!CreateContacts,
       M!CreateReferralRequests, M!CreateResumeArchetypes, M!CreateDedupFeedback,
       M!CreateFieldMappingRules, M!CreateApplicationDedup, M!EnsureResumeArchetypes,
       M!EnsureFieldMappingRules, M!EnsureApplicationDedup, M!EnsureDedupFeedback,
       M!EnsureEmailLogs, M!EnsureContacts, M!EnsureReferralRequests, M!EnsureMlModelArtifacts,
       M!EnsureApplicationOutcomes, M!EnsureCompanyInsights, M!CreateUserIntegrationSecrets

\* Every table is created as the models declare it, up to what a later revision adds.
LEMMA Beginnings ==
  /\ Begins(M!CreateUsers, "users")
  /\ Begins(M!CreateJobs, "jobs")
  /\ Begins(M!CreateSavedSearches, "saved_searches")
  /\ Begins(M!CreateScraperRuns, "scraper_runs")
  /\ Begins(M!CreateCareerPages, "career_pages")
  /\ Begins(M!CreateUserProfiles, "user_profiles")
  /\ Begins(M!CreateResumeVersions, "resume_versions")
  /\ Begins(M!CreateApplications, "applications")
  /\ Begins(M!CreateApplicationStatusHistory, "application_status_history")
  /\ Begins(M!CreateAutoApplyProfiles, "auto_apply_profiles")
  /\ Begins(M!CreateAutoApplyRules, "auto_apply_rules")
  /\ Begins(M!CreateAutoApplyRuns, "auto_apply_runs")
  /\ Begins(M!CreateCoverLetters, "cover_letters")
  /\ Begins(M!CreateInterviewSessions, "interview_sessions")
  /\ Begins(M!CreateSalaryCache, "salary_cache")
  /\ Begins(M!CreateCompanies, "companies")
  /\ Begins(M!CreateSourceRegistry, "source_registry")
  /\ Begins(M!CreateSourceCheckLog, "source_check_log")
  /\ Begins(M!CreateNotifications, "notifications")
  /\ Begins(M!CreateCanonicalJobs, "canonical_jobs")
  /\ Begins(M!CreateRawJobSources, "raw_job_sources")
  /\ Begins(M!CreateFollowupReminders, "followup_reminders")
  /\ Begins(M!CreateQueryTemplates, "query_templates")
  /\ Begins(M!CreateExpansionRules, "expansion_rules")
  /\ Begins(M!CreateQueryPerformance, "query_performance")
  /\ Begins(M!CreateScrapeTargets, "scrape_targets")
  /\ Begins(M!CreateScrapeAttempts, "scrape_attempts")
  /\ Begins(M!RecreateCareerPages, "career_pages")
  /\ Begins(M!CreateEmailLogs, "email_logs")
  /\ Begins(M!CreateContacts, "contacts")
  /\ Begins(M!CreateReferralRequests, "referral_requests")
  /\ Begins(M!CreateResumeArchetypes, "resume_archetypes")
  /\ Begins(M!CreateDedupFeedback, "dedup_feedback")
  /\ Begins(M!CreateFieldMappingRules, "field_mapping_rules")
  /\ Begins(M!CreateApplicationDedup, "application_dedup")
  /\ Begins(M!EnsureResumeArchetypes, "resume_archetypes")
  /\ Begins(M!EnsureFieldMappingRules, "field_mapping_rules")
  /\ Begins(M!EnsureApplicationDedup, "application_dedup")
  /\ Begins(M!EnsureDedupFeedback, "dedup_feedback")
  /\ Begins(M!EnsureEmailLogs, "email_logs")
  /\ Begins(M!EnsureContacts, "contacts")
  /\ Begins(M!EnsureReferralRequests, "referral_requests")
  /\ Begins(M!EnsureMlModelArtifacts, "ml_model_artifacts")
  /\ Begins(M!EnsureApplicationOutcomes, "application_outcomes")
  /\ Begins(M!EnsureCompanyInsights, "company_insights")
  /\ Begins(M!CreateUserIntegrationSecrets, "user_integration_secrets")
<1> USE DeclaredIs, Later
    DEF StartsAs, M!Create, M!Ensure, M!Table, M!Owner, M!NeverCreated, LaterKey, LaterUnique,
         Audited
<1>1. StartsAs("users", M!CreateUsers.spec)
  BY DEF M!CreateUsers, M!User
<1>2. StartsAs("jobs", M!CreateJobs.spec)
  BY DEF M!CreateJobs, M!Job, M!LifecycleColumns, M!AtsColumns
<1>3. StartsAs("saved_searches", M!CreateSavedSearches.spec)
  BY DEF M!CreateSavedSearches, M!SavedSearch, M!AlertColumns
<1>4. StartsAs("scraper_runs", M!CreateScraperRuns.spec)
  BY DEF M!CreateScraperRuns, M!ScraperRun, M!TierColumns
<1>5. StartsAs("user_profiles", M!CreateUserProfiles.spec)
  BY DEF M!CreateUserProfiles, M!UserProfile, M!ProfileColumns
<1>6. StartsAs("resume_versions", M!CreateResumeVersions.spec)
  BY DEF M!CreateResumeVersions, M!ResumeVersion
<1>7. StartsAs("applications", M!CreateApplications.spec)
  BY DEF M!CreateApplications, M!Application
<1>8. StartsAs("application_status_history", M!CreateApplicationStatusHistory.spec)
  BY DEF M!CreateApplicationStatusHistory, M!ApplicationStatusHistory
<1>9. StartsAs("auto_apply_profiles", M!CreateAutoApplyProfiles.spec)
  BY DEF M!CreateAutoApplyProfiles, M!AutoApplyProfile
<1>10. StartsAs("auto_apply_rules", M!CreateAutoApplyRules.spec)
  BY DEF M!CreateAutoApplyRules, M!AutoApplyRule
<1>11. StartsAs("auto_apply_runs", M!CreateAutoApplyRuns.spec)
  BY DEF M!CreateAutoApplyRuns, M!AutoApplyRun
<1>12. StartsAs("cover_letters", M!CreateCoverLetters.spec)
  BY DEF M!CreateCoverLetters, M!CoverLetter
<1>13. StartsAs("interview_sessions", M!CreateInterviewSessions.spec)
  BY DEF M!CreateInterviewSessions, M!InterviewSession
<1>14. StartsAs("salary_cache", M!CreateSalaryCache.spec)
  BY DEF M!CreateSalaryCache, M!SalaryCache
<1>15. StartsAs("companies", M!CreateCompanies.spec)
  BY DEF M!CreateCompanies, M!Company, M!CompanyColumns
<1>16. StartsAs("source_registry", M!CreateSourceRegistry.spec)
  BY DEF M!CreateSourceRegistry, M!SourceRegistry, M!RegistryColumns
<1>17. StartsAs("source_check_log", M!CreateSourceCheckLog.spec)
  BY DEF M!CreateSourceCheckLog, M!SourceCheckLog
<1>18. StartsAs("notifications", M!CreateNotifications.spec)
  BY DEF M!CreateNotifications, M!Notification
<1>19. StartsAs("canonical_jobs", M!CreateCanonicalJobs.spec)
  BY DEF M!CreateCanonicalJobs, M!CanonicalJob
<1>20. StartsAs("raw_job_sources", M!CreateRawJobSources.spec)
  BY DEF M!CreateRawJobSources, M!RawJobSource
<1>21. StartsAs("followup_reminders", M!CreateFollowupReminders.spec)
  BY DEF M!CreateFollowupReminders, M!FollowupReminder
<1>22. StartsAs("query_templates", M!CreateQueryTemplates.spec)
  BY DEF M!CreateQueryTemplates, M!QueryTemplate
<1>23. StartsAs("expansion_rules", M!CreateExpansionRules.spec)
  BY DEF M!CreateExpansionRules, M!ExpansionRule
<1>24. StartsAs("query_performance", M!CreateQueryPerformance.spec)
  BY DEF M!CreateQueryPerformance, M!QueryPerformance
<1>25. StartsAs("scrape_targets", M!CreateScrapeTargets.spec)
  BY DEF M!CreateScrapeTargets, M!ScrapeTarget
<1>26. StartsAs("scrape_attempts", M!CreateScrapeAttempts.spec)
  BY DEF M!CreateScrapeAttempts, M!ScrapeAttempt, M!AttemptColumns
<1>27. StartsAs("email_logs", M!CreateEmailLogs.spec)
  BY DEF M!CreateEmailLogs, M!EmailLog, M!ProvenanceColumns
<1>28. StartsAs("contacts", M!CreateContacts.spec)
  BY DEF M!CreateContacts, M!Contact
<1>29. StartsAs("referral_requests", M!CreateReferralRequests.spec)
  BY DEF M!CreateReferralRequests, M!ReferralRequest
<1>30. StartsAs("resume_archetypes", M!CreateResumeArchetypes.spec)
  BY DEF M!CreateResumeArchetypes, M!ResumeArchetype
<1>31. StartsAs("dedup_feedback", M!CreateDedupFeedback.spec)
  BY DEF M!CreateDedupFeedback, M!DedupFeedback
<1>32. StartsAs("field_mapping_rules", M!CreateFieldMappingRules.spec)
  BY DEF M!CreateFieldMappingRules, M!FieldMappingRule
<1>33. StartsAs("application_dedup", M!CreateApplicationDedup.spec)
  BY DEF M!CreateApplicationDedup, M!ApplicationDedup
<1>34. StartsAs("resume_archetypes", M!EnsureResumeArchetypes.spec)
  BY DEF M!EnsureResumeArchetypes, M!ResumeArchetype
<1>35. StartsAs("field_mapping_rules", M!EnsureFieldMappingRules.spec)
  BY DEF M!EnsureFieldMappingRules, M!FieldMappingRule
<1>36. StartsAs("application_dedup", M!EnsureApplicationDedup.spec)
  BY DEF M!EnsureApplicationDedup, M!ApplicationDedup
<1>37. StartsAs("dedup_feedback", M!EnsureDedupFeedback.spec)
  BY DEF M!EnsureDedupFeedback, M!DedupFeedback
<1>38. StartsAs("email_logs", M!EnsureEmailLogs.spec)
  BY DEF M!EnsureEmailLogs, M!EmailLog, M!ProvenanceColumns
<1>39. StartsAs("contacts", M!EnsureContacts.spec)
  BY DEF M!EnsureContacts, M!Contact
<1>40. StartsAs("referral_requests", M!EnsureReferralRequests.spec)
  BY DEF M!EnsureReferralRequests, M!ReferralRequest
<1>41. StartsAs("ml_model_artifacts", M!EnsureMlModelArtifacts.spec)
  BY DEF M!EnsureMlModelArtifacts, M!MLModelArtifact
<1>42. StartsAs("application_outcomes", M!EnsureApplicationOutcomes.spec)
  BY DEF M!EnsureApplicationOutcomes, M!ApplicationOutcome
<1>43. StartsAs("company_insights", M!EnsureCompanyInsights.spec)
  BY DEF M!EnsureCompanyInsights, M!CompanyInsight
<1>44. StartsAs("user_integration_secrets", M!CreateUserIntegrationSecrets.spec)
  BY DEF M!CreateUserIntegrationSecrets, M!UserIntegrationSecret, M!SecretColumns
<1> HIDE DEF StartsAs
<1>45. "career_pages" \notin Tables
  BY DeclaredIs
<1> QED BY <1>1, <1>2, <1>3, <1>4, <1>5, <1>6, <1>7, <1>8, <1>9, <1>10, <1>11, <1>12, <1>13,
           <1>14, <1>15, <1>16, <1>17, <1>18, <1>19, <1>20, <1>21, <1>22, <1>23, <1>24, <1>25,
           <1>26, <1>27, <1>28, <1>29, <1>30, <1>31, <1>32, <1>33, <1>34, <1>35, <1>36, <1>37,
           <1>38, <1>39, <1>40, <1>41, <1>42, <1>43, <1>44, <1>45, Creations DEF Begins

-----------------------------------------------------------------------------
\* The operations of a revision's upgrade or downgrade.
Made(ops) == {ops[i] : i \in 1..Len(ops)}

\* How far a revision is from the first one, and the first revision that surely leaves a table
\* behind.
Rank(r) ==
    CASE r = "001" -> 1
      [] r = "002" -> 2
      [] r = "003" -> 3
      [] r = "scrape_targets" -> 4
      [] r = "attempt_indexes" -> 5
      [] r = "job_lifecycle" -> 6
      [] r = "career_pages" -> 7
      [] r = "audit_fixes" -> 8
      [] r \in M!Branches -> 9
      [] r = "merge_heads" -> 10
      [] r = "005" -> 11
      [] r = "integration_secrets" -> 12
      [] r = "ats_identity" -> 13
      [] r = "saved_search_alerts" -> 14
      [] r = "google_integration" -> 15
      [] r = "auto_apply_review" -> 16
TableRank(t) ==
    CASE t = "users" -> 1
      [] t \in {"jobs", "saved_searches", "scraper_runs", "user_profiles", "resume_versions",
                "applications", "application_status_history", "auto_apply_profiles",
                "auto_apply_rules", "auto_apply_runs", "cover_letters", "interview_sessions",
                "salary_cache", "companies", "source_registry", "source_check_log"} -> 2
      [] t \in {"notifications", "canonical_jobs", "raw_job_sources", "followup_reminders",
                "query_templates", "expansion_rules", "query_performance"} -> 3
      [] t \in {"scrape_targets", "scrape_attempts"} -> 4
      [] t \in {"resume_archetypes", "field_mapping_rules", "application_dedup", "dedup_feedback",
                "email_logs", "contacts", "referral_requests", "ml_model_artifacts",
                "application_outcomes", "company_insights"} -> 11
      [] t = "user_integration_secrets" -> 12

\* What a revision alters of tables that exist already.
Alterations(r) ==
    CASE r = "003" ->
           {M!AddColumns("companies", M!CompanyColumns),
            M!AddColumns("source_registry", M!RegistryColumns),
            M!AddColumns("user_profiles", M!ProfileColumns),
            M!AddColumns("saved_searches", {"last_checked_at"})}
      [] r = "job_lifecycle" ->
           {M!AddColumns("jobs", M!LifecycleColumns),
            M!SetForeignKey("jobs", "source_target_id", "scrape_targets", M!NoAction),
            M!AddColumns("scraper_runs", M!TierColumns)}
      [] r = "audit_fixes" ->
           {M!AddColumns("users", {"token_version"}),
            M!AddColumns("scrape_attempts", M!AttemptColumns)}
           \cup {M!SetForeignKey(t, "job_id", "jobs", M!SetNull) : t \in Audited}
      [] r = "ats_identity" ->
           {M!AddColumns("jobs", M!AtsColumns), M!AddUnique("jobs", {"ats_composite_key"})}
      [] r = "saved_search_alerts" -> {M!AddColumns("saved_searches", M!AlertColumns)}
      [] r = "google_integration" ->
           {M!AddColumns("user_integration_secrets", M!SecretColumns),
            M!AddColumns("email_logs", M!ProvenanceColumns)}
      [] r = "auto_apply_review" -> {M!AddColumns("auto_apply_runs", {"review_items"})}
      [] OTHER -> {}

\* The kinds of operation an upgrade consists of: none takes away what another has built.
Gentle(o) ==
    \/ o.op \in {"create", "ensure", "add", "unique", "move", "refuse"}
    \/ o.op = "drop" /\ o.table \notin Tables
    \/ o.op = "fk" /\ \E t \in Audited : o = M!SetForeignKey(t, "job_id", "jobs", M!SetNull)
    \/ o = M!SetForeignKey("jobs", "source_target_id", "scrape_targets", M!NoAction)

\* An operation of the upgrade of a revision.  A table counts from the first revision that
\* surely leaves it behind: the branches may be stamped and not executed.
UpStep(r, o) ==
    /\ Harmless(o) /\ Gentle(o)
    /\ r \notin M!Branches /\ Builds(o) => TableRank(o.table) <= Rank(r)
    /\ o.op \in {"add", "fk", "unique"} => o \in Alterations(r)

\* What the revisions before a given one, but for the branches, build; and an operation of
\* its downgrade, which spares that.
Earlier(o, r) == \E q \in M!Revisions \ M!Branches : Rank(q) < Rank(r) /\ Builds(o) /\ UpStep(q, o)
DownStep(r, p) == Harmless(p) /\ \A o : Earlier(o, r) => Spares(p, o)

\* No operation of an upgrade takes away what an operation of an upgrade has built.
LEMMA GentleSpares ==
  ASSUME NEW p, Gentle(p), NEW o, Gentle(o), Builds(o)
  PROVE  Spares(p, o)
BY DEF Gentle, Spares, Builds, Building, M!SetForeignKey

\* The rank of each revision.
LEMMA RankIs ==
  /\ Rank("001") = 1
  /\ Rank("002") = 2
  /\ Rank("003") = 3
  /\ Rank("scrape_targets") = 4
  /\ Rank("attempt_indexes") = 5
  /\ Rank("job_lifecycle") = 6
  /\ Rank("career_pages") = 7
  /\ Rank("audit_fixes") = 8
  /\ \A b \in M!Branches : Rank(b) = 9
  /\ Rank("merge_heads") = 10
  /\ Rank("005") = 11
  /\ Rank("integration_secrets") = 12
  /\ Rank("ats_identity") = 13
  /\ Rank("saved_search_alerts") = 14
  /\ Rank("google_integration") = 15
  /\ Rank("auto_apply_review") = 16
BY DEF Rank, M!Branches

\* The rank of each table.
LEMMA TableRankIs ==
  /\ \A t \in {"users"} : TableRank(t) = 1
  /\ \A t \in {"jobs", "saved_searches", "scraper_runs", "user_profiles",
              "resume_versions", "applications", "application_status_history",
              "auto_apply_profiles", "auto_apply_rules", "auto_apply_runs",
              "cover_letters", "interview_sessions", "salary_cache", "companies",
              "source_registry", "source_check_log"} : TableRank(t) = 2
  /\ \A t \in {"notifications", "canonical_jobs", "raw_job_sources",
              "followup_reminders", "query_templates", "expansion_rules",
              "query_performance"} : TableRank(t) = 3
  /\ \A t \in {"scrape_targets", "scrape_attempts"} : TableRank(t) = 4
  /\ \A t \in {"resume_archetypes", "field_mapping_rules", "application_dedup",
              "dedup_feedback", "email_logs", "contacts", "referral_requests",
              "ml_model_artifacts", "application_outcomes", "company_insights"} :
              TableRank(t) = 11
  /\ \A t \in {"user_integration_secrets"} : TableRank(t) = 12
  /\ \A t \in Tables : TableRank(t) \in Nat
  /\ "career_pages" \notin Tables
<1>1. Tables = {"ml_model_artifacts", "users", "field_mapping_rules", "application_dedup",
                "auto_apply_profiles", "auto_apply_rules", "auto_apply_runs", "canonical_jobs",
                "raw_job_sources", "companies", "cover_letters", "email_logs", "followup_reminders",
                "interview_sessions", "jobs", "contacts", "referral_requests", "notifications",
                "application_outcomes", "company_insights", "applications",
                "application_status_history", "user_profiles", "resume_archetypes",
                "resume_versions", "salary_cache", "dedup_feedback", "scraper_runs",
                "scrape_targets", "scrape_attempts", "query_templates", "expansion_rules",
                "query_performance", "saved_searches", "user_integration_secrets",
                "source_registry", "source_check_log"}
  BY DeclaredIs
<1> QED BY <1>1 DEF TableRank

\* A creation is a step of an upgrade.
LEMMA Creation ==
  ASSUME NEW o, NEW t, Begins(o, t), NEW r,
         t \in Tables => r \in M!Branches \/ TableRank(t) <= Rank(r)
  PROVE  UpStep(r, o)
BY DEF Begins, Makes, UpStep, Harmless, Gentle, Operations, Builds, Building

\* A dropped table is of no earlier revision.
LEMMA Dropping ==
  ASSUME NEW t, NEW r \in M!Revisions, t \in Tables => TableRank(t) >= Rank(r)
  PROVE  DownStep(r, M!Drop(t))
<1>1. Harmless(M!Drop(t))
  BY DEF Harmless, M!Drop, Operations
<1>2. ASSUME NEW o, Earlier(o, r) PROVE Spares(M!Drop(t), o)
  <2>1. PICK q \in M!Revisions \ M!Branches : Rank(q) < Rank(r) /\ Builds(o) /\ UpStep(q, o)
    BY <1>2 DEF Earlier
  <2>2. o.table \in Tables /\ TableRank(o.table) <= Rank(q)
    BY <2>1 DEF UpStep, Builds, Building
  <2>3. \A s \in M!Revisions : Rank(s) \in Nat
    BY RankIs DEF M!Revisions
  <2>4. t # o.table
    BY <2>1, <2>2, <2>3, TableRankIs
  <2> QED BY <2>4 DEF Spares, M!Drop
<1> QED BY <1>1, <1>2 DEF DownStep

\* Added columns are a step of an upgrade.
LEMMA Adding ==
  ASSUME NEW t, NEW cs, NEW r, M!AddColumns(t, cs) \in Alterations(r),
         t \in Tables => r \in M!Branches \/ TableRank(t) <= Rank(r)
  PROVE  UpStep(r, M!AddColumns(t, cs))
BY DEF M!AddColumns, UpStep, Harmless, Gentle, Operations, Builds, Building

\* What the upgrade of each revision consists of.
LEMMA Upgrades ==
  ASSUME NEW r \in M!Revisions
  PROVE  Len(M!Up(r)) \in Nat /\ \A o \in Made(M!Up(r)) : UpStep(r, o)
<1>1. CASE r = "001"
  <2>1. M!Up(r) = M!Up001 /\ Len(M!Up001) \in Nat
    BY <1>1 DEF M!Up, M!Branches, M!Up001
  <2>2. \A o \in {M!CreateUsers} : UpStep(r, o)
    BY <1>1, Beginnings, Creation, RankIs, TableRankIs DEF M!Branches
  <2> QED BY <2>1, <2>2 DEF Made, M!Up001
<1>2. CASE r = "002"
  <2>1. M!Up(r) = M!Up002 /\ Len(M!Up002) \in Nat
    BY <1>2 DEF M!Up, M!Branches, M!Up002
  <2>2. \A o \in {M!CreateJobs, M!CreateSavedSearches, M!CreateScraperRuns, M!CreateCareerPages,
                  M!CreateUserProfiles, M!CreateResumeVersions, M!CreateApplications,
                  M!CreateApplicationStatusHistory, M!CreateAutoApplyProfiles,
                  M!CreateAutoApplyRules, M!CreateAutoApplyRuns, M!CreateCoverLetters,
                  M!CreateInterviewSessions, M!CreateSalaryCache, M!CreateCompanies,
                  M!CreateSourceRegistry, M!CreateSourceCheckLog} : UpStep(r, o)
    BY <1>2, Beginnings, Creation, RankIs, TableRankIs DEF M!Branches
  <2> QED BY <2>1, <2>2 DEF Made, M!Up002
<1>3. CASE r = "003"
  <2>1. M!Up(r) = M!Up003 /\ Len(M!Up003) \in Nat
    BY <1>3 DEF M!Up, M!Branches, M!Up003
  <2>2. \A o \in {M!CreateNotifications, M!CreateCanonicalJobs, M!CreateRawJobSources,
                  M!CreateFollowupReminders, M!CreateQueryTemplates, M!CreateExpansionRules,
                  M!CreateQueryPerformance} : UpStep(r, o)
    BY <1>3, Beginnings, Creation, RankIs, TableRankIs DEF M!Branches
  <2>3. /\ UpStep(r, M!AddColumns("companies", M!CompanyColumns))
        /\ UpStep(r, M!AddColumns("source_registry", M!RegistryColumns))
        /\ UpStep(r, M!AddColumns("user_profiles", M!ProfileColumns))
        /\ UpStep(r, M!AddColumns("saved_searches", {"last_checked_at"}))
    BY <1>3, Adding, RankIs, TableRankIs DEF Alterations
  <2> QED BY <2>1, <2>2, <2>3 DEF Made, M!Up003
<1>4. CASE r = "scrape_targets"
  <2>1. M!Up(r) = M!UpTargets /\ Len(M!UpTargets) \in Nat
    BY <1>4 DEF M!Up, M!Branches, M!UpTargets
  <2>2. \A o \in {M!CreateScrapeTargets, M!CreateScrapeAttempts} : UpStep(r, o)
    BY <1>4, Beginnings, Creation, RankIs, TableRankIs DEF M!Branches
  <2> QED BY <2>1, <2>2 DEF Made, M!UpTargets
<1>5. CASE r = "job_lifecycle"
  <2>1. M!Up(r) = M!UpLifecycle /\ Len(M!UpLifecycle) \in Nat
    BY <1>5 DEF M!Up, M!Branches, M!UpLifecycle
  <2>2. /\ UpStep(r, M!AddColumns("jobs", M!LifecycleColumns))
        /\ UpStep(r, M!AddColumns("scraper_runs", M!TierColumns))
    BY <1>5, Adding, RankIs, TableRankIs DEF Alterations
  <2>3. UpStep(r, M!SetForeignKey("jobs", "source_target_id", "scrape_targets", M!NoAction))
    BY <1>5, RankIs, TableRankIs DEF M!SetForeignKey, UpStep, Harmless, Gentle, Operations, Builds,
       Building, Alterations, LaterKey
  <2> QED BY <2>1, <2>2, <2>3 DEF Made, M!UpLifecycle
<1>6. CASE r = "career_pages"
  <2>1. M!Up(r) = M!UpCareerPages /\ Len(M!UpCareerPages) \in Nat
    BY <1>6 DEF M!Up, M!Branches, M!UpCareerPages
  <2>2. UpStep(r, M!MoveCareerPages) /\ UpStep(r, M!Drop("career_pages"))
    BY DeclaredIs DEF M!MoveCareerPages, M!Move, M!Refuse, M!Drop, UpStep, Harmless, Gentle,
       Operations, Builds, Building
  <2> QED BY <2>1, <2>2 DEF Made, M!UpCareerPages
<1>7. CASE r = "audit_fixes"
  <2>1. M!Up(r) = M!UpAudit /\ Len(M!UpAudit) \in Nat
    BY <1>7 DEF M!Up, M!Branches, M!UpAudit, M!AuditedForeignKeys
  <2>2. /\ UpStep(r, M!AddColumns("users", {"token_version"}))
        /\ UpStep(r, M!AddColumns("scrape_attempts", M!AttemptColumns))
    BY <1>7, Adding, RankIs, TableRankIs DEF Alterations
  <2>3. \A t \in Audited : UpStep(r, M!SetForeignKey(t, "job_id", "jobs", M!SetNull))
    BY <1>7, RankIs, TableRankIs DEF M!SetForeignKey, UpStep, Harmless, Gentle, Operations, Builds,
       Building, Alterations, LaterKey, Audited
  <2> QED BY <2>1, <2>2, <2>3 DEF Made, M!UpAudit, M!AuditedForeignKeys, Audited
<1>8. CASE r = "004"
  <2>1. M!Up(r) = M!UpEmail /\ Len(M!UpEmail) \in Nat
    BY <1>8 DEF M!Up, M!Branches, M!UpEmail
  <2>2. \A o \in {M!CreateEmailLogs} : UpStep(r, o)
    BY <1>8, Beginnings, Creation, RankIs, TableRankIs DEF M!Branches
  <2> QED BY <2>1, <2>2 DEF Made, M!UpEmail
<1>9. CASE r = "networking"
  <2>1. M!Up(r) = M!UpNetworking /\ Len(M!UpNetworking) \in Nat
    BY <1>9 DEF M!Up, M!Branches, M!UpNetworking
  <2>2. \A o \in {M!CreateContacts, M!CreateReferralRequests} : UpStep(r, o)
    BY <1>9, Beginnings, Creation, RankIs, TableRankIs DEF M!Branches
  <2> QED BY <2>1, <2>2 DEF Made, M!UpNetworking
<1>10. CASE r = "archetypes"
  <2>1. M!Up(r) = M!UpArchetypes /\ Len(M!UpArchetypes) \in Nat
    BY <1>10 DEF M!Up, M!Branches, M!UpArchetypes
  <2>2. \A o \in {M!CreateResumeArchetypes} : UpStep(r, o)
    BY <1>10, Beginnings, Creation, RankIs, TableRankIs DEF M!Branches
  <2> QED BY <2>1, <2>2 DEF Made, M!UpArchetypes
<1>11. CASE r = "dedup_feedback"
  <2>1. M!Up(r) = M!UpFeedback /\ Len(M!UpFeedback) \in Nat
    BY <1>11 DEF M!Up, M!Branches, M!UpFeedback
  <2>2. \A o \in {M!CreateDedupFeedback} : UpStep(r, o)
    BY <1>11, Beginnings, Creation, RankIs, TableRankIs DEF M!Branches
  <2> QED BY <2>1, <2>2 DEF Made, M!UpFeedback
<1>12. CASE r = "form_learning"
  <2>1. M!Up(r) = M!UpFormLearning /\ Len(M!UpFormLearning) \in Nat
    BY <1>12 DEF M!Up, M!Branches, M!UpFormLearning
  <2>2. \A o \in {M!CreateFieldMappingRules, M!CreateApplicationDedup} : UpStep(r, o)
    BY <1>12, Beginnings, Creation, RankIs, TableRankIs DEF M!Branches
  <2> QED BY <2>1, <2>2 DEF Made, M!UpFormLearning
<1>13. CASE r = "005"
  <2>1. M!Up(r) = M!Up005 /\ Len(M!Up005) \in Nat
    BY <1>13 DEF M!Up, M!Branches, M!Up005
  <2>2. \A o \in {M!EnsureResumeArchetypes, M!EnsureFieldMappingRules, M!EnsureApplicationDedup,
                  M!EnsureDedupFeedback, M!EnsureEmailLogs, M!EnsureContacts,
                  M!EnsureReferralRequests, M!EnsureMlModelArtifacts, M!EnsureApplicationOutcomes,
                  M!EnsureCompanyInsights} : UpStep(r, o)
    BY <1>13, Beginnings, Creation, RankIs, TableRankIs DEF M!Branches
  <2> QED BY <2>1, <2>2 DEF Made, M!Up005
<1>14. CASE r = "integration_secrets"
  <2>1. M!Up(r) = M!UpSecrets /\ Len(M!UpSecrets) \in Nat
    BY <1>14 DEF M!Up, M!Branches, M!UpSecrets
  <2>2. \A o \in {M!CreateUserIntegrationSecrets} : UpStep(r, o)
    BY <1>14, Beginnings, Creation, RankIs, TableRankIs DEF M!Branches
  <2> QED BY <2>1, <2>2 DEF Made, M!UpSecrets
<1>15. CASE r = "ats_identity"
  <2>1. M!Up(r) = M!UpAts /\ Len(M!UpAts) \in Nat
    BY <1>15 DEF M!Up, M!Branches, M!UpAts
  <2>2. /\ UpStep(r, M!AddColumns("jobs", M!AtsColumns))
    BY <1>15, Adding, RankIs, TableRankIs DEF Alterations
  <2>3. UpStep(r, M!AddUnique("jobs", {"ats_composite_key"}))
    BY <1>15, RankIs, TableRankIs DEF M!AddUnique, UpStep, Harmless, Gentle, Operations, Builds,
       Building, Alterations, LaterUnique
  <2> QED BY <2>1, <2>2, <2>3 DEF Made, M!UpAts
<1>16. CASE r = "saved_search_alerts"
  <2>1. M!Up(r) = M!UpAlerts /\ Len(M!UpAlerts) \in Nat
    BY <1>16 DEF M!Up, M!Branches, M!UpAlerts
  <2>2. /\ UpStep(r, M!AddColumns("saved_searches", M!AlertColumns))
    BY <1>16, Adding, RankIs, TableRankIs DEF Alterations
  <2> QED BY <2>1, <2>2 DEF Made, M!UpAlerts
<1>17. CASE r = "google_integration"
  <2>1. M!Up(r) = M!UpGoogle /\ Len(M!UpGoogle) \in Nat
    BY <1>17 DEF M!Up, M!Branches, M!UpGoogle
  <2>2. /\ UpStep(r, M!AddColumns("user_integration_secrets", M!SecretColumns))
        /\ UpStep(r, M!AddColumns("email_logs", M!ProvenanceColumns))
    BY <1>17, Adding, RankIs, TableRankIs DEF Alterations
  <2> QED BY <2>1, <2>2 DEF Made, M!UpGoogle
<1>18. CASE r = "auto_apply_review"
  <2>1. M!Up(r) = M!UpReview /\ Len(M!UpReview) \in Nat
    BY <1>18 DEF M!Up, M!Branches, M!UpReview
  <2>2. /\ UpStep(r, M!AddColumns("auto_apply_runs", {"review_items"}))
    BY <1>18, Adding, RankIs, TableRankIs DEF Alterations
  <2> QED BY <2>1, <2>2 DEF Made, M!UpReview
<1>19. CASE r \in {"attempt_indexes", "merge_heads"}
  BY <1>19 DEF M!Up, Made, M!Branches
<1> QED BY <1>1, <1>2, <1>3, <1>4, <1>5, <1>6, <1>7, <1>8, <1>9, <1>10, <1>11, <1>12, <1>13, <1>14,
           <1>15, <1>16, <1>17, <1>18, <1>19 DEF M!Revisions, M!Branches

\* The alterations of the earlier revisions.
LEMMA EarlierAlterations ==
  ASSUME NEW r \in M!Revisions, NEW o, Earlier(o, r), o.op \in {"add", "fk", "unique"}
  PROVE  \E q \in M!Revisions \ M!Branches : Rank(q) < Rank(r) /\ o \in Alterations(q)
BY DEF Earlier, UpStep

\* An operation that spares what the earlier revisions have altered spares everything of theirs.
LEMMA Undoing ==
  ASSUME NEW r \in M!Revisions, NEW p, Harmless(p),
         p.op \in {"remove", "fk", "unfk", "ununique", "move", "refuse", "create", "ensure"},
         \A q \in M!Revisions \ M!Branches :
             Rank(q) < Rank(r) => \A o \in Alterations(q) : Spares(p, o)
  PROVE  DownStep(r, p)
<1>1. ASSUME NEW o, Earlier(o, r) PROVE Spares(p, o)
  <2>1. o.op \in {"create", "ensure", "add", "fk", "unique"}
    BY <1>1 DEF Earlier, Builds, Building
  <2>2. CASE o.op \in {"create", "ensure"}
    BY <2>2 DEF Spares
  <2>3. CASE o.op \in {"add", "fk", "unique"}
    BY <1>1, <2>3, EarlierAlterations
  <2> QED BY <2>1, <2>2, <2>3
<1> QED BY <1>1 DEF DownStep

\* What the downgrade of each revision consists of: nothing of an earlier revision is lost.
LEMMA Downgrades ==
  ASSUME NEW r \in M!Revisions
  PROVE  Len(M!Down(r)) \in Nat /\ \A p \in Made(M!Down(r)) : DownStep(r, p)
<1>1. CASE r = "001"
  <2>1. M!Down(r) = M!Down001 /\ Len(M!Down001) \in Nat
    BY <1>1 DEF M!Down, M!Branches, M!Down001, M!Drops
  <2>2. \A t \in {"users"} : DownStep(r, M!Drop(t))
    BY <1>1, Dropping, RankIs, TableRankIs DEF M!Branches
  <2> QED BY <2>1, <2>2 DEF Made, M!Down001, M!Drops
<1>2. CASE r = "002"
  <2>1. M!Down(r) = M!Down002 /\ Len(M!Down002) \in Nat
    BY <1>2 DEF M!Down, M!Branches, M!Down002, M!Drops
  <2>2. \A t \in {"source_check_log", "source_registry", "companies", "salary_cache",
                  "interview_sessions", "cover_letters", "auto_apply_runs", "auto_apply_rules",
                  "auto_apply_profiles", "application_status_history", "applications",
                  "resume_versions", "user_profiles", "career_pages", "scraper_runs",
                  "saved_searches", "jobs"} : DownStep(r, M!Drop(t))
    BY <1>2, Dropping, RankIs, TableRankIs DEF M!Branches
  <2> QED BY <2>1, <2>2 DEF Made, M!Down002, M!Drops
<1>3. CASE r = "003"
  <2>1. M!Down(r) = M!Down003 /\ Len(M!Down003) \in Nat
    BY <1>3 DEF M!Down, M!Branches, M!Down003, M!Drops
  <2>2. \A t \in {"query_performance", "expansion_rules", "query_templates", "followup_reminders",
                  "raw_job_sources", "canonical_jobs", "notifications"} : DownStep(r, M!Drop(t))
    BY <1>3, Dropping, RankIs, TableRankIs DEF M!Branches
  <2>3. DownStep(r, M!DropColumns("saved_searches", {"last_checked_at"}))
    <3>1. Harmless(M!DropColumns("saved_searches", {"last_checked_at"}))
      BY DeclaredIs, Later DEF M!DropColumns, Harmless, Operations, M!SavedSearch, M!Table, M!Owner,
         LaterKey, LaterUnique
    <3>2. \A q \in M!Revisions \ M!Branches : Rank(q) < Rank(r) =>
             \A o \in Alterations(q) :
                 Spares(M!DropColumns("saved_searches", {"last_checked_at"}), o)
      BY <1>3, RankIs DEF M!Revisions, Alterations, Spares, M!DropColumns, M!AddColumns,
         M!SetForeignKey, M!AddUnique, Audited, M!LifecycleColumns
    <3> QED BY <3>1, <3>2, Undoing DEF M!DropColumns
  <2>4. DownStep(r, M!DropColumns("user_profiles", M!ProfileColumns))
    <3>1. Harmless(M!DropColumns("user_profiles", M!ProfileColumns))
      BY DeclaredIs, Later DEF M!DropColumns, Harmless, Operations, M!UserProfile, M!Table, M!Owner,
         LaterKey, LaterUnique, M!ProfileColumns
    <3>2. \A q \in M!Revisions \ M!Branches : Rank(q) < Rank(r) =>
             \A o \in Alterations(q) : Spares(M!DropColumns("user_profiles", M!ProfileColumns), o)
      BY <1>3, RankIs DEF M!Revisions, Alterations, Spares, M!DropColumns, M!AddColumns,
         M!SetForeignKey, M!AddUnique, Audited, M!LifecycleColumns, M!ProfileColumns
    <3> QED BY <3>1, <3>2, Undoing DEF M!DropColumns
  <2>5. DownStep(r, M!DropColumns("source_registry", M!RegistryColumns))
    <3>1. Harmless(M!DropColumns("source_registry", M!RegistryColumns))
      BY DeclaredIs, Later DEF M!DropColumns, Harmless, Operations, M!SourceRegistry, M!Table,
         M!Owner, LaterKey, LaterUnique, M!RegistryColumns
    <3>2. \A q \in M!Revisions \ M!Branches : Rank(q) < Rank(r) =>
             \A o \in Alterations(q) :
                 Spares(M!DropColumns("source_registry", M!RegistryColumns), o)
      BY <1>3, RankIs DEF M!Revisions, Alterations, Spares, M!DropColumns, M!AddColumns,
         M!SetForeignKey, M!AddUnique, Audited, M!LifecycleColumns, M!RegistryColumns
    <3> QED BY <3>1, <3>2, Undoing DEF M!DropColumns
  <2>6. DownStep(r, M!DropColumns("companies", M!CompanyColumns))
    <3>1. Harmless(M!DropColumns("companies", M!CompanyColumns))
      BY DeclaredIs, Later DEF M!DropColumns, Harmless, Operations, M!Company, M!Table, M!Owner,
         LaterKey, LaterUnique, M!CompanyColumns
    <3>2. \A q \in M!Revisions \ M!Branches : Rank(q) < Rank(r) =>
             \A o \in Alterations(q) : Spares(M!DropColumns("companies", M!CompanyColumns), o)
      BY <1>3, RankIs DEF M!Revisions, Alterations, Spares, M!DropColumns, M!AddColumns,
         M!SetForeignKey, M!AddUnique, Audited, M!LifecycleColumns, M!CompanyColumns
    <3> QED BY <3>1, <3>2, Undoing DEF M!DropColumns
  <2> QED BY <2>1, <2>2, <2>3, <2>4, <2>5, <2>6 DEF Made, M!Down003, M!Drops
<1>4. CASE r = "scrape_targets"
  <2>1. M!Down(r) = M!DownTargets /\ Len(M!DownTargets) \in Nat
    BY <1>4 DEF M!Down, M!Branches, M!DownTargets, M!Drops
  <2>2. \A t \in {"scrape_attempts", "scrape_targets"} : DownStep(r, M!Drop(t))
    BY <1>4, Dropping, RankIs, TableRankIs DEF M!Branches
  <2> QED BY <2>1, <2>2 DEF Made, M!DownTargets, M!Drops
<1>5. CASE r = "job_lifecycle"
  <2>1. M!Down(r) = M!DownLifecycle /\ Len(M!DownLifecycle) \in Nat
    BY <1>5 DEF M!Down, M!Branches, M!DownLifecycle
  <2>2. DownStep(r, M!DropColumns("scraper_runs", M!TierColumns))
    <3>1. Harmless(M!DropColumns("scraper_runs", M!TierColumns))
      BY DeclaredIs, Later DEF M!DropColumns, Harmless, Operations, M!ScraperRun, M!Table, M!Owner,
         LaterKey, LaterUnique, M!TierColumns
    <3>2. \A q \in M!Revisions \ M!Branches : Rank(q) < Rank(r) =>
             \A o \in Alterations(q) : Spares(M!DropColumns("scraper_runs", M!TierColumns), o)
      BY <1>5, RankIs DEF M!Revisions, Alterations, Spares, M!DropColumns, M!AddColumns,
         M!SetForeignKey, M!AddUnique, Audited, M!LifecycleColumns, M!TierColumns
    <3> QED BY <3>1, <3>2, Undoing DEF M!DropColumns
  <2>3. DownStep(r, M!DropColumns("jobs", M!LifecycleColumns))
    <3>1. Harmless(M!DropColumns("jobs", M!LifecycleColumns))
      BY DeclaredIs, Later DEF M!DropColumns, Harmless, Operations, M!Job, M!Table, M!Owner,
         LaterKey, LaterUnique, M!LifecycleColumns
    <3>2. \A q \in M!Revisions \ M!Branches : Rank(q) < Rank(r) =>
             \A o \in Alterations(q) : Spares(M!DropColumns("jobs", M!LifecycleColumns), o)
      BY <1>5, RankIs DEF M!Revisions, Alterations, Spares, M!DropColumns, M!AddColumns,
         M!SetForeignKey, M!AddUnique, Audited, M!LifecycleColumns
    <3> QED BY <3>1, <3>2, Undoing DEF M!DropColumns
  <2>4. DownStep(r, M!DropForeignKey("jobs", "source_target_id"))
    <3>1. Harmless(M!DropForeignKey("jobs", "source_target_id"))
      BY DeclaredIs DEF M!DropForeignKey, Harmless, Operations, M!Job, M!Table, M!Owner, LaterKey
    <3>2. \A q \in M!Revisions \ M!Branches : Rank(q) < Rank(r) =>
             \A o \in Alterations(q) : Spares(M!DropForeignKey("jobs", "source_target_id"), o)
      BY <1>5, RankIs DEF M!Revisions, Alterations, Spares, M!DropForeignKey, M!AddColumns
    <3> QED BY <3>1, <3>2, Undoing DEF M!DropForeignKey
  <2> QED BY <2>1, <2>2, <2>3, <2>4 DEF Made, M!DownLifecycle
<1>6. CASE r = "career_pages"
  <2>1. M!Down(r) = M!DownCareerPages /\ Len(M!DownCareerPages) \in Nat
    BY <1>6 DEF M!Down, M!Branches, M!DownCareerPages
  <2>2. DownStep(r, M!RecreateCareerPages)
    BY Beginnings, TableRankIs, Undoing DEF Begins, Makes, Harmless, Operations, Spares
  <2>3. DownStep(r, M!Refuse("target_reference"))
    BY Undoing DEF M!Refuse, Harmless, Operations, Spares
  <2>4. DownStep(r, M!Move("career_target", "career_page"))
    BY Undoing DEF M!Move, Harmless, Operations, Spares
  <2> QED BY <2>1, <2>2, <2>3, <2>4 DEF Made, M!DownCareerPages
<1>7. CASE r = "audit_fixes"
  <2>1. M!Down(r) = M!DownAudit /\ Len(M!DownAudit) \in Nat
    BY <1>7 DEF M!Down, M!Branches, M!DownAudit, M!AuditedForeignKeys, Audited
  <2>2. DownStep(r, M!DropColumns("scrape_attempts", M!AttemptColumns))
    <3>1. Harmless(M!DropColumns("scrape_attempts", M!AttemptColumns))
      BY DeclaredIs, Later DEF M!DropColumns, Harmless, Operations, M!ScrapeAttempt, M!Table,
         M!Owner, LaterKey, LaterUnique, M!AttemptColumns
    <3>2. \A q \in M!Revisions \ M!Branches : Rank(q) < Rank(r) =>
             \A o \in Alterations(q) : Spares(M!DropColumns("scrape_attempts", M!AttemptColumns), o)
      BY <1>7, RankIs DEF M!Revisions, Alterations, Spares, M!DropColumns, M!AddColumns,
         M!SetForeignKey, M!AddUnique, Audited, M!LifecycleColumns, M!AttemptColumns
    <3> QED BY <3>1, <3>2, Undoing DEF M!DropColumns
  <2>3. DownStep(r, M!DropColumns("users", {"token_version"}))
    <3>1. Harmless(M!DropColumns("users", {"token_version"}))
      BY DeclaredIs, Later DEF M!DropColumns, Harmless, Operations, M!User, M!Table, M!Owner,
         LaterKey, LaterUnique
    <3>2. \A q \in M!Revisions \ M!Branches : Rank(q) < Rank(r) =>
             \A o \in Alterations(q) : Spares(M!DropColumns("users", {"token_version"}), o)
      BY <1>7, RankIs DEF M!Revisions, Alterations, Spares, M!DropColumns, M!AddColumns,
         M!SetForeignKey, M!AddUnique, Audited, M!LifecycleColumns
    <3> QED BY <3>1, <3>2, Undoing DEF M!DropColumns
  <2>4. ASSUME NEW t \in Audited PROVE DownStep(r, M!SetForeignKey(t, "job_id", "jobs", M!NoAction))
    <3>1. Harmless(M!SetForeignKey(t, "job_id", "jobs", M!NoAction))
      BY DEF M!SetForeignKey, Harmless, Operations, LaterKey
    <3>2. \A q \in M!Revisions \ M!Branches : Rank(q) < Rank(r) =>
             \A o \in Alterations(q) : Spares(M!SetForeignKey(t, "job_id", "jobs", M!NoAction), o)
      BY <1>7, RankIs DEF M!Revisions, Alterations, Spares, M!SetForeignKey, M!AddColumns, Audited
    <3> QED BY <3>1, <3>2, Undoing DEF M!SetForeignKey
  <2> QED BY <2>1, <2>2, <2>3, <2>4 DEF Made, M!DownAudit, M!AuditedForeignKeys, Audited
<1>8. CASE r = "004"
  <2>1. M!Down(r) = M!DownEmail /\ Len(M!DownEmail) \in Nat
    BY <1>8 DEF M!Down, M!Branches, M!DownEmail, M!Drops
  <2>2. \A t \in {"email_logs"} : DownStep(r, M!Drop(t))
    BY <1>8, Dropping, RankIs, TableRankIs DEF M!Branches
  <2> QED BY <2>1, <2>2 DEF Made, M!DownEmail, M!Drops
<1>9. CASE r = "networking"
  <2>1. M!Down(r) = M!DownNetworking /\ Len(M!DownNetworking) \in Nat
    BY <1>9 DEF M!Down, M!Branches, M!DownNetworking, M!Drops
  <2>2. \A t \in {"referral_requests", "contacts"} : DownStep(r, M!Drop(t))
    BY <1>9, Dropping, RankIs, TableRankIs DEF M!Branches
  <2> QED BY <2>1, <2>2 DEF Made, M!DownNetworking, M!Drops
<1>10. CASE r = "archetypes"
  <2>1. M!Down(r) = M!DownArchetypes /\ Len(M!DownArchetypes) \in Nat
    BY <1>10 DEF M!Down, M!Branches, M!DownArchetypes, M!Drops
  <2>2. \A t \in {"resume_archetypes"} : DownStep(r, M!Drop(t))
    BY <1>10, Dropping, RankIs, TableRankIs DEF M!Branches
  <2> QED BY <2>1, <2>2 DEF Made, M!DownArchetypes, M!Drops
<1>11. CASE r = "dedup_feedback"
  <2>1. M!Down(r) = M!DownFeedback /\ Len(M!DownFeedback) \in Nat
    BY <1>11 DEF M!Down, M!Branches, M!DownFeedback, M!Drops
  <2>2. \A t \in {"dedup_feedback"} : DownStep(r, M!Drop(t))
    BY <1>11, Dropping, RankIs, TableRankIs DEF M!Branches
  <2> QED BY <2>1, <2>2 DEF Made, M!DownFeedback, M!Drops
<1>12. CASE r = "form_learning"
  <2>1. M!Down(r) = M!DownFormLearning /\ Len(M!DownFormLearning) \in Nat
    BY <1>12 DEF M!Down, M!Branches, M!DownFormLearning, M!Drops
  <2>2. \A t \in {"application_dedup", "field_mapping_rules"} : DownStep(r, M!Drop(t))
    BY <1>12, Dropping, RankIs, TableRankIs DEF M!Branches
  <2> QED BY <2>1, <2>2 DEF Made, M!DownFormLearning, M!Drops
<1>13. CASE r = "005"
  <2>1. M!Down(r) = M!Down005 /\ Len(M!Down005) \in Nat
    BY <1>13 DEF M!Down, M!Branches, M!Down005, M!Drops
  <2>2. \A t \in {"company_insights", "application_outcomes", "ml_model_artifacts",
                  "referral_requests", "contacts", "email_logs", "dedup_feedback",
                  "application_dedup", "field_mapping_rules", "resume_archetypes"} :
                    DownStep(r, M!Drop(t))
    BY <1>13, Dropping, RankIs, TableRankIs DEF M!Branches
  <2> QED BY <2>1, <2>2 DEF Made, M!Down005, M!Drops
<1>14. CASE r = "integration_secrets"
  <2>1. M!Down(r) = M!DownSecrets /\ Len(M!DownSecrets) \in Nat
    BY <1>14 DEF M!Down, M!Branches, M!DownSecrets, M!Drops
  <2>2. \A t \in {"user_integration_secrets"} : DownStep(r, M!Drop(t))
    BY <1>14, Dropping, RankIs, TableRankIs DEF M!Branches
  <2> QED BY <2>1, <2>2 DEF Made, M!DownSecrets, M!Drops
<1>15. CASE r = "ats_identity"
  <2>1. M!Down(r) = M!DownAts /\ Len(M!DownAts) \in Nat
    BY <1>15 DEF M!Down, M!Branches, M!DownAts
  <2>2. DownStep(r, M!DropColumns("jobs", M!AtsColumns))
    <3>1. Harmless(M!DropColumns("jobs", M!AtsColumns))
      BY DeclaredIs, Later DEF M!DropColumns, Harmless, Operations, M!Job, M!Table, M!Owner,
         LaterKey, LaterUnique, M!AtsColumns
    <3>2. \A q \in M!Revisions \ M!Branches : Rank(q) < Rank(r) =>
             \A o \in Alterations(q) : Spares(M!DropColumns("jobs", M!AtsColumns), o)
      BY <1>15, RankIs DEF M!Revisions, Alterations, Spares, M!DropColumns, M!AddColumns,
         M!SetForeignKey, M!AddUnique, Audited, M!LifecycleColumns, M!AtsColumns
    <3> QED BY <3>1, <3>2, Undoing DEF M!DropColumns
  <2>3. DownStep(r, M!DropUnique("jobs", {"ats_composite_key"}))
    <3>1. Harmless(M!DropUnique("jobs", {"ats_composite_key"}))
      BY DEF M!DropUnique, Harmless, Operations, LaterUnique
    <3>2. \A q \in M!Revisions \ M!Branches : Rank(q) < Rank(r) =>
             \A o \in Alterations(q) : Spares(M!DropUnique("jobs", {"ats_composite_key"}), o)
      BY <1>15, RankIs DEF M!Revisions, Alterations, Spares, M!DropUnique, M!AddColumns,
         M!SetForeignKey
    <3> QED BY <3>1, <3>2, Undoing DEF M!DropUnique
  <2> QED BY <2>1, <2>2, <2>3 DEF Made, M!DownAts
<1>16. CASE r = "saved_search_alerts"
  <2>1. M!Down(r) = M!DownAlerts /\ Len(M!DownAlerts) \in Nat
    BY <1>16 DEF M!Down, M!Branches, M!DownAlerts
  <2>2. DownStep(r, M!DropColumns("saved_searches", M!AlertColumns))
    <3>1. Harmless(M!DropColumns("saved_searches", M!AlertColumns))
      BY DeclaredIs, Later DEF M!DropColumns, Harmless, Operations, M!SavedSearch, M!Table, M!Owner,
         LaterKey, LaterUnique, M!AlertColumns
    <3>2. \A q \in M!Revisions \ M!Branches : Rank(q) < Rank(r) =>
             \A o \in Alterations(q) : Spares(M!DropColumns("saved_searches", M!AlertColumns), o)
      BY <1>16, RankIs DEF M!Revisions, Alterations, Spares, M!DropColumns, M!AddColumns,
         M!SetForeignKey, M!AddUnique, Audited, M!LifecycleColumns, M!AlertColumns
    <3> QED BY <3>1, <3>2, Undoing DEF M!DropColumns
  <2> QED BY <2>1, <2>2 DEF Made, M!DownAlerts
<1>17. CASE r = "google_integration"
  <2>1. M!Down(r) = M!DownGoogle /\ Len(M!DownGoogle) \in Nat
    BY <1>17 DEF M!Down, M!Branches, M!DownGoogle
  <2>2. DownStep(r, M!DropColumns("email_logs", M!ProvenanceColumns))
    <3>1. Harmless(M!DropColumns("email_logs", M!ProvenanceColumns))
      BY DeclaredIs, Later DEF M!DropColumns, Harmless, Operations, M!EmailLog, M!Table, M!Owner,
         LaterKey, LaterUnique, M!ProvenanceColumns
    <3>2. \A q \in M!Revisions \ M!Branches : Rank(q) < Rank(r) =>
             \A o \in Alterations(q) : Spares(M!DropColumns("email_logs", M!ProvenanceColumns), o)
      BY <1>17, RankIs DEF M!Revisions, Alterations, Spares, M!DropColumns, M!AddColumns,
         M!SetForeignKey, M!AddUnique, Audited, M!LifecycleColumns, M!ProvenanceColumns
    <3> QED BY <3>1, <3>2, Undoing DEF M!DropColumns
  <2>3. DownStep(r, M!DropColumns("user_integration_secrets", M!SecretColumns))
    <3>1. Harmless(M!DropColumns("user_integration_secrets", M!SecretColumns))
      BY DeclaredIs, Later DEF M!DropColumns, Harmless, Operations, M!UserIntegrationSecret,
         M!Table, M!Owner, LaterKey, LaterUnique, M!SecretColumns
    <3>2. \A q \in M!Revisions \ M!Branches : Rank(q) < Rank(r) =>
             \A o \in Alterations(q) :
                 Spares(M!DropColumns("user_integration_secrets", M!SecretColumns), o)
      BY <1>17, RankIs DEF M!Revisions, Alterations, Spares, M!DropColumns, M!AddColumns,
         M!SetForeignKey, M!AddUnique, Audited, M!LifecycleColumns, M!SecretColumns
    <3> QED BY <3>1, <3>2, Undoing DEF M!DropColumns
  <2>4. DownStep(r, M!Refuse("oauth_secret"))
    BY Undoing DEF M!Refuse, Harmless, Operations, Spares
  <2> QED BY <2>1, <2>2, <2>3, <2>4 DEF Made, M!DownGoogle
<1>18. CASE r = "auto_apply_review"
  <2>1. M!Down(r) = M!DownReview /\ Len(M!DownReview) \in Nat
    BY <1>18 DEF M!Down, M!Branches, M!DownReview
  <2>2. DownStep(r, M!DropColumns("auto_apply_runs", {"review_items"}))
    <3>1. Harmless(M!DropColumns("auto_apply_runs", {"review_items"}))
      BY DeclaredIs, Later DEF M!DropColumns, Harmless, Operations, M!AutoApplyRun, M!Table,
         M!Owner, LaterKey, LaterUnique
    <3>2. \A q \in M!Revisions \ M!Branches : Rank(q) < Rank(r) =>
             \A o \in Alterations(q) : Spares(M!DropColumns("auto_apply_runs", {"review_items"}), o)
      BY <1>18, RankIs DEF M!Revisions, Alterations, Spares, M!DropColumns, M!AddColumns,
         M!SetForeignKey, M!AddUnique, Audited, M!LifecycleColumns
    <3> QED BY <3>1, <3>2, Undoing DEF M!DropColumns
  <2> QED BY <2>1, <2>2 DEF Made, M!DownReview
<1>19. CASE r \in {"attempt_indexes", "merge_heads"}
  BY <1>19 DEF M!Down, Made, M!Branches
<1> QED BY <1>1, <1>2, <1>3, <1>4, <1>5, <1>6, <1>7, <1>8, <1>9, <1>10, <1>11, <1>12, <1>13, <1>14,
           <1>15, <1>16, <1>17, <1>18, <1>19 DEF M!Revisions, M!Branches

-----------------------------------------------------------------------------
\* A set of revisions an alembic_version can stand for, and a database they have made.
Closed(W) == W \subseteq M!Revisions /\ \A r \in W : M!Parents(r) \subseteq W
Holds(W, d) ==
    /\ Closed(W) /\ Grounded(d)
    /\ \A r \in W \ M!Branches : \A o \in Made(M!Up(r)) : Builds(o) => InPlace(o, d)

\* An upgrade of one revision makes that revision's work true of the database, and keeps the
\* others' true.
LEMMA Upgraded ==
  ASSUME NEW W, NEW d, Holds(W, d), NEW r \in M!Revisions, M!Parents(r) \subseteq W,
         M!PerformAll(d, M!Up(r)) # M!Failed
  PROVE  Holds(W \cup {r}, M!PerformAll(d, M!Up(r)))
<1> DEFINE e == M!PerformAll(d, M!Up(r))
<1>1. Closed(W \cup {r})
  BY DEF Closed, Holds
<1>2. Len(M!Up(r)) \in Nat /\ \A i \in 1..Len(M!Up(r)) : UpStep(r, M!Up(r)[i])
  BY Upgrades DEF Made
<1>3. \A i \in 1..Len(M!Up(r)) : Harmless(M!Up(r)[i]) /\ Gentle(M!Up(r)[i])
  BY <1>2 DEF UpStep
<1>4. /\ Grounded(e)
      /\ \A o : InPlace(o, d) /\ (\A i \in 1..Len(M!Up(r)) : Spares(M!Up(r)[i], o)) => InPlace(o, e)
      /\ \A k \in 1..Len(M!Up(r)) :
             /\ M!Up(r)[k].op \in Building
             /\ \A i \in 1..Len(M!Up(r)) : Spares(M!Up(r)[i], M!Up(r)[k])
             => InPlace(M!Up(r)[k], e)
  BY <1>2, <1>3, Sequences DEF Holds
<1> HIDE DEF e
<1>5. ASSUME NEW q \in (W \cup {r}) \ M!Branches, NEW o \in Made(M!Up(q)), Builds(o)
      PROVE  InPlace(o, e)
  <2>1. Gentle(o)
    BY Upgrades, <1>5 DEF UpStep, Holds, Closed
  <2>2. \A i \in 1..Len(M!Up(r)) : Spares(M!Up(r)[i], o)
    BY <2>1, <1>3, <1>5, GentleSpares
  <2>3. CASE q \in W
    BY <1>4, <1>5, <2>2, <2>3 DEF Holds
  <2>4. CASE q = r
    BY <1>4, <1>5, <2>2, <2>4 DEF Made, Builds
  <2> QED BY <2>3, <2>4
<1> QED BY <1>1, <1>4, <1>5 DEF Holds, e

\* A revision that nothing applied descends from comes after all the applied ones, but for the
\* branches.
LEMMA OnlyEarlier ==
  ASSUME NEW W, Closed(W), NEW r \in W, \A q \in W : r \notin M!Parents(q)
  PROVE  \A q \in W \ ({r} \cup M!Branches) : Rank(q) < Rank(r)
<1> DEFINE Has(q) == q \in W
<1>1. \A q \in M!Revisions : q \in W => M!Parents(q) \subseteq W /\ r \notin M!Parents(q)
  BY DEF Closed
<1>2. /\ Has("002") => Has("001") /\ r # "001"
      /\ Has("003") => Has("002") /\ r # "002"
      /\ Has("scrape_targets") => Has("003") /\ r # "003"
      /\ Has("attempt_indexes") => Has("scrape_targets") /\ r # "scrape_targets"
      /\ Has("job_lifecycle") => Has("attempt_indexes") /\ r # "attempt_indexes"
      /\ Has("career_pages") => Has("job_lifecycle") /\ r # "job_lifecycle"
      /\ Has("audit_fixes") => Has("career_pages") /\ r # "career_pages"
      /\ \A b \in M!Branches : Has(b) => Has("audit_fixes") /\ r # "audit_fixes"
      /\ Has("merge_heads") => \A b \in M!Branches : Has(b) /\ r # b
      /\ Has("005") => Has("merge_heads") /\ r # "merge_heads"
      /\ Has("integration_secrets") => Has("005") /\ r # "005"
      /\ Has("ats_identity") => Has("integration_secrets") /\ r # "integration_secrets"
      /\ Has("saved_search_alerts") => Has("ats_identity") /\ r # "ats_identity"
      /\ Has("google_integration") => Has("saved_search_alerts") /\ r # "saved_search_alerts"
      /\ Has("auto_apply_review") => Has("google_integration") /\ r # "google_integration"
  BY <1>1 DEF M!Revisions, M!Branches, M!Parents
<1>3. W \subseteq M!Revisions
  BY DEF Closed
<1>4. "004" \in M!Branches
  BY DEF M!Branches
<1> QED BY <1>2, <1>3, <1>4, RankIs DEF M!Revisions

\* A downgrade of one revision keeps the work of the others.
LEMMA Downgraded ==
  ASSUME NEW W, NEW d, Holds(W, d), NEW r \in W, \A q \in W : r \notin M!Parents(q),
         M!PerformAll(d, M!Down(r)) # M!Failed
  PROVE  Holds(W \ {r}, M!PerformAll(d, M!Down(r)))
<1> DEFINE e == M!PerformAll(d, M!Down(r))
<1>1. Closed(W \ {r}) /\ r \in M!Revisions
  BY DEF Closed, Holds
<1>2. Len(M!Down(r)) \in Nat /\ \A i \in 1..Len(M!Down(r)) : DownStep(r, M!Down(r)[i])
  BY <1>1, Downgrades DEF Made
<1>3. \A i \in 1..Len(M!Down(r)) : Harmless(M!Down(r)[i])
  BY <1>2 DEF DownStep
<1>4. /\ Grounded(e)
      /\ \A o : InPlace(o, d) /\ (\A i \in 1..Len(M!Down(r)) : Spares(M!Down(r)[i], o))
                   => InPlace(o, e)
  BY <1>2, <1>3, Sequences DEF Holds
<1> HIDE DEF e
<1>5. ASSUME NEW q \in (W \ {r}) \ M!Branches, NEW o \in Made(M!Up(q)), Builds(o)
      PROVE  InPlace(o, e)
  <2>1. q \in M!Revisions \ M!Branches /\ Rank(q) < Rank(r)
    BY OnlyEarlier, <1>5 DEF Holds, Closed
  <2>2. Earlier(o, r)
    BY <2>1, <1>5, Upgrades DEF Earlier
  <2>3. \A i \in 1..Len(M!Down(r)) : Spares(M!Down(r)[i], o)
    BY <1>2, <2>2 DEF DownStep
  <2> QED BY <1>4, <1>5, <2>3 DEF Holds
<1> QED BY <1>1, <1>4, <1>5 DEF Holds, e

\* At the head revision every revision is applied.
LEMMA AtHeadAll ==
  ASSUME NEW W, Closed(W), M!HeadRevision \in W
  PROVE  W = M!Revisions
<1> DEFINE Has(q) == q \in W
<1>1. \A q \in M!Revisions : q \in W => M!Parents(q) \subseteq W
  BY DEF Closed
<1>2. /\ Has("002") => Has("001")
      /\ Has("003") => Has("002")
      /\ Has("scrape_targets") => Has("003")
      /\ Has("attempt_indexes") => Has("scrape_targets")
      /\ Has("job_lifecycle") => Has("attempt_indexes")
      /\ Has("career_pages") => Has("job_lifecycle")
      /\ Has("audit_fixes") => Has("career_pages")
      /\ Has("004") => Has("audit_fixes")
      /\ Has("merge_heads") => M!Branches \subseteq W
      /\ Has("005") => Has("merge_heads")
      /\ Has("integration_secrets") => Has("005")
      /\ Has("ats_identity") => Has("integration_secrets")
      /\ Has("saved_search_alerts") => Has("ats_identity")
      /\ Has("google_integration") => Has("saved_search_alerts")
      /\ Has("auto_apply_review") => Has("google_integration")
  BY <1>1 DEF M!Revisions, M!Branches, M!Parents
<1>3. "004" \in M!Branches /\ Has("auto_apply_review") /\ W \subseteq M!Revisions
  BY DEF M!Branches, M!HeadRevision, Closed
<1>4. M!Revisions \subseteq W
  BY <1>2, <1>3 DEF M!Revisions
<1> QED BY <1>3, <1>4

\* Every table of the models is created by a revision that is not a branch, that of its rank.
LEMMA TablesAreMade ==
  ASSUME NEW t \in Tables
  PROVE  \E q \in M!Revisions \ M!Branches :
             Rank(q) = TableRank(t) /\ \E o \in Made(M!Up(q)) : Builds(o) /\ o.table = t
<1>1. CASE t \in {"users"}
  <2>1. "001" \in M!Revisions \ M!Branches /\ M!Up("001") = M!Up001
    BY DEF M!Revisions, M!Branches, M!Up
  <2>2. {M!CreateUsers} \subseteq Made(M!Up001)
    BY DEF Made, M!Up001
  <2>3. \E o \in {M!CreateUsers} : Builds(o) /\ o.table = t
    BY <1>1, Beginnings DEF Begins, Makes, Builds, Building
  <2>4. Rank("001") = TableRank(t)
    BY <1>1, RankIs, TableRankIs
  <2> QED BY <2>1, <2>2, <2>3, <2>4, Zenon
<1>2. CASE t \in {"jobs", "saved_searches", "scraper_runs", "user_profiles", "resume_versions",
                  "applications", "application_status_history", "auto_apply_profiles",
                  "auto_apply_rules", "auto_apply_runs", "cover_letters", "interview_sessions",
                  "salary_cache", "companies", "source_registry", "source_check_log"}
  <2>1. "002" \in M!Revisions \ M!Branches /\ M!Up("002") = M!Up002
    BY DEF M!Revisions, M!Branches, M!Up
  <2>2. {M!CreateJobs, M!CreateSavedSearches, M!CreateScraperRuns, M!CreateUserProfiles,
         M!CreateResumeVersions, M!CreateApplications, M!CreateApplicationStatusHistory,
         M!CreateAutoApplyProfiles, M!CreateAutoApplyRules, M!CreateAutoApplyRuns,
         M!CreateCoverLetters, M!CreateInterviewSessions, M!CreateSalaryCache, M!CreateCompanies,
         M!CreateSourceRegistry, M!CreateSourceCheckLog} \subseteq Made(M!Up002)
    BY DEF Made, M!Up002
  <2>3. \E o \in {M!CreateJobs, M!CreateSavedSearches, M!CreateScraperRuns, M!CreateUserProfiles,
                  M!CreateResumeVersions, M!CreateApplications, M!CreateApplicationStatusHistory,
                  M!CreateAutoApplyProfiles, M!CreateAutoApplyRules, M!CreateAutoApplyRuns,
                  M!CreateCoverLetters, M!CreateInterviewSessions, M!CreateSalaryCache,
                  M!CreateCompanies, M!CreateSourceRegistry, M!CreateSourceCheckLog} :
                    Builds(o) /\ o.table = t
    BY <1>2, Beginnings DEF Begins, Makes, Builds, Building
  <2>4. Rank("002") = TableRank(t)
    BY <1>2, RankIs, TableRankIs
  <2> QED BY <2>1, <2>2, <2>3, <2>4, Zenon
<1>3. CASE t \in {"notifications", "canonical_jobs", "raw_job_sources", "followup_reminders",
                  "query_templates", "expansion_rules", "query_performance"}
  <2>1. "003" \in M!Revisions \ M!Branches /\ M!Up("003") = M!Up003
    BY DEF M!Revisions, M!Branches, M!Up
  <2>2. {M!CreateNotifications, M!CreateCanonicalJobs, M!CreateRawJobSources,
         M!CreateFollowupReminders, M!CreateQueryTemplates, M!CreateExpansionRules,
         M!CreateQueryPerformance} \subseteq Made(M!Up003)
    BY DEF Made, M!Up003
  <2>3. \E o \in {M!CreateNotifications, M!CreateCanonicalJobs, M!CreateRawJobSources,
                  M!CreateFollowupReminders, M!CreateQueryTemplates, M!CreateExpansionRules,
                  M!CreateQueryPerformance} : Builds(o) /\ o.table = t
    BY <1>3, Beginnings DEF Begins, Makes, Builds, Building
  <2>4. Rank("003") = TableRank(t)
    BY <1>3, RankIs, TableRankIs
  <2> QED BY <2>1, <2>2, <2>3, <2>4, Zenon
<1>4. CASE t \in {"scrape_targets", "scrape_attempts"}
  <2>1. "scrape_targets" \in M!Revisions \ M!Branches /\ M!Up("scrape_targets") = M!UpTargets
    BY DEF M!Revisions, M!Branches, M!Up
  <2>2. {M!CreateScrapeTargets, M!CreateScrapeAttempts} \subseteq Made(M!UpTargets)
    BY DEF Made, M!UpTargets
  <2>3. \E o \in {M!CreateScrapeTargets, M!CreateScrapeAttempts} : Builds(o) /\ o.table = t
    BY <1>4, Beginnings DEF Begins, Makes, Builds, Building
  <2>4. Rank("scrape_targets") = TableRank(t)
    BY <1>4, RankIs, TableRankIs
  <2> QED BY <2>1, <2>2, <2>3, <2>4, Zenon
<1>5. CASE t \in {"resume_archetypes", "field_mapping_rules", "application_dedup", "dedup_feedback",
                  "email_logs", "contacts", "referral_requests", "ml_model_artifacts",
                  "application_outcomes", "company_insights"}
  <2>1. "005" \in M!Revisions \ M!Branches /\ M!Up("005") = M!Up005
    BY DEF M!Revisions, M!Branches, M!Up
  <2>2. {M!EnsureResumeArchetypes, M!EnsureFieldMappingRules, M!EnsureApplicationDedup,
         M!EnsureDedupFeedback, M!EnsureEmailLogs, M!EnsureContacts, M!EnsureReferralRequests,
         M!EnsureMlModelArtifacts, M!EnsureApplicationOutcomes, M!EnsureCompanyInsights}
          \subseteq Made(M!Up005)
    BY DEF Made, M!Up005
  <2>3. \E o \in {M!EnsureResumeArchetypes, M!EnsureFieldMappingRules, M!EnsureApplicationDedup,
                  M!EnsureDedupFeedback, M!EnsureEmailLogs, M!EnsureContacts,
                  M!EnsureReferralRequests, M!EnsureMlModelArtifacts, M!EnsureApplicationOutcomes,
                  M!EnsureCompanyInsights} : Builds(o) /\ o.table = t
    BY <1>5, Beginnings DEF Begins, Makes, Builds, Building
  <2>4. Rank("005") = TableRank(t)
    BY <1>5, RankIs, TableRankIs
  <2> QED BY <2>1, <2>2, <2>3, <2>4, Zenon
<1>6. CASE t \in {"user_integration_secrets"}
  <2>1. /\ "integration_secrets" \in M!Revisions \ M!Branches
        /\ M!Up("integration_secrets") = M!UpSecrets
    BY DEF M!Revisions, M!Branches, M!Up
  <2>2. {M!CreateUserIntegrationSecrets} \subseteq Made(M!UpSecrets)
    BY DEF Made, M!UpSecrets
  <2>3. \E o \in {M!CreateUserIntegrationSecrets} : Builds(o) /\ o.table = t
    BY <1>6, Beginnings DEF Begins, Makes, Builds, Building
  <2>4. Rank("integration_secrets") = TableRank(t)
    BY <1>6, RankIs, TableRankIs
  <2> QED BY <2>1, <2>2, <2>3, <2>4, Zenon
<1> QED BY <1>1, <1>2, <1>3, <1>4, <1>5, <1>6, DeclaredIs

\* Every alteration is in the upgrade of its revision.
LEMMA AlterationsAreMade ==
  ASSUME NEW r \in M!Revisions, NEW o \in Alterations(r)
  PROVE  r \notin M!Branches /\ o \in Made(M!Up(r)) /\ Builds(o)
<1>1. r \notin M!Branches
  BY DEF Alterations, M!Branches
<1>2. Builds(o)
  BY DeclaredIs DEF Alterations, Builds, Building, M!AddColumns, M!SetForeignKey, M!AddUnique,
     Audited
<1>3. CASE r = "003"
  <2>1. M!Up(r) = M!Up003
    BY <1>3 DEF M!Up
  <2>2. Alterations(r) \subseteq Made(M!Up003)
    BY <1>3 DEF Alterations, Made, M!Up003
  <2> QED BY <2>1, <2>2, <1>1, <1>2
<1>4. CASE r = "job_lifecycle"
  <2>1. M!Up(r) = M!UpLifecycle
    BY <1>4 DEF M!Up
  <2>2. Alterations(r) \subseteq Made(M!UpLifecycle)
    BY <1>4 DEF Alterations, Made, M!UpLifecycle
  <2> QED BY <2>1, <2>2, <1>1, <1>2
<1>5. CASE r = "audit_fixes"
  <2>1. M!Up(r) = M!UpAudit
    BY <1>5 DEF M!Up
  <2>2. Alterations(r) \subseteq Made(M!UpAudit)
    BY <1>5 DEF Alterations, Made, M!UpAudit, M!AuditedForeignKeys, Audited
  <2> QED BY <2>1, <2>2, <1>1, <1>2
<1>6. CASE r = "ats_identity"
  <2>1. M!Up(r) = M!UpAts
    BY <1>6 DEF M!Up
  <2>2. Alterations(r) \subseteq Made(M!UpAts)
    BY <1>6 DEF Alterations, Made, M!UpAts
  <2> QED BY <2>1, <2>2, <1>1, <1>2
<1>7. CASE r = "saved_search_alerts"
  <2>1. M!Up(r) = M!UpAlerts
    BY <1>7 DEF M!Up
  <2>2. Alterations(r) \subseteq Made(M!UpAlerts)
    BY <1>7 DEF Alterations, Made, M!UpAlerts
  <2> QED BY <2>1, <2>2, <1>1, <1>2
<1>8. CASE r = "google_integration"
  <2>1. M!Up(r) = M!UpGoogle
    BY <1>8 DEF M!Up
  <2>2. Alterations(r) \subseteq Made(M!UpGoogle)
    BY <1>8 DEF Alterations, Made, M!UpGoogle
  <2> QED BY <2>1, <2>2, <1>1, <1>2
<1>9. CASE r = "auto_apply_review"
  <2>1. M!Up(r) = M!UpReview
    BY <1>9 DEF M!Up
  <2>2. Alterations(r) \subseteq Made(M!UpReview)
    BY <1>9 DEF Alterations, Made, M!UpReview
  <2> QED BY <2>1, <2>2, <1>1, <1>2
<1> QED BY <1>1, <1>2, <1>3, <1>4, <1>5, <1>6, <1>7, <1>8, <1>9 DEF Alterations

\* A table that is what the models declare.
AsDeclared(t, s) ==
    /\ M!Declared[t].cols \subseteq s.cols
    /\ s.fks = M!Declared[t].fks \ M!NeverCreated
    /\ s.unique = M!Declared[t].unique

\* A database all revisions have worked on is what the models declare.
LEMMA AtHead ==
  ASSUME NEW W, NEW d, Holds(W, d), M!HeadRevision \in W, NEW t \in Tables
  PROVE  M!Exists(d, t) /\ AsDeclared(t, d.tables[t])
<1>1. W = M!Revisions
  BY AtHeadAll DEF Holds
<1>2. \A r \in M!Revisions : \A o \in Alterations(r) : InPlace(o, d)
  BY <1>1, AlterationsAreMade DEF Holds
<1>3. M!Exists(d, t)
  BY <1>1, TablesAreMade DEF Holds, InPlace
<1> DEFINE s == d.tables[t]
<1>4. StartsAs(t, s)
  BY <1>3 DEF Holds, Grounded
<1>5. \A a \in Additions : InPlace(a, d)
  BY <1>2 DEF Additions, Alterations, M!Revisions
<1>6. ASSUME NEW c, LaterColumn(t, c) PROVE c \in s.cols
  <2>1. PICK a \in Additions : a.table = t /\ c \in a.cols
    BY <1>6 DEF LaterColumn
  <2>2. a.op = "add"
    BY DEF Additions, M!AddColumns
  <2> QED BY <1>5, <2>1, <2>2 DEF InPlace
<1>7. ASSUME NEW fk, LaterKey(t, fk), fk \in s.fks \cup M!Declared[t].fks
      PROVE  fk \in s.fks <=> fk \in M!Declared[t].fks \ M!NeverCreated
  <2>1. CASE t = "jobs"
    <3> DEFINE o == M!SetForeignKey("jobs", "source_target_id", "scrape_targets", M!NoAction)
    <3>1. InPlace(o, d)
      BY <1>2 DEF Alterations, M!Revisions
    <3>2. /\ o.fk \in s.fks /\ o.fk[1] = "source_target_id" /\ o.fk[2] = "scrape_targets"
          /\ \A f \in s.fks : f[1] = "source_target_id" /\ f[2] = "scrape_targets" => f = o.fk
      BY <2>1, <3>1 DEF InPlace, M!SetForeignKey
    <3>3. fk[1] = "source_target_id" /\ fk[2] = "scrape_targets"
      BY <1>7, <2>1 DEF LaterKey, Audited
    <3>4. M!Declared[t].fks = {M!Owner, o.fk}
      BY <2>1, DeclaredIs DEF M!Job, M!Table, M!SetForeignKey
    <3>5. o.fk \notin M!NeverCreated
      BY DEF M!SetForeignKey, M!NeverCreated
    <3>6. M!Owner[1] # "source_target_id"
      BY DEF M!Owner
    <3> HIDE DEF o, s
    <3> QED BY <1>7, <3>2, <3>3, <3>4, <3>5, <3>6
  <2>2. CASE t \in Audited
    <3> DEFINE o == M!SetForeignKey(t, "job_id", "jobs", M!SetNull)
    <3>1. InPlace(o, d)
      BY <1>2, <2>2 DEF Alterations, M!Revisions
    <3>2. /\ o.fk \in s.fks /\ o.fk[1] = "job_id" /\ o.fk[2] = "jobs"
          /\ \A f \in s.fks : f[1] = "job_id" /\ f[2] = "jobs" => f = o.fk
      BY <3>1 DEF InPlace, M!SetForeignKey
    <3>3. fk[1] = "job_id" /\ fk[2] = "jobs"
      BY <1>7, <2>2 DEF LaterKey, Audited
    <3>4. o.fk \in M!Declared[t].fks /\ \A f \in M!Declared[t].fks : f[1] = "job_id" => f = o.fk
      BY <2>2, DeclaredIs DEF Audited, M!AutoApplyRun, M!Application, M!CoverLetter,
         M!InterviewSession,
         M!Table, M!Owner, M!SetForeignKey
    <3>5. o.fk \notin M!NeverCreated
      BY DEF M!SetForeignKey, M!NeverCreated
    <3> HIDE DEF o, s
    <3> QED BY <1>7, <3>2, <3>3, <3>4, <3>5
  <2> QED BY <1>7, <2>1, <2>2 DEF LaterKey
<1>8. ASSUME NEW u, LaterUnique(t, u) PROVE u \in s.unique /\ u \in M!Declared[t].unique
  <2>1. InPlace(M!AddUnique("jobs", {"ats_composite_key"}), d)
    BY <1>2 DEF Alterations, M!Revisions
  <2>2. t = "jobs" /\ u = {"ats_composite_key"}
    BY <1>8 DEF LaterUnique
  <2>3. u \in s.unique
    BY <2>1, <2>2 DEF InPlace, M!AddUnique
  <2>4. u \in M!Declared[t].unique
    BY <2>2, DeclaredIs DEF M!Job, M!Table
  <2> QED BY <2>3, <2>4
<1> HIDE DEF s
<1>9. M!Declared[t].cols \subseteq s.cols
  BY <1>4, <1>6 DEF StartsAs
<1>10. s.fks = M!Declared[t].fks \ M!NeverCreated
  BY <1>4, <1>7 DEF StartsAs
<1>11. s.unique = M!Declared[t].unique
  BY <1>4, <1>8 DEF StartsAs
<1> QED BY <1>3, <1>9, <1>10, <1>11 DEF AsDeclared, s

\* The inductive invariant: the committed database holds what the applied revisions make, the
\* one in the transaction what the revisions applied in it make.
Migrated ==
    /\ Holds(applied, db) /\ Holds(workApplied, ddl)
    /\ command = M!Idle => ddl = db /\ workApplied = applied

\* The empty database holds what no revision has made.
LEMMA MigratedStart == M!Init => Migrated
<1> SUFFICES ASSUME M!Init PROVE Migrated
  OBVIOUS
<1>1. IsDatabase(db) /\ DOMAIN db.tables = {}
  BY DEF M!Init, IsDatabase
<1>2. Grounded(db)
  BY <1>1 DEF Grounded, M!Exists
<1> QED BY <1>2 DEF M!Init, Migrated, Holds, Closed

\* A stored row changes no table.
LEMMA Stored ==
  ASSUME NEW W, NEW d, Holds(W, d), NEW kind
  PROVE  Holds(W, [d EXCEPT !.rows = @ \cup {kind}])
<1> DEFINE e == [d EXCEPT !.rows = @ \cup {kind}]
<1>1. IsDatabase(e) /\ e.tables = d.tables
  BY DEF Holds, Grounded, IsDatabase
<1> SUFFICES Holds(W, e)
  OBVIOUS
<1> HIDE DEF e
<1> QED BY <1>1 DEF Holds, Grounded, M!Exists, InPlace

\* A stamped branch claims nothing of the database.
LEMMA Stamped ==
  ASSUME NEW W, NEW d, Holds(W, d), NEW r \in M!Branches, M!Parents(r) \subseteq W
  PROVE  Holds(W \cup {r}, d)
<1>1. Closed(W \cup {r})
  BY DEF Holds, Closed, M!Revisions
<1> QED BY <1>1 DEF Holds

\* Every step of alembic, and of the application, keeps what the applied revisions have made.
LEMMA MigratedStep == Migrated /\ [M!Next]_(M!vars) => Migrated'
<1> SUFFICES ASSUME Migrated, [M!Next]_(M!vars) PROVE Migrated'
  OBVIOUS
<1> USE DEF Migrated
<1>1. ASSUME NEW r \in M!Revisions, M!StartUpgrade(r) PROVE Migrated'
  BY <1>1 DEF M!StartUpgrade, M!Idle
<1>2. ASSUME NEW r \in M!Revisions, M!StartDowngrade(r) PROVE Migrated'
  BY <1>2 DEF M!StartDowngrade, M!Idle
<1>3. ASSUME NEW r \in M!Revisions, M!RunRevision(r) PROVE Migrated'
  <2>1. CASE command.kind = "upgrade"
    <3>1. M!Parents(r) \subseteq workApplied /\ ddl' = M!PerformAll(ddl, M!Up(r))
          /\ M!PerformAll(ddl, M!Up(r)) # M!Failed /\ workApplied' = workApplied \cup {r}
      BY <1>3, <2>1 DEF M!RunRevision, M!Ready, M!Result
    <3>2. Holds(workApplied, ddl)'
      BY <3>1, Upgraded
    <3> QED BY <3>2, <2>1, <1>3 DEF M!RunRevision, M!Idle
  <2>2. CASE command.kind = "downgrade"
    <3>1. r \in workApplied /\ (\A q \in workApplied : r \notin M!Parents(q))
          /\ ddl' = M!PerformAll(ddl, M!Down(r))
          /\ M!PerformAll(ddl, M!Down(r)) # M!Failed /\ workApplied' = workApplied \ {r}
      BY <1>3, <2>2 DEF M!RunRevision, M!Ready, M!Result
    <3>2. Holds(workApplied, ddl)'
      BY <3>1, Downgraded
    <3> QED BY <3>2, <2>2, <1>3 DEF M!RunRevision, M!Idle
  <2>3. command.kind \in {"upgrade", "downgrade"}
    BY <1>3 DEF M!RunRevision, M!Ready
  <2> QED BY <2>1, <2>2, <2>3
<1>4. ASSUME NEW r \in M!Revisions, M!FailRevision(r) PROVE Migrated'
  BY <1>4 DEF M!FailRevision, M!Rollback
<1>5. ASSUME NEW r \in M!Revisions, M!Stamp(r) PROVE Migrated'
  <2>1. Holds(applied \cup {r}, db) /\ ddl = db
    BY <1>5, Stamped DEF M!Stamp
  <2> QED BY <2>1, <1>5 DEF M!Stamp
<1>6. CASE M!CrashCommand
  BY <1>6 DEF M!CrashCommand, M!Rollback
<1>7. CASE M!CommitCommand
  BY <1>7 DEF M!CommitCommand
<1>8. ASSUME NEW kind \in M!RowKinds, M!StoreRow(kind) PROVE Migrated'
  <2>1. Holds(applied, [db EXCEPT !.rows = @ \cup {kind}])
    BY Stored
  <2> QED BY <2>1, <1>8 DEF M!StoreRow
<1>9. CASE UNCHANGED M!vars
  BY <1>9 DEF M!vars
<1> QED BY <1>1, <1>2, <1>3, <1>4, <1>5, <1>6, <1>7, <1>8, <1>9 DEF M!Next

\* Whatever sequence of upgrades, downgrades, stamps, failures and crashes led to the head
\* revision, the database has every table and column the ORM names and exactly the unique keys
\* and delete rules the models declare (migrations/versions, app/*/models.py).
THEOREM HeadsMatchTheModels == M!Spec => []HeadIsWhatTheModelsDeclare
<1>1. Migrated => HeadIsWhatTheModelsDeclare
  <2> SUFFICES ASSUME Migrated, M!HeadRevision \in applied, NEW t \in DOMAIN M!Declared
               PROVE  /\ M!Exists(db, t)
                      /\ M!Declared[t].cols \subseteq db.tables[t].cols
                      /\ db.tables[t].fks = M!Declared[t].fks \ M!NeverCreated
                      /\ db.tables[t].unique = M!Declared[t].unique
    BY DEF HeadIsWhatTheModelsDeclare, M!HeadIsWhatTheModelsDeclare
  <2>1. M!Exists(db, t) /\ AsDeclared(t, db.tables[t])
    BY AtHead DEF Migrated, Tables
  <2> QED BY <2>1 DEF AsDeclared
<1>2. M!Spec => []Migrated
  BY MigratedStart, MigratedStep, PTL DEF M!Spec
<1> QED BY <1>1, <1>2, PTL

-----------------------------------------------------------------------------
(* What an operation needs, and what it leaves absent. *)

\* What an operation of an upgrade asks of a database: tables it needs, and that what it makes
\* is not there yet.
Needs(o) ==
    CASE o.op \in {"create", "ensure"}        -> {fk[2] : fk \in o.spec.fks}
      [] o.op \in {"add", "unique", "drop"}   -> {o.table}
      [] o.op = "fk"                          -> {o.table, o.fk[2]}
      [] OTHER                                -> {}
Absent(o, d) ==
    /\ o.op = "create" => ~M!Exists(d, o.table)
    /\ o.op = "add" /\ M!Exists(d, o.table) => o.cols \cap d.tables[o.table].cols = {}

\* No table points to the career pages, which one revision drops, and nothing has failed.
Unpointed(d) ==
    /\ "failed" \notin d.rows
    /\ \A t \in DOMAIN d.tables : \A fk \in d.tables[t].fks : fk[2] # "career_pages"
Neat(o) ==
    /\ o.op \in {"create", "ensure"} =>
           IsTable(o.spec) /\ \A fk \in o.spec.fks : fk[2] # "career_pages"
    /\ o.op = "fk" => o.fk[2] # "career_pages"
    /\ o.op = "move" => o.to # "failed"

\* Operation p does not make what operation o is to make.
Apart(p, o) ==
    /\ p.op \in {"create", "ensure"} =>
           /\ o.op = "create" => p.table # o.table
           /\ o.op = "add" /\ p.table = o.table => p.spec.cols \cap o.cols = {}
    /\ p.op = "add" /\ o.op = "add" /\ p.table = o.table => p.cols \cap o.cols = {}

\* Operation p takes away what operation o has made.
Takes(p, o) ==
    /\ p.table = o.table
    /\ \/ p.op = "drop"
       \/ p.op = "remove" /\ o.op = "add" /\ o.cols \subseteq p.cols

\* The operations that only build.
Growing == {"create", "ensure", "add", "unique", "fk"}

\* A table put in, or replaced, leaves the rows.
LEMMA WithTableRows ==
  ASSUME NEW d, IsDatabase(d), NEW t, NEW s
  PROVE  M!WithTable(d, t, s).rows = d.rows
BY DEF M!WithTable, IsDatabase

\* An operation that finds what it needs, and not what it is to make, succeeds.
LEMMA Succeeds ==
  ASSUME NEW d, IsDatabase(d), Unpointed(d), NEW o, Neat(o), Absent(o, d),
         Needs(o) \subseteq DOMAIN d.tables,
         \/ o.op \in Growing \cup {"move"}
         \/ o.op = "drop" /\ o.table = "career_pages"
         \/ o.op = "refuse" /\ o.kind \notin d.rows
  PROVE  M!Perform(d, o) # M!Failed
<1>1. d # M!Failed
  BY DEF Unpointed, M!Failed
<1>2. ASSUME NEW t, NEW s PROVE M!WithTable(d, t, s) # M!Failed
  BY WithTableRows DEF Unpointed, M!Failed
<1>3. CASE o.op \in {"create", "ensure"}
  <2>1. \A fk \in o.spec.fks : M!Exists(d, fk[2])
    BY <1>3 DEF Needs, M!Exists
  <2> QED BY <1>1, <1>2, <1>3, <2>1 DEF M!Perform, Absent
<1>4. CASE o.op = "add"
  <2>1. M!Exists(d, o.table) /\ o.cols \cap d.tables[o.table].cols = {}
    BY <1>4 DEF Needs, M!Exists, Absent
  <2> QED BY <1>1, <1>2, <1>4, <2>1 DEF M!Perform
<1>5. CASE o.op = "unique"
  <2>1. M!Exists(d, o.table)
    BY <1>5 DEF Needs, M!Exists
  <2> QED BY <1>1, <1>2, <1>5, <2>1 DEF M!Perform
<1>6. CASE o.op = "fk"
  <2>1. M!Exists(d, o.table) /\ M!Exists(d, o.fk[2])
    BY <1>6 DEF Needs, M!Exists
  <2> QED BY <1>1, <1>2, <1>6, <2>1 DEF M!Perform
<1>7. CASE o.op = "drop"
  <2>1. M!Exists(d, o.table)
    BY <1>7 DEF Needs, M!Exists
  <2>2. M!Referencing(d, o.table) = {}
    BY <1>7 DEF M!Referencing, Unpointed, Growing
  <2>3. M!Without(d, o.table) # M!Failed
    BY DEF M!Without, M!Failed, Unpointed
  <2> QED BY <1>1, <1>7, <2>1, <2>2, <2>3 DEF M!Perform
<1>8. CASE o.op = "move"
  <2>1. o.to # "failed"
    BY <1>8 DEF Neat
  <2>2. [d EXCEPT !.rows = (@ \ {o.from}) \cup {o.to}].rows = (d.rows \ {o.from}) \cup {o.to}
    BY DEF IsDatabase
  <2>3. [d EXCEPT !.rows = (@ \ {o.from}) \cup {o.to}] # M!Failed
    BY <2>1, <2>2 DEF Unpointed, M!Failed
  <2> QED BY <1>1, <1>8, <2>3 DEF M!Perform
<1>9. CASE o.op = "refuse"
  BY <1>1, <1>9 DEF M!Perform, Growing
<1> QED BY <1>3, <1>4, <1>5, <1>6, <1>7, <1>8, <1>9 DEF Growing

\* What is in a database after an operation that succeeds.
LEMMA StaysUnpointed ==
  ASSUME NEW d, IsDatabase(d), Unpointed(d), NEW o, o.op \in Operations, Neat(o),
         M!Perform(d, o) # M!Failed
  PROVE  Unpointed(M!Perform(d, o))
<1> DEFINE e == M!Perform(d, o)
<1>a. ASSUME NEW s, IsTable(s), \A fk \in s.fks : fk[2] # "career_pages",
             e = M!WithTable(d, o.table, s)
      PROVE  Unpointed(e)
  <2>1. e.rows = d.rows
    BY <1>a, WithTableRows
  <2>2. /\ DOMAIN e.tables = DOMAIN d.tables \cup {o.table}
        /\ \A u \in DOMAIN d.tables \cup {o.table} :
               e.tables[u] = IF u = o.table THEN s ELSE d.tables[u]
    BY <1>a, WithTableIs
  <2> HIDE DEF e
  <2> QED BY <2>1, <2>2, <1>a DEF Unpointed
<1>1. CASE o.op \in {"move", "refuse"} /\ IsDatabase(e) /\ e.tables = d.tables
  <2>0. d # M!Failed
    BY DEF Unpointed, M!Failed
  <2>1. CASE o.op = "refuse"
    BY <2>1, <2>0, <1>1 DEF M!Perform
  <2>2. CASE o.op = "move"
    <3>1. e = d \/ e = [d EXCEPT !.rows = (@ \ {o.from}) \cup {o.to}]
      BY <2>2, <2>0 DEF M!Perform
    <3>2. [d EXCEPT !.rows = (@ \ {o.from}) \cup {o.to}].rows = (d.rows \ {o.from}) \cup {o.to}
      BY DEF IsDatabase
    <3>3. o.to # "failed"
      BY <2>2 DEF Neat
    <3>4. "failed" \notin e.rows
      BY <3>1, <3>2, <3>3 DEF Unpointed
    <3> QED BY <3>4, <1>1 DEF Unpointed
  <2> QED BY <1>1, <2>1, <2>2
<1>2. CASE o.op \in {"create", "ensure"} /\ Creates(o, d, e)
  BY <1>2, <1>a DEF Creates, Neat
<1>3. CASE e = d
  BY <1>3
<1>4. CASE o.op = "drop" /\ e = M!Without(d, o.table)
  <2>1. DOMAIN e.tables = DOMAIN d.tables \ {o.table}
        /\ \A u \in DOMAIN d.tables \ {o.table} : e.tables[u] = d.tables[u]
    BY <1>4, WithoutIs
  <2>2. "failed" \notin e.rows
    BY <1>4 DEF M!Without, Unpointed
  <2> HIDE DEF e
  <2> SUFFICES Unpointed(e)
    BY DEF e
  <2> QED BY <2>1, <2>2 DEF Unpointed
<1>5. CASE o.op \in {"add", "remove", "fk", "unfk", "unique", "ununique"} /\ Changes(o, d, e)
  <2> DEFINE s == d.tables[o.table]
             c == Changed(o, s)
  <2>1. IsTable(c)
    BY <1>5 DEF Changed, M!Table, IsTable
  <2>2. \A fk \in s.fks : fk[2] # "career_pages"
    BY <1>5 DEF Changes, M!Exists, Unpointed
  <2>3. e = M!WithTable(d, o.table, c)
    BY <1>5 DEF Changes
  <2>4. \A fk \in c.fks : fk[2] # "career_pages"
    BY <2>2, <1>5 DEF Changed, M!Table, Neat
  <2> HIDE DEF c, e
  <2>5. Unpointed(e)
    BY <2>1, <2>3, <2>4, <1>a
  <2> QED BY <2>5 DEF e
<1> QED BY <1>1, <1>2, <1>3, <1>4, <1>5, Effect

\* What an operation is to make is still missing after one that makes something else.
LEMMA StaysAbsent ==
  ASSUME NEW d, IsDatabase(d), NEW p, p.op \in Operations, M!Perform(d, p) # M!Failed,
         NEW o, Absent(o, d), Apart(p, o)
  PROVE  Absent(o, M!Perform(d, p))
<1> DEFINE e == M!Perform(d, p)
<1>1. CASE e.tables = d.tables
  BY <1>1 DEF Absent, M!Exists
<1>2. CASE p.op \in {"create", "ensure"} /\ Creates(p, d, e)
  <2>1. e.tables = [u \in DOMAIN d.tables \cup {p.table} |->
                       IF u = p.table THEN p.spec ELSE d.tables[u]]
    BY <1>2 DEF Creates, M!WithTable, IsDatabase
  <2> SUFFICES Absent(o, e)
    OBVIOUS
  <2> HIDE DEF e
  <2>2. o.op = "create" => ~M!Exists(e, o.table)
    BY <2>1, <1>2 DEF M!Exists, Absent, Apart
  <2>3. ASSUME o.op = "add", M!Exists(e, o.table) PROVE o.cols \cap e.tables[o.table].cols = {}
    <3>1. CASE p.table = o.table
      BY <2>1, <2>3, <3>1, <1>2 DEF Apart, M!Exists
    <3>2. CASE p.table # o.table
      BY <2>1, <2>3, <3>2 DEF Absent, M!Exists
    <3> QED BY <3>1, <3>2
  <2> QED BY <2>2, <2>3 DEF Absent
<1>3. CASE p.op = "drop" /\ e = M!Without(d, p.table)
  <2>1. DOMAIN e.tables = DOMAIN d.tables \ {p.table}
        /\ \A u \in DOMAIN d.tables \ {p.table} : e.tables[u] = d.tables[u]
    BY <1>3, WithoutIs
  <2> SUFFICES Absent(o, e)
    OBVIOUS
  <2> HIDE DEF e
  <2> QED BY <2>1 DEF Absent, M!Exists
<1>4. CASE p.op \in {"add", "remove", "fk", "unfk", "unique", "ununique"} /\ Changes(p, d, e)
  <2> DEFINE c == Changed(p, d.tables[p.table])
  <2>1. IsTable(c)
    BY <1>4 DEF Changed, M!Table, IsTable
  <2>2. /\ DOMAIN e.tables = DOMAIN d.tables
        /\ \A u \in DOMAIN d.tables : e.tables[u] = IF u = p.table THEN c ELSE d.tables[u]
    BY <1>4, <2>1, WithTableIs DEF Changes, M!Exists
  <2>3. c.cols \subseteq d.tables[p.table].cols \cup (IF p.op = "add" THEN p.cols ELSE {})
    BY <1>4 DEF Changed, M!Table
  <2> SUFFICES Absent(o, e)
    OBVIOUS
  <2> HIDE DEF e, c
  <2>4. ASSUME o.op = "add", o.table \in DOMAIN d.tables
        PROVE  o.cols \cap e.tables[o.table].cols = {}
    <3>1. o.cols \cap d.tables[o.table].cols = {}
      BY <2>4 DEF Absent, M!Exists
    <3>2. CASE p.table = o.table
      <4>1. p.op = "add" => p.cols \cap o.cols = {}
        BY <2>4, <3>2 DEF Apart
      <4> QED BY <2>2, <2>3, <2>4, <3>1, <3>2, <4>1
    <3>3. CASE p.table # o.table
      BY <2>2, <2>4, <3>1, <3>3
    <3> QED BY <3>2, <3>3
  <2> QED BY <2>2, <2>4 DEF Absent, M!Exists
<1>5. CASE e = d
  BY <1>5
<1> QED BY <1>1, <1>2, <1>3, <1>4, <1>5, Effect

\* What an operation has made is missing after it has been taken away.
LEMMA IsTaken ==
  ASSUME NEW d, IsDatabase(d), NEW p, M!Perform(d, p) # M!Failed, NEW o, Takes(p, o),
         o.op \in {"create", "add"}
  PROVE  Absent(o, M!Perform(d, p))
<1> DEFINE e == M!Perform(d, p)
<1>0. p.op \in Operations
  BY DEF Takes, Operations
<1>1. CASE p.op = "drop" /\ e = M!Without(d, p.table)
  <2>1. DOMAIN e.tables = DOMAIN d.tables \ {p.table}
    BY <1>1, WithoutIs
  <2> QED BY <2>1 DEF Absent, M!Exists, Takes
<1>2. CASE p.op = "remove" /\ Changes(p, d, e)
  <2> DEFINE c == Changed(p, d.tables[p.table])
  <2>1. IsTable(c)
    BY <1>2 DEF Changed, M!Table, IsTable
  <2>2. e.tables[p.table] = c
    BY <1>2, <2>1, WithTableIs DEF Changes, M!Exists
  <2>3. c.cols \cap p.cols = {}
    BY <1>2 DEF Changed, M!Table
  <2>4. o.op = "add" /\ o.cols \subseteq p.cols /\ o.table = p.table
    BY <1>2 DEF Takes
  <2> HIDE DEF c
  <2>5. o.cols \cap e.tables[o.table].cols = {}
    BY <2>2, <2>3, <2>4
  <2> SUFFICES Absent(o, e)
    OBVIOUS
  <2> HIDE DEF e
  <2> QED BY <2>4, <2>5 DEF Absent
<1> QED BY <1>0, <1>1, <1>2, Effect DEF Takes

\* What is missing and what nothing points to after a sequence of operations.
LEMMA SequencesTake ==
  ASSUME NEW d, Grounded(d), Unpointed(d), NEW ops, Len(ops) \in Nat,
         \A i \in 1..Len(ops) : Harmless(ops[i]) /\ Neat(ops[i]),
         M!PerformAll(d, ops) # M!Failed
  PROVE  /\ Unpointed(M!PerformAll(d, ops))
         /\ \A o : /\ \A i \in 1..Len(ops) : Apart(ops[i], o)
                   /\ \/ Absent(o, d)
                      \/ o.op \in {"create", "add"} /\ \E k \in 1..Len(ops) : Takes(ops[k], o)
                   => Absent(o, M!PerformAll(d, ops))
<1> DEFINE n == Len(ops)
<1>1. PICK f : /\ M!PerformAll(d, ops) = f[n] /\ f[0] = d
               /\ \A i \in 1..n : f[i] = M!Perform(f[i - 1], ops[i])
               /\ M!PerformAll(d, ops) # M!Failed => \A i \in 0..n : f[i] # M!Failed
  BY PerformAllRuns
<1>2. \A i \in 0..n : f[i] # M!Failed
  BY <1>1
<1>3. \A i \in 0..n : Grounded(f[i]) /\ Unpointed(f[i])
  <2> DEFINE S == {k \in Nat : Grounded(f[k]) /\ Unpointed(f[k])}
  <2>1. 0 \in S
    BY <1>1
  <2>2. ASSUME NEW k \in 0..(n - 1), k \in S PROVE k + 1 \in S
    <3>1. /\ Grounded(f[k]) /\ Unpointed(f[k]) /\ k + 1 \in 1..n
          /\ f[k + 1] = M!Perform(f[k], ops[k + 1])
      BY <1>1, <2>2
    <3>2. f[k + 1] # M!Failed /\ Harmless(ops[k + 1]) /\ Neat(ops[k + 1])
      BY <1>2, <3>1
    <3>3. Grounded(f[k + 1])
      BY <3>1, <3>2, StaysGrounded
    <3>4. Unpointed(f[k + 1])
      BY <3>1, <3>2, StaysUnpointed DEF Grounded, Harmless
    <3> QED BY <3>3, <3>4
  <2>3. 0..n \subseteq S
    <3>1. 0 \in Nat /\ n \in Nat
      OBVIOUS
    <3> HIDE DEF S, n
    <3> QED BY <3>1, <2>1, <2>2, FromTo, Zenon
  <2> QED BY <2>3
<1>4. ASSUME NEW o, \A i \in 1..n : Apart(ops[i], o), NEW m \in 0..n, Absent(o, f[m])
      PROVE  Absent(o, f[n])
  <2> DEFINE S == {k \in Nat : Absent(o, f[k])}
  <2>1. m \in S
    BY <1>4
  <2>2. ASSUME NEW k \in m..(n - 1), k \in S PROVE k + 1 \in S
    <3>1. /\ Absent(o, f[k]) /\ k \in 0..n /\ k + 1 \in 1..n
          /\ f[k + 1] = M!Perform(f[k], ops[k + 1])
      BY <1>1, <2>2
    <3>2. f[k + 1] # M!Failed /\ IsDatabase(f[k]) /\ ops[k + 1].op \in Operations
      BY <3>1, <1>2, <1>3 DEF Grounded, Harmless
    <3>3. Absent(o, f[k + 1])
      BY <3>1, <3>2, <1>4, StaysAbsent
    <3> QED BY <3>3
  <2>3. m..n \subseteq S
    <3>1. m \in Nat /\ n \in Nat
      OBVIOUS
    <3> HIDE DEF S, n
    <3> QED BY <3>1, <2>1, <2>2, FromTo, Zenon
  <2> QED BY <2>3
<1>5. ASSUME NEW o, o.op \in {"create", "add"}, NEW k \in 1..n, Takes(ops[k], o)
      PROVE  Absent(o, f[k])
  <2>1. k - 1 \in 0..n /\ f[k] = M!Perform(f[k - 1], ops[k]) /\ f[k] # M!Failed
    BY <1>1, <1>2
  <2>2. IsDatabase(f[k - 1])
    BY <2>1, <1>3 DEF Grounded
  <2> QED BY <2>1, <2>2, <1>5, IsTaken
<1>6. Unpointed(f[n]) /\ 0 \in 0..n /\ \A k \in 1..n : k \in 0..n
  BY <1>3
<1> HIDE DEF n
<1> QED BY <1>1, <1>4, <1>5, <1>6 DEF n

\* The tables of the operations of a sequence before the i-th one.
Before(ops, i) == {ops[j].table : j \in 1..(i - 1)}

\* A sequence of building operations succeeds when each finds what it needs in the database or
\* in what the ones before it have built, and none makes what another is to make.
LEMMA SequencesSucceed ==
  ASSUME NEW d, Grounded(d), Unpointed(d), NEW ops, Len(ops) \in Nat,
         \A i \in 1..Len(ops) :
             /\ Harmless(ops[i]) /\ Neat(ops[i]) /\ ops[i].op \in Growing
             /\ Absent(ops[i], d)
             /\ Needs(ops[i]) \subseteq DOMAIN d.tables \cup Before(ops, i),
         \A i, j \in 1..Len(ops) : i < j => Apart(ops[i], ops[j])
  PROVE  M!PerformAll(d, ops) # M!Failed
<1> DEFINE n == Len(ops)
<1>1. PICK f : /\ M!PerformAll(d, ops) = f[n] /\ f[0] = d
               /\ \A i \in 1..n : f[i] = M!Perform(f[i - 1], ops[i])
  BY PerformAllRuns
<1> DEFINE Good(k) ==
      /\ f[k] # M!Failed /\ Grounded(f[k]) /\ Unpointed(f[k])
      /\ DOMAIN d.tables \cup Before(ops, k + 1) \subseteq DOMAIN f[k].tables
      /\ \A j \in (k + 1)..n : Absent(ops[j], f[k])
    S == {k \in Nat : Good(k)}
<1>2. 0 \in S
  <2>1. d # M!Failed
    BY DEF Unpointed, M!Failed
  <2>2. Before(ops, 1) = {}
    BY DEF Before
  <2> QED BY <1>1, <2>1, <2>2
<1>3. ASSUME NEW k \in 0..(n - 1), k \in S PROVE k + 1 \in S
  <2> DEFINE o == ops[k + 1]
  <2>1. Good(k) /\ k + 1 \in 1..n /\ f[k + 1] = M!Perform(f[k], o)
    BY <1>1, <1>3
  <2>2. /\ Harmless(o) /\ Neat(o) /\ o.op \in Growing
        /\ Needs(o) \subseteq DOMAIN d.tables \cup Before(ops, k + 1)
    BY <2>1
  <2>3. IsDatabase(f[k]) /\ o.op \in Operations
    BY <2>1, <2>2 DEF Grounded, Harmless
  <2>4. Absent(o, f[k]) /\ Needs(o) \subseteq DOMAIN f[k].tables
    BY <2>1, <2>2
  <2>5. f[k + 1] # M!Failed
    BY <2>1, <2>2, <2>3, <2>4, Succeeds
  <2>6. Grounded(f[k + 1]) /\ Unpointed(f[k + 1])
    BY <2>1, <2>2, <2>3, <2>5, StaysGrounded, StaysUnpointed
  <2>7. \A j \in (k + 2)..n : Absent(ops[j], f[k + 1])
    <3> SUFFICES ASSUME NEW j \in (k + 2)..n PROVE Absent(ops[j], f[k + 1])
      OBVIOUS
    <3>1. Absent(ops[j], f[k]) /\ Apart(o, ops[j])
      BY <2>1
    <3> QED BY <3>1, <2>1, <2>3, <2>5, StaysAbsent
  <2>8. DOMAIN f[k].tables \cup {o.table} \subseteq DOMAIN f[k + 1].tables
    <3>1. o.op \in Building
      BY <2>2 DEF Growing, Building
    <3>2. InPlace(o, f[k + 1])
      BY <2>1, <2>3, <2>5, <3>1, IsBuilt
    <3>3. ASSUME NEW t \in DOMAIN f[k].tables PROVE t \in DOMAIN f[k + 1].tables
      <4> DEFINE c == [op |-> "create", table |-> t]
      <4>1. InPlace(c, f[k])
        BY DEF InPlace, M!Exists
      <4>2. Spares(o, c)
        BY <2>2 DEF Spares, Growing
      <4>3. InPlace(c, f[k + 1])
        BY <2>1, <2>3, <2>5, <4>1, <4>2, StaysInPlace
      <4> QED BY <4>3 DEF InPlace, M!Exists
    <3> QED BY <3>2, <3>3 DEF InPlace, M!Exists
  <2>9. Before(ops, k + 2) = Before(ops, k + 1) \cup {o.table}
    <3>1. 1..(k + 2 - 1) = 1..(k + 1 - 1) \cup {k + 1}
      OBVIOUS
    <3> QED BY <3>1 DEF Before
  <2>10. k + 1 \in Nat /\ (k + 1) + 1 = k + 2
    OBVIOUS
  <2> HIDE DEF o, n
  <2>11. Good(k + 1)
    BY <2>1, <2>5, <2>6, <2>7, <2>8, <2>9, <2>10
  <2> HIDE DEF Good
  <2> QED BY <2>10, <2>11
<1>4. 0..n \subseteq S
  <2>1. 0 \in Nat /\ n \in Nat
    OBVIOUS
  <2> HIDE DEF S, n
  <2> QED BY <2>1, <1>2, <1>3, FromTo, Zenon
<1>5. n \in S
  BY <1>4
<1> QED BY <1>1, <1>5

-----------------------------------------------------------------------------
(* The operations the revisions consist of. *)

\* The tables the creation of a table asks for: those its foreign keys point to.
Asks(t) ==
    CASE t \in {"users", "companies", "source_registry", "field_mapping_rules"} -> {}
      [] t \in {"auto_apply_runs"} -> {"auto_apply_rules", "jobs", "users"}
      [] t \in {"applications"} -> {"jobs", "resume_versions", "users"}
      [] t \in {"application_status_history"} -> {"applications"}
      [] t \in {"auto_apply_rules"} -> {"auto_apply_profiles", "users"}
      [] t \in {"cover_letters", "interview_sessions", "dedup_feedback", "application_dedup"} ->
             {"jobs", "users"}
      [] t \in {"source_check_log"} -> {"source_registry"}
      [] t \in {"raw_job_sources"} -> {"canonical_jobs", "jobs"}
      [] t \in {"followup_reminders", "email_logs", "application_outcomes"} ->
             {"applications", "users"}
      [] t \in {"query_performance"} -> {"query_templates", "users"}
      [] t \in {"scrape_attempts"} -> {"scrape_targets", "scraper_runs"}
      [] t \in {"referral_requests"} -> {"contacts", "jobs", "users"}
      [] OTHER -> {"users"}

\* The operations that create a table, of all upgrades and downgrades.
Created ==
  {M!CreateUsers, M!CreateJobs, M!CreateSavedSearches, M!CreateScraperRuns, M!CreateCareerPages,
   M!CreateUserProfiles, M!CreateResumeVersions, M!CreateApplications,
   M!CreateApplicationStatusHistory, M!CreateAutoApplyProfiles, M!CreateAutoApplyRules,
   M!CreateAutoApplyRuns, M!CreateCoverLetters, M!CreateInterviewSessions, M!CreateSalaryCache,
   M!CreateCompanies, M!CreateSourceRegistry, M!CreateSourceCheckLog, M!CreateNotifications,
   M!CreateCanonicalJobs, M!CreateRawJobSources, M!CreateFollowupReminders,
   M!CreateQueryTemplates, M!CreateExpansionRules, M!CreateQueryPerformance,
   M!CreateScrapeTargets, M!CreateScrapeAttempts, M!RecreateCareerPages, M!CreateEmailLogs,
   M!CreateContacts, M!CreateReferralRequests, M!CreateResumeArchetypes, M!CreateDedupFeedback,
   M!CreateFieldMappingRules, M!CreateApplicationDedup, M!EnsureResumeArchetypes,
   M!EnsureFieldMappingRules, M!EnsureApplicationDedup, M!EnsureDedupFeedback, M!EnsureEmailLogs,
   M!EnsureContacts, M!EnsureReferralRequests, M!EnsureMlModelArtifacts,
   M!EnsureApplicationOutcomes, M!EnsureCompanyInsights, M!CreateUserIntegrationSecrets}

\* A creation asks for those tables and has no column a later revision adds.
Fresh(o)  == \A a \in Additions : a.table = o.table => a.cols \cap o.spec.cols = {}
Origin(o) == /\ o.op \in {"create", "ensure"} /\ IsTable(o.spec)
             /\ Needs(o) \subseteq Asks(o.table) /\ Fresh(o)

\* The keys every table is created with.
LEMMA Pointing == \A o \in Created : Needs(o) \subseteq Asks(o.table)
<1>1. \A o \in {M!CreateUsers, M!CreateCompanies, M!CreateSourceRegistry, M!CreateFieldMappingRules,
            M!EnsureFieldMappingRules} : Needs(o) \subseteq Asks(o.table)
  BY DEF Needs, Asks, M!Create, M!Ensure, M!Table, M!Owner, M!CreateUsers, M!CreateCompanies,
     M!CreateSourceRegistry, M!CreateFieldMappingRules, M!EnsureFieldMappingRules
<1>2. \A o \in {M!CreateJobs, M!CreateSavedSearches, M!CreateScraperRuns, M!CreateCareerPages,
            M!CreateUserProfiles, M!CreateResumeVersions, M!CreateAutoApplyProfiles,
            M!CreateSalaryCache, M!CreateNotifications, M!CreateCanonicalJobs,
            M!CreateQueryTemplates, M!CreateExpansionRules, M!CreateScrapeTargets,
            M!RecreateCareerPages, M!CreateContacts, M!CreateResumeArchetypes,
            M!EnsureResumeArchetypes, M!EnsureContacts, M!EnsureMlModelArtifacts,
            M!EnsureCompanyInsights, M!CreateUserIntegrationSecrets}
                      : Needs(o) \subseteq Asks(o.table)
  BY DEF Needs, Asks, M!Create, M!Ensure, M!Table, M!Owner, M!CreateJobs, M!CreateSavedSearches,
     M!CreateScraperRuns, M!CreateCareerPages, M!CreateUserProfiles, M!CreateResumeVersions,
     M!CreateAutoApplyProfiles, M!CreateSalaryCache, M!CreateNotifications,
     M!CreateCanonicalJobs, M!CreateQueryTemplates, M!CreateExpansionRules,
     M!CreateScrapeTargets, M!RecreateCareerPages, M!CreateContacts, M!CreateResumeArchetypes,
     M!EnsureResumeArchetypes, M!EnsureContacts, M!EnsureMlModelArtifacts,
     M!EnsureCompanyInsights, M!CreateUserIntegrationSecrets
<1>3. Needs(M!CreateApplications) \subseteq Asks(M!CreateApplications.table)
  BY DEF Needs, Asks, M!Create, M!Ensure, M!Table, M!Owner, M!CreateApplications
<1>4. Needs(M!CreateApplicationStatusHistory) \subseteq Asks(M!CreateApplicationStatusHistory.table)
  BY DEF Needs, Asks, M!Create, M!Ensure, M!Table, M!Owner, M!CreateApplicationStatusHistory
<1>5. Needs(M!CreateAutoApplyRules) \subseteq Asks(M!CreateAutoApplyRules.table)
  BY DEF Needs, Asks, M!Create, M!Ensure, M!Table, M!Owner, M!CreateAutoApplyRules
<1>6. Needs(M!CreateAutoApplyRuns) \subseteq Asks(M!CreateAutoApplyRuns.table)
  BY DEF Needs, Asks, M!Create, M!Ensure, M!Table, M!Owner, M!CreateAutoApplyRuns
<1>7. Needs(M!CreateCoverLetters) \subseteq Asks(M!CreateCoverLetters.table)
  BY DEF Needs, Asks, M!Create, M!Ensure, M!Table, M!Owner, M!CreateCoverLetters
<1>8. Needs(M!CreateInterviewSessions) \subseteq Asks(M!CreateInterviewSessions.table)
  BY DEF Needs, Asks, M!Create, M!Ensure, M!Table, M!Owner, M!CreateInterviewSessions
<1>9. Needs(M!CreateSourceCheckLog) \subseteq Asks(M!CreateSourceCheckLog.table)
  BY DEF Needs, Asks, M!Create, M!Ensure, M!Table, M!Owner, M!CreateSourceCheckLog
<1>10. Needs(M!CreateRawJobSources) \subseteq Asks(M!CreateRawJobSources.table)
  BY DEF Needs, Asks, M!Create, M!Ensure, M!Table, M!Owner, M!CreateRawJobSources
<1>11. Needs(M!CreateFollowupReminders) \subseteq Asks(M!CreateFollowupReminders.table)
  BY DEF Needs, Asks, M!Create, M!Ensure, M!Table, M!Owner, M!CreateFollowupReminders
<1>12. Needs(M!CreateQueryPerformance) \subseteq Asks(M!CreateQueryPerformance.table)
  BY DEF Needs, Asks, M!Create, M!Ensure, M!Table, M!Owner, M!CreateQueryPerformance
<1>13. Needs(M!CreateScrapeAttempts) \subseteq Asks(M!CreateScrapeAttempts.table)
  BY DEF Needs, Asks, M!Create, M!Ensure, M!Table, M!Owner, M!CreateScrapeAttempts
<1>14. Needs(M!CreateEmailLogs) \subseteq Asks(M!CreateEmailLogs.table)
  BY DEF Needs, Asks, M!Create, M!Ensure, M!Table, M!Owner, M!CreateEmailLogs
<1>15. Needs(M!CreateReferralRequests) \subseteq Asks(M!CreateReferralRequests.table)
  BY DEF Needs, Asks, M!Create, M!Ensure, M!Table, M!Owner, M!CreateReferralRequests
<1>16. Needs(M!CreateDedupFeedback) \subseteq Asks(M!CreateDedupFeedback.table)
  BY DEF Needs, Asks, M!Create, M!Ensure, M!Table, M!Owner, M!CreateDedupFeedback
<1>17. Needs(M!CreateApplicationDedup) \subseteq Asks(M!CreateApplicationDedup.table)
  BY DEF Needs, Asks, M!Create, M!Ensure, M!Table, M!Owner, M!CreateApplicationDedup
<1>18. Needs(M!EnsureApplicationDedup) \subseteq Asks(M!EnsureApplicationDedup.table)
  BY DEF Needs, Asks, M!Create, M!Ensure, M!Table, M!Owner, M!EnsureApplicationDedup
<1>19. Needs(M!EnsureDedupFeedback) \subseteq Asks(M!EnsureDedupFeedback.table)
  BY DEF Needs, Asks, M!Create, M!Ensure, M!Table, M!Owner, M!EnsureDedupFeedback
<1>20. Needs(M!EnsureEmailLogs) \subseteq Asks(M!EnsureEmailLogs.table)
  BY DEF Needs, Asks, M!Create, M!Ensure, M!Table, M!Owner, M!EnsureEmailLogs
<1>21. Needs(M!EnsureReferralRequests) \subseteq Asks(M!EnsureReferralRequests.table)
  BY DEF Needs, Asks, M!Create, M!Ensure, M!Table, M!Owner, M!EnsureReferralRequests
<1>22. Needs(M!EnsureApplicationOutcomes) \subseteq Asks(M!EnsureApplicationOutcomes.table)
  BY DEF Needs, Asks, M!Create, M!Ensure, M!Table, M!Owner, M!EnsureApplicationOutcomes
<1> HIDE DEF Needs, Asks
<1> QED BY <1>1, <1>2, <1>3, <1>4, <1>5, <1>6, <1>7, <1>8, <1>9, <1>10, <1>11, <1>12, <1>13, <1>14,
           <1>15, <1>16, <1>17, <1>18, <1>19, <1>20, <1>21, <1>22 DEF Created

\* No table is created with a column that a later revision adds.
LEMMA NewColumns == \A o \in Created : Fresh(o)
<1> DEFINE Altered == {"companies", "source_registry", "user_profiles", "saved_searches", "jobs",
                       "scraper_runs", "users", "scrape_attempts", "user_integration_secrets",
                       "email_logs", "auto_apply_runs"}
<1>1. \A a \in Additions : a.table \in Altered
  BY DEF Additions, M!AddColumns
<1>2. \A o \in {M!CreateCareerPages, M!CreateResumeVersions, M!CreateApplications,
            M!CreateApplicationStatusHistory, M!CreateAutoApplyProfiles, M!CreateAutoApplyRules,
            M!CreateCoverLetters, M!CreateInterviewSessions, M!CreateSalaryCache,
            M!CreateSourceCheckLog, M!CreateNotifications, M!CreateCanonicalJobs,
            M!CreateRawJobSources, M!CreateFollowupReminders, M!CreateQueryTemplates,
            M!CreateExpansionRules, M!CreateQueryPerformance, M!CreateScrapeTargets,
            M!RecreateCareerPages, M!CreateContacts, M!CreateReferralRequests,
            M!CreateResumeArchetypes, M!CreateDedupFeedback, M!CreateFieldMappingRules,
            M!CreateApplicationDedup, M!EnsureResumeArchetypes, M!EnsureFieldMappingRules,
            M!EnsureApplicationDedup, M!EnsureDedupFeedback, M!EnsureContacts,
            M!EnsureReferralRequests, M!EnsureMlModelArtifacts, M!EnsureApplicationOutcomes,
            M!EnsureCompanyInsights} : o.table \notin Altered
  BY DEF M!Create, M!Ensure, M!CreateCareerPages, M!CreateResumeVersions, M!CreateApplications,
     M!CreateApplicationStatusHistory, M!CreateAutoApplyProfiles, M!CreateAutoApplyRules,
     M!CreateCoverLetters, M!CreateInterviewSessions, M!CreateSalaryCache,
     M!CreateSourceCheckLog, M!CreateNotifications, M!CreateCanonicalJobs,
     M!CreateRawJobSources, M!CreateFollowupReminders, M!CreateQueryTemplates,
     M!CreateExpansionRules, M!CreateQueryPerformance, M!CreateScrapeTargets,
     M!RecreateCareerPages, M!CreateContacts, M!CreateReferralRequests,
     M!CreateResumeArchetypes, M!CreateDedupFeedback, M!CreateFieldMappingRules,
     M!CreateApplicationDedup, M!EnsureResumeArchetypes, M!EnsureFieldMappingRules,
     M!EnsureApplicationDedup, M!EnsureDedupFeedback, M!EnsureContacts,
     M!EnsureReferralRequests, M!EnsureMlModelArtifacts, M!EnsureApplicationOutcomes,
     M!EnsureCompanyInsights
<1>3. Fresh(M!CreateUsers)
  BY DEF Fresh, Additions, M!AddColumns, M!Create, M!Ensure, M!Table, M!CreateUsers
<1>4. Fresh(M!CreateJobs)
  BY DEF Fresh, Additions, M!AddColumns, M!Create, M!Ensure, M!Table, M!CreateJobs,
     M!LifecycleColumns, M!AtsColumns
<1>5. Fresh(M!CreateSavedSearches)
  BY DEF Fresh, Additions, M!AddColumns, M!Create, M!Ensure, M!Table, M!CreateSavedSearches,
     M!AlertColumns
<1>6. Fresh(M!CreateScraperRuns)
  BY DEF Fresh, Additions, M!AddColumns, M!Create, M!Ensure, M!Table, M!CreateScraperRuns,
     M!TierColumns
<1>7. Fresh(M!CreateUserProfiles)
  BY DEF Fresh, Additions, M!AddColumns, M!Create, M!Ensure, M!Table, M!CreateUserProfiles,
     M!ProfileColumns
<1>8. Fresh(M!CreateAutoApplyRuns)
  BY DEF Fresh, Additions, M!AddColumns, M!Create, M!Ensure, M!Table, M!CreateAutoApplyRuns
<1>9. Fresh(M!CreateCompanies)
  BY DEF Fresh, Additions, M!AddColumns, M!Create, M!Ensure, M!Table, M!CreateCompanies,
     M!CompanyColumns
<1>10. Fresh(M!CreateSourceRegistry)
  BY DEF Fresh, Additions, M!AddColumns, M!Create, M!Ensure, M!Table, M!CreateSourceRegistry,
     M!RegistryColumns
<1>11. Fresh(M!CreateScrapeAttempts)
  BY DEF Fresh, Additions, M!AddColumns, M!Create, M!Ensure, M!Table, M!CreateScrapeAttempts,
     M!AttemptColumns
<1>12. Fresh(M!CreateEmailLogs)
  BY DEF Fresh, Additions, M!AddColumns, M!Create, M!Ensure, M!Table, M!CreateEmailLogs,
     M!ProvenanceColumns
<1>13. Fresh(M!EnsureEmailLogs)
  BY DEF Fresh, Additions, M!AddColumns, M!Create, M!Ensure, M!Table, M!EnsureEmailLogs,
     M!ProvenanceColumns
<1>14. Fresh(M!CreateUserIntegrationSecrets)
  BY DEF Fresh, Additions, M!AddColumns, M!Create, M!Ensure, M!Table,
     M!CreateUserIntegrationSecrets, M!SecretColumns
<1>15. \A o : o.table \notin Altered => Fresh(o)
  BY <1>1 DEF Fresh
<1> HIDE DEF Altered, Fresh
<1> QED BY <1>2, <1>3, <1>4, <1>5, <1>6, <1>7, <1>8, <1>9, <1>10, <1>11, <1>12, <1>13, <1>14,
           <1>15 DEF Created

\* What every creation is.
LEMMA Origins == \A o \in Created : Origin(o)
<1>1. \A o \in Created : o.op \in {"create", "ensure"} /\ IsTable(o.spec)
  BY Creations DEF Created, Makes
<1> QED BY <1>1, Pointing, NewColumns DEF Origin

\* The revision that creates a table first.
CreatedBy(t) ==
    CASE t \in {"users"} -> "001"
      [] t \in {"jobs", "saved_searches", "scraper_runs", "career_pages", "user_profiles",
                "resume_versions", "applications", "application_status_history",
                "auto_apply_profiles", "auto_apply_rules", "auto_apply_runs", "cover_letters",
                "interview_sessions", "salary_cache", "companies", "source_registry",
                "source_check_log"} -> "002"
      [] t \in {"notifications", "canonical_jobs", "raw_job_sources", "followup_reminders",
                "query_templates", "expansion_rules", "query_performance"} -> "003"
      [] t \in {"scrape_targets", "scrape_attempts"} -> "scrape_targets"
      [] t \in {"email_logs"} -> "004"
      [] t \in {"contacts", "referral_requests"} -> "networking"
      [] t \in {"resume_archetypes"} -> "archetypes"
      [] t \in {"dedup_feedback"} -> "dedup_feedback"
      [] t \in {"field_mapping_rules", "application_dedup"} -> "form_learning"
      [] t \in {"ml_model_artifacts", "application_outcomes", "company_insights"} -> "005"
      [] t \in {"user_integration_secrets"} -> "integration_secrets"

\* What an upgrade consists of, but for the one that drops the career pages: creations and
\* alterations, each of its own revision; only revision 005 makes what others may have made.
Stock(r, o) ==
    /\ o \in Created \/ o \in Alterations(r)
    /\ o.op = "create" => CreatedBy(o.table) = r
    /\ o.op = "ensure" => r = "005" /\ CreatedBy(o.table) \in M!Branches \cup {"005"}

\* The operations of an upgrade stand in an order in which each finds what it needs, and no
\* table is made twice.
Ordered(ops, ts) ==
    /\ \A i \in 1..Len(ops) : Needs(ops[i]) \subseteq ts \cup Before(ops, i)
    /\ \A i, j \in 1..Len(ops) :
           i < j /\ ops[j].op \in {"create", "add"} /\ ops[i].op \in {"create", "ensure", "add"}
               => ops[i].table # ops[j].table
\* The tables that are there when a revision is about to run.
Standing(r) == {t \in Tables : TableRank(t) < Rank(r)}

\* An alteration changes a table that exists.
LEMMA Altering ==
  ASSUME NEW r \in M!Revisions, NEW o \in Alterations(r)
  PROVE  o.op \in {"add", "fk", "unique"} /\ Stock(r, o)
BY DEF Stock, Alterations, M!AddColumns, M!SetForeignKey, M!AddUnique

\* Every upgrade but the one that drops the career pages consists of creations and alterations.
LEMMA UpgradesStock ==
  ASSUME NEW r \in M!Revisions \ {"career_pages"}, NEW o \in Made(M!Up(r))
  PROVE  Stock(r, o)
<1>1. CASE r = "001"
  <2>1. M!Up(r) = M!Up001
    BY <1>1 DEF M!Up, M!Branches
  <2>2. \A p \in {M!CreateUsers} : Stock(r, p)
    BY <1>1 DEF Stock, Created, CreatedBy, M!Branches, M!Create, M!Ensure, M!CreateUsers
  <2> QED BY <2>1, <2>2 DEF Made, M!Up001
<1>2. CASE r = "002"
  <2>1. M!Up(r) = M!Up002
    BY <1>2 DEF M!Up, M!Branches
  <2>2. \A p \in {M!CreateJobs, M!CreateSavedSearches, M!CreateScraperRuns,
                        M!CreateCareerPages, M!CreateUserProfiles, M!CreateResumeVersions,
                        M!CreateApplications, M!CreateApplicationStatusHistory,
                        M!CreateAutoApplyProfiles, M!CreateAutoApplyRules, M!CreateAutoApplyRuns,
                        M!CreateCoverLetters, M!CreateInterviewSessions, M!CreateSalaryCache,
                        M!CreateCompanies, M!CreateSourceRegistry, M!CreateSourceCheckLog}
                                  : Stock(r, p)
    BY <1>2 DEF Stock, Created, CreatedBy, M!Branches, M!Create, M!Ensure, M!CreateJobs,
         M!CreateSavedSearches, M!CreateScraperRuns, M!CreateCareerPages, M!CreateUserProfiles,
         M!CreateResumeVersions, M!CreateApplications, M!CreateApplicationStatusHistory,
         M!CreateAutoApplyProfiles, M!CreateAutoApplyRules, M!CreateAutoApplyRuns,
         M!CreateCoverLetters, M!CreateInterviewSessions, M!CreateSalaryCache, M!CreateCompanies,
         M!CreateSourceRegistry, M!CreateSourceCheckLog
  <2> QED BY <2>1, <2>2 DEF Made, M!Up002
<1>3. CASE r = "003"
  <2>1. M!Up(r) = M!Up003
    BY <1>3 DEF M!Up, M!Branches
  <2>2. \A p \in {M!CreateNotifications, M!CreateCanonicalJobs, M!CreateRawJobSources,
                        M!CreateFollowupReminders, M!CreateQueryTemplates, M!CreateExpansionRules,
                        M!CreateQueryPerformance} : Stock(r, p)
    BY <1>3 DEF Stock, Created, CreatedBy, M!Branches, M!Create, M!Ensure, M!CreateNotifications,
         M!CreateCanonicalJobs, M!CreateRawJobSources, M!CreateFollowupReminders,
         M!CreateQueryTemplates, M!CreateExpansionRules, M!CreateQueryPerformance
  <2>3. \A p \in Made(M!Up003) \ {M!CreateNotifications, M!CreateCanonicalJobs,
            M!CreateRawJobSources,
                        M!CreateFollowupReminders, M!CreateQueryTemplates, M!CreateExpansionRules,
                        M!CreateQueryPerformance} : p \in Alterations(r)
    BY <1>3 DEF Made, M!Up003, Alterations
  <2> QED BY <2>1, <2>2, <2>3, Altering
<1>4. CASE r = "scrape_targets"
  <2>1. M!Up(r) = M!UpTargets
    BY <1>4 DEF M!Up, M!Branches
  <2>2. \A p \in {M!CreateScrapeTargets, M!CreateScrapeAttempts} : Stock(r, p)
    BY <1>4 DEF Stock, Created, CreatedBy, M!Branches, M!Create, M!Ensure, M!CreateScrapeTargets,
         M!CreateScrapeAttempts
  <2> QED BY <2>1, <2>2 DEF Made, M!UpTargets
<1>5. CASE r = "job_lifecycle"
  <2>1. M!Up(r) = M!UpLifecycle
    BY <1>5 DEF M!Up, M!Branches
  <2>2. \A p \in Made(M!UpLifecycle) : p \in Alterations(r)
    BY <1>5 DEF Made, M!UpLifecycle, Alterations
  <2> QED BY <2>1, <2>2, Altering
<1>6. CASE r = "audit_fixes"
  <2>1. M!Up(r) = M!UpAudit
    BY <1>6 DEF M!Up, M!Branches
  <2>2. \A p \in Made(M!UpAudit) : p \in Alterations(r)
    BY <1>6 DEF Made, M!UpAudit, Alterations, M!AuditedForeignKeys, Audited
  <2> QED BY <2>1, <2>2, Altering
<1>7. CASE r = "004"
  <2>1. M!Up(r) = M!UpEmail
    BY <1>7 DEF M!Up, M!Branches
  <2>2. \A p \in {M!CreateEmailLogs} : Stock(r, p)
    BY <1>7 DEF Stock, Created, CreatedBy, M!Branches, M!Create, M!Ensure, M!CreateEmailLogs
  <2> QED BY <2>1, <2>2 DEF Made, M!UpEmail
<1>8. CASE r = "networking"
  <2>1. M!Up(r) = M!UpNetworking
    BY <1>8 DEF M!Up, M!Branches
  <2>2. \A p \in {M!CreateContacts, M!CreateReferralRequests} : Stock(r, p)
    BY <1>8 DEF Stock, Created, CreatedBy, M!Branches, M!Create, M!Ensure, M!CreateContacts,
         M!CreateReferralRequests
  <2> QED BY <2>1, <2>2 DEF Made, M!UpNetworking
<1>9. CASE r = "archetypes"
  <2>1. M!Up(r) = M!UpArchetypes
    BY <1>9 DEF M!Up, M!Branches
  <2>2. \A p \in {M!CreateResumeArchetypes} : Stock(r, p)
    BY <1>9 DEF Stock, Created, CreatedBy, M!Branches, M!Create, M!Ensure, M!CreateResumeArchetypes
  <2> QED BY <2>1, <2>2 DEF Made, M!UpArchetypes
<1>10. CASE r = "dedup_feedback"
  <2>1. M!Up(r) = M!UpFeedback
    BY <1>10 DEF M!Up, M!Branches
  <2>2. \A p \in {M!CreateDedupFeedback} : Stock(r, p)
    BY <1>10 DEF Stock, Created, CreatedBy, M!Branches, M!Create, M!Ensure, M!CreateDedupFeedback
  <2> QED BY <2>1, <2>2 DEF Made, M!UpFeedback
<1>11. CASE r = "form_learning"
  <2>1. M!Up(r) = M!UpFormLearning
    BY <1>11 DEF M!Up, M!Branches
  <2>2. \A p \in {M!CreateFieldMappingRules, M!CreateApplicationDedup} : Stock(r, p)
    BY <1>11 DEF Stock, Created, CreatedBy, M!Branches, M!Create, M!Ensure,
           M!CreateFieldMappingRules,
         M!CreateApplicationDedup
  <2> QED BY <2>1, <2>2 DEF Made, M!UpFormLearning
<1>12. CASE r = "005"
  <2> DEFINE Ensured == {"resume_archetypes", "field_mapping_rules", "application_dedup",
                       "dedup_feedback", "email_logs", "contacts", "referral_requests",
                       "ml_model_artifacts", "application_outcomes",
                       "company_insights"}
  <2>1. M!Up(r) = M!Up005
    BY <1>12 DEF M!Up, M!Branches
  <2>2. \A p \in {M!EnsureResumeArchetypes, M!EnsureFieldMappingRules, M!EnsureApplicationDedup,
                 M!EnsureDedupFeedback, M!EnsureEmailLogs, M!EnsureContacts,
                 M!EnsureReferralRequests, M!EnsureMlModelArtifacts, M!EnsureApplicationOutcomes,
                 M!EnsureCompanyInsights} :
            p \in Created /\ p.op = "ensure" /\ p.table \in Ensured
    BY DEF Created, M!Ensure, M!EnsureResumeArchetypes, M!EnsureFieldMappingRules,
           M!EnsureApplicationDedup, M!EnsureDedupFeedback, M!EnsureEmailLogs, M!EnsureContacts,
           M!EnsureReferralRequests, M!EnsureMlModelArtifacts, M!EnsureApplicationOutcomes,
           M!EnsureCompanyInsights
  <2>3. \A t \in Ensured : CreatedBy(t) \in M!Branches \cup {"005"}
    BY DEF CreatedBy, M!Branches
  <2> HIDE DEF Ensured
  <2>4. \A p \in {M!EnsureResumeArchetypes, M!EnsureFieldMappingRules, M!EnsureApplicationDedup,
                 M!EnsureDedupFeedback, M!EnsureEmailLogs, M!EnsureContacts,
                 M!EnsureReferralRequests, M!EnsureMlModelArtifacts, M!EnsureApplicationOutcomes,
                 M!EnsureCompanyInsights} : Stock(r, p)
    BY <1>12, <2>2, <2>3 DEF Stock
  <2> QED BY <2>1, <2>4 DEF Made, M!Up005
<1>13. CASE r = "integration_secrets"
  <2>1. M!Up(r) = M!UpSecrets
    BY <1>13 DEF M!Up, M!Branches
  <2>2. \A p \in {M!CreateUserIntegrationSecrets} : Stock(r, p)
    BY <1>13 DEF Stock, Created, CreatedBy, M!Branches, M!Create, M!Ensure,
           M!CreateUserIntegrationSecrets
  <2> QED BY <2>1, <2>2 DEF Made, M!UpSecrets
<1>14. CASE r = "ats_identity"
  <2>1. M!Up(r) = M!UpAts
    BY <1>14 DEF M!Up, M!Branches
  <2>2. \A p \in Made(M!UpAts) : p \in Alterations(r)
    BY <1>14 DEF Made, M!UpAts, Alterations
  <2> QED BY <2>1, <2>2, Altering
<1>15. CASE r = "saved_search_alerts"
  <2>1. M!Up(r) = M!UpAlerts
    BY <1>15 DEF M!Up, M!Branches
  <2>2. \A p \in Made(M!UpAlerts) : p \in Alterations(r)
    BY <1>15 DEF Made, M!UpAlerts, Alterations
  <2> QED BY <2>1, <2>2, Altering
<1>16. CASE r = "google_integration"
  <2>1. M!Up(r) = M!UpGoogle
    BY <1>16 DEF M!Up, M!Branches
  <2>2. \A p \in Made(M!UpGoogle) : p \in Alterations(r)
    BY <1>16 DEF Made, M!UpGoogle, Alterations
  <2> QED BY <2>1, <2>2, Altering
<1>17. CASE r = "auto_apply_review"
  <2>1. M!Up(r) = M!UpReview
    BY <1>17 DEF M!Up, M!Branches
  <2>2. \A p \in Made(M!UpReview) : p \in Alterations(r)
    BY <1>17 DEF Made, M!UpReview, Alterations
  <2> QED BY <2>1, <2>2, Altering
<1>18. CASE r \in {"attempt_indexes", "merge_heads"}
  BY <1>18 DEF M!Up, Made, M!Branches
<1> QED BY <1>1, <1>2, <1>3, <1>4, <1>5, <1>6, <1>7, <1>8, <1>9, <1>10, <1>11, <1>12, <1>13,
           <1>14, <1>15, <1>16, <1>17, <1>18 DEF M!Revisions, M!Branches

\* What is altered stands before.
LEMMA AlteringStands ==
  ASSUME NEW r \in M!Revisions, NEW o \in Alterations(r)
  PROVE  Needs(o) \subseteq Standing(r)
<1>1. CASE r = "003"
  <2>1. \A p \in Alterations(r) : Needs(p) \subseteq Standing(r)
    BY <1>1, RankIs, TableRankIs, DeclaredIs DEF Alterations, Standing, Needs, M!AddColumns,
       M!SetForeignKey, M!AddUnique, Audited
  <2> QED BY <2>1
<1>2. CASE r = "job_lifecycle"
  <2>1. \A p \in Alterations(r) : Needs(p) \subseteq Standing(r)
    BY <1>2, RankIs, TableRankIs, DeclaredIs DEF Alterations, Standing, Needs, M!AddColumns,
       M!SetForeignKey, M!AddUnique, Audited
  <2> QED BY <2>1
<1>3. CASE r = "audit_fixes"
  <2>1. \A p \in Alterations(r) : Needs(p) \subseteq Standing(r)
    BY <1>3, RankIs, TableRankIs, DeclaredIs DEF Alterations, Standing, Needs, M!AddColumns,
       M!SetForeignKey, M!AddUnique, Audited
  <2> QED BY <2>1
<1>4. CASE r = "ats_identity"
  <2>1. \A p \in Alterations(r) : Needs(p) \subseteq Standing(r)
    BY <1>4, RankIs, TableRankIs, DeclaredIs DEF Alterations, Standing, Needs, M!AddColumns,
       M!SetForeignKey, M!AddUnique, Audited
  <2> QED BY <2>1
<1>5. CASE r = "saved_search_alerts"
  <2>1. \A p \in Alterations(r) : Needs(p) \subseteq Standing(r)
    BY <1>5, RankIs, TableRankIs, DeclaredIs DEF Alterations, Standing, Needs, M!AddColumns,
       M!SetForeignKey, M!AddUnique, Audited
  <2> QED BY <2>1
<1>6. CASE r = "google_integration"
  <2>1. \A p \in Alterations(r) : Needs(p) \subseteq Standing(r)
    BY <1>6, RankIs, TableRankIs, DeclaredIs DEF Alterations, Standing, Needs, M!AddColumns,
       M!SetForeignKey, M!AddUnique, Audited
  <2> QED BY <2>1
<1>7. CASE r = "auto_apply_review"
  <2>1. \A p \in Alterations(r) : Needs(p) \subseteq Standing(r)
    BY <1>7, RankIs, TableRankIs, DeclaredIs DEF Alterations, Standing, Needs, M!AddColumns,
       M!SetForeignKey, M!AddUnique, Audited
  <2> QED BY <2>1
<1> QED BY <1>1, <1>2, <1>3, <1>4, <1>5, <1>6, <1>7 DEF Alterations

\* Every upgrade but the one that drops the career pages is in order.
LEMMA UpgradesOrdered ==
  ASSUME NEW r \in M!Revisions \ {"career_pages"}
  PROVE  Len(M!Up(r)) \in Nat /\ Ordered(M!Up(r), Standing(r))
<1>0. Len(M!Up(r)) \in Nat
  BY Upgrades
<1>1. CASE r = "001"
  <2>1. M!Up(r) = M!Up001 /\ Len(M!Up001) = 1
    BY <1>1 DEF M!Up, M!Branches, M!Up001
  <2> DEFINE names == <<"users">>
  <2>2. \A i \in 1..1 : M!Up001[i] \in Created
    BY DEF M!Up001, Created
  <2>3. \A i \in 1..1 : M!Up001[i].table = names[i]
    BY Creations DEF Makes, M!Up001
  <2>4. {} \subseteq Standing(r)
    BY <1>1, RankIs, TableRankIs, DeclaredIs DEF Standing, M!Branches
  <2>5. \A i \in 1..1 : Asks(names[i]) \subseteq {} \cup {names[j] : j \in 1..(i - 1)}
    BY DEF Asks
  <2>6. \A i, j \in 1..1 : ~(i < j)
    OBVIOUS
  <2> HIDE DEF names
  <2>7. \A i \in 1..1 : Before(M!Up001, i) = {names[j] : j \in 1..(i - 1)}
    BY <2>3 DEF Before
  <2>8. \A i \in 1..1 : Needs(M!Up001[i]) \subseteq Standing(r) \cup Before(M!Up001, i)
    BY <2>2, <2>3, <2>4, <2>5, <2>7, Origins DEF Origin
  <2> QED BY <2>1, <2>3, <2>6, <2>8 DEF Ordered
<1>2. CASE r = "002"
  <2>1. M!Up(r) = M!Up002 /\ Len(M!Up002) = 17
    BY <1>2 DEF M!Up, M!Branches, M!Up002
  <2> DEFINE names == <<"jobs", "saved_searches", "scraper_runs", "career_pages", "user_profiles",
                        "resume_versions", "applications", "application_status_history",
                        "auto_apply_profiles", "auto_apply_rules", "auto_apply_runs",
                        "cover_letters", "interview_sessions", "salary_cache", "companies",
                        "source_registry", "source_check_log">>
  <2>2. \A i \in 1..17 : M!Up002[i] \in Created
    BY DEF M!Up002, Created
  <2>3. \A i \in 1..17 : M!Up002[i].table = names[i]
    BY Creations DEF Makes, M!Up002
  <2>4. {"users"} \subseteq Standing(r)
    BY <1>2, RankIs, TableRankIs, DeclaredIs DEF Standing, M!Branches
  <2>5. \A i \in 1..17 : Asks(names[i]) \subseteq {"users"} \cup {names[j] : j \in 1..(i - 1)}
    <3>1. \A i \in 1..17 : Asks(names[i]) \subseteq {"users"}
             \cup (IF i >= 7 THEN {"jobs"} ELSE {})
             \cup (IF i >= 7 THEN {"resume_versions"} ELSE {})
             \cup (IF i >= 8 THEN {"applications"} ELSE {})
             \cup (IF i >= 10 THEN {"auto_apply_profiles"} ELSE {})
             \cup (IF i >= 11 THEN {"auto_apply_rules"} ELSE {})
             \cup (IF i >= 17 THEN {"source_registry"} ELSE {})
      BY DEF Asks
    <3>2. /\ names[1] = "jobs" /\ names[6] = "resume_versions" /\ names[7] = "applications"
          /\ names[9] = "auto_apply_profiles" /\ names[10] = "auto_apply_rules"
          /\ names[16] = "source_registry"
      OBVIOUS
    <3> HIDE DEF names
    <3> QED BY <3>1, <3>2
  <2>6. \A i, j \in 1..17 : i < j => names[i] # names[j]
    OBVIOUS
  <2> HIDE DEF names
  <2>7. \A i \in 1..17 : Before(M!Up002, i) = {names[j] : j \in 1..(i - 1)}
    BY <2>3 DEF Before
  <2>8. \A i \in 1..17 : Needs(M!Up002[i]) \subseteq Standing(r) \cup Before(M!Up002, i)
    BY <2>2, <2>3, <2>4, <2>5, <2>7, Origins DEF Origin
  <2> QED BY <2>1, <2>3, <2>6, <2>8 DEF Ordered
<1>3. CASE r = "003"
  <2>1. M!Up(r) = M!Up003 /\ Len(M!Up003) = 11
    BY <1>3 DEF M!Up, M!Branches, M!Up003
  <2> DEFINE names == <<"notifications", "canonical_jobs", "raw_job_sources",
                        "followup_reminders", "query_templates", "expansion_rules",
                        "query_performance", "companies", "source_registry", "user_profiles",
                        "saved_searches">>
  <2>2. \A i \in 1..7 : M!Up003[i] \in Created
    BY DEF M!Up003, Created
  <2>3. \A i \in 1..11 : M!Up003[i].table = names[i]
    BY Creations DEF Makes, M!Up003, M!AddColumns
  <2>4. {"applications", "jobs", "users"} \subseteq Standing(r)
    BY <1>3, RankIs, TableRankIs, DeclaredIs DEF Standing, M!Branches
  <2>5. \A i \in 1..7 : Asks(names[i]) \subseteq {"applications", "jobs", "users"}
            \cup {names[j] : j \in 1..(i - 1)}
    <3>1. \A i \in 1..7 : Asks(names[i]) \subseteq {"applications", "jobs", "users"}
             \cup (IF i >= 3 THEN {"canonical_jobs"} ELSE {})
             \cup (IF i >= 7 THEN {"query_templates"} ELSE {})
      BY DEF Asks
    <3>2. names[2] = "canonical_jobs" /\ names[5] = "query_templates"
      OBVIOUS
    <3> HIDE DEF names
    <3> QED BY <3>1, <3>2
  <2>6. \A i, j \in 1..11 : i < j => names[i] # names[j]
    OBVIOUS
  <2> HIDE DEF names
  <2>7. \A i \in 1..7 : Before(M!Up003, i) = {names[j] : j \in 1..(i - 1)}
    BY <2>3 DEF Before
  <2>8. \A i \in 1..7 : Needs(M!Up003[i]) \subseteq Standing(r) \cup Before(M!Up003, i)
    BY <2>2, <2>3, <2>4, <2>5, <2>7, Origins DEF Origin
  <2>9. \A i \in 8..11 : M!Up003[i] \in Alterations(r)
    BY <1>3 DEF M!Up003, Alterations
  <2> QED BY <2>1, <2>3, <2>6, <2>8, <2>9, AlteringStands DEF Ordered
<1>4. CASE r = "scrape_targets"
  <2>1. M!Up(r) = M!UpTargets /\ Len(M!UpTargets) = 2
    BY <1>4 DEF M!Up, M!Branches, M!UpTargets
  <2> DEFINE names == <<"scrape_targets", "scrape_attempts">>
  <2>2. \A i \in 1..2 : M!UpTargets[i] \in Created
    BY DEF M!UpTargets, Created
  <2>3. \A i \in 1..2 : M!UpTargets[i].table = names[i]
    BY Creations DEF Makes, M!UpTargets
  <2>4. {"scraper_runs", "users"} \subseteq Standing(r)
    BY <1>4, RankIs, TableRankIs, DeclaredIs DEF Standing, M!Branches
  <2>5. \A i \in 1..2 : Asks(names[i]) \subseteq {"scraper_runs", "users"}
            \cup {names[j] : j \in 1..(i - 1)}
    <3>1. \A i \in 1..2 : Asks(names[i]) \subseteq {"scraper_runs", "users"}
             \cup (IF i >= 2 THEN {"scrape_targets"} ELSE {})
      BY DEF Asks
    <3>2. names[1] = "scrape_targets"
      OBVIOUS
    <3> HIDE DEF names
    <3> QED BY <3>1, <3>2
  <2>6. \A i, j \in 1..2 : i < j => names[i] # names[j]
    OBVIOUS
  <2> HIDE DEF names
  <2>7. \A i \in 1..2 : Before(M!UpTargets, i) = {names[j] : j \in 1..(i - 1)}
    BY <2>3 DEF Before
  <2>8. \A i \in 1..2 : Needs(M!UpTargets[i]) \subseteq Standing(r) \cup Before(M!UpTargets, i)
    BY <2>2, <2>3, <2>4, <2>5, <2>7, Origins DEF Origin
  <2> QED BY <2>1, <2>3, <2>6, <2>8 DEF Ordered
<1>5. CASE r = "job_lifecycle"
  <2>1. M!Up(r) = M!UpLifecycle /\ Len(M!UpLifecycle) = 3
    BY <1>5 DEF M!Up, M!Branches, M!UpLifecycle
  <2>2. \A i \in 1..3 : M!UpLifecycle[i] \in Alterations(r)
    BY <1>5 DEF M!UpLifecycle, Alterations
  <2>3. \A i, j \in 1..3 : i < j /\ M!UpLifecycle[j].op = "add"
            => M!UpLifecycle[i].table # M!UpLifecycle[j].table
    BY DEF M!UpLifecycle, M!AddColumns, M!SetForeignKey, M!AddUnique
  <2> QED BY <1>5, <2>1, <2>2, <2>3, AlteringStands, Altering DEF Ordered
<1>6. CASE r = "audit_fixes"
  <2>1. M!Up(r) = M!UpAudit /\ Len(M!UpAudit) = 6
    BY <1>6 DEF M!Up, M!Branches, M!UpAudit, M!AuditedForeignKeys
  <2>2. \A i \in 1..6 : M!UpAudit[i] \in Alterations(r)
    BY <1>6 DEF M!UpAudit, Alterations, M!AuditedForeignKeys, Audited
  <2>3. \A i, j \in 1..6 : i < j /\ M!UpAudit[j].op = "add"
            => M!UpAudit[i].table # M!UpAudit[j].table
    BY DEF M!UpAudit, M!AddColumns, M!SetForeignKey, M!AddUnique, M!AuditedForeignKeys
  <2> QED BY <1>6, <2>1, <2>2, <2>3, AlteringStands, Altering DEF Ordered
<1>7. CASE r = "004"
  <2>1. M!Up(r) = M!UpEmail /\ Len(M!UpEmail) = 1
    BY <1>7 DEF M!Up, M!Branches, M!UpEmail
  <2> DEFINE names == <<"email_logs">>
  <2>2. \A i \in 1..1 : M!UpEmail[i] \in Created
    BY DEF M!UpEmail, Created
  <2>3. \A i \in 1..1 : M!UpEmail[i].table = names[i]
    BY Creations DEF Makes, M!UpEmail
  <2>4. {"applications", "users"} \subseteq Standing(r)
    BY <1>7, RankIs, TableRankIs, DeclaredIs DEF Standing, M!Branches
  <2>5. \A i \in 1..1 : Asks(names[i]) \subseteq {"applications", "users"}
            \cup {names[j] : j \in 1..(i - 1)}
    BY DEF Asks
  <2>6. \A i, j \in 1..1 : ~(i < j)
    OBVIOUS
  <2> HIDE DEF names
  <2>7. \A i \in 1..1 : Before(M!UpEmail, i) = {names[j] : j \in 1..(i - 1)}
    BY <2>3 DEF Before
  <2>8. \A i \in 1..1 : Needs(M!UpEmail[i]) \subseteq Standing(r) \cup Before(M!UpEmail, i)
    BY <2>2, <2>3, <2>4, <2>5, <2>7, Origins DEF Origin
  <2> QED BY <2>1, <2>3, <2>6, <2>8 DEF Ordered
<1>8. CASE r = "networking"
  <2>1. M!Up(r) = M!UpNetworking /\ Len(M!UpNetworking) = 2
    BY <1>8 DEF M!Up, M!Branches, M!UpNetworking
  <2> DEFINE names == <<"contacts", "referral_requests">>
  <2>2. \A i \in 1..2 : M!UpNetworking[i] \in Created
    BY DEF M!UpNetworking, Created
  <2>3. \A i \in 1..2 : M!UpNetworking[i].table = names[i]
    BY Creations DEF Makes, M!UpNetworking
  <2>4. {"jobs", "users"} \subseteq Standing(r)
    BY <1>8, RankIs, TableRankIs, DeclaredIs DEF Standing, M!Branches
  <2>5. \A i \in 1..2 : Asks(names[i]) \subseteq {"jobs", "users"}
            \cup {names[j] : j \in 1..(i - 1)}
    <3>1. \A i \in 1..2 : Asks(names[i]) \subseteq {"jobs", "users"}
             \cup (IF i >= 2 THEN {"contacts"} ELSE {})
      BY DEF Asks
    <3>2. names[1] = "contacts"
      OBVIOUS
    <3> HIDE DEF names
    <3> QED BY <3>1, <3>2
  <2>6. \A i, j \in 1..2 : i < j => names[i] # names[j]
    OBVIOUS
  <2> HIDE DEF names
  <2>7. \A i \in 1..2 : Before(M!UpNetworking, i) = {names[j] : j \in 1..(i - 1)}
    BY <2>3 DEF Before
  <2>8. \A i \in 1..2
            : Needs(M!UpNetworking[i]) \subseteq Standing(r) \cup Before(M!UpNetworking, i)
    BY <2>2, <2>3, <2>4, <2>5, <2>7, Origins DEF Origin
  <2> QED BY <2>1, <2>3, <2>6, <2>8 DEF Ordered
<1>9. CASE r = "archetypes"
  <2>1. M!Up(r) = M!UpArchetypes /\ Len(M!UpArchetypes) = 1
    BY <1>9 DEF M!Up, M!Branches, M!UpArchetypes
  <2> DEFINE names == <<"resume_archetypes">>
  <2>2. \A i \in 1..1 : M!UpArchetypes[i] \in Created
    BY DEF M!UpArchetypes, Created
  <2>3. \A i \in 1..1 : M!UpArchetypes[i].table = names[i]
    BY Creations DEF Makes, M!UpArchetypes
  <2>4. {"users"} \subseteq Standing(r)
    BY <1>9, RankIs, TableRankIs, DeclaredIs DEF Standing, M!Branches
  <2>5. \A i \in 1..1 : Asks(names[i]) \subseteq {"users"} \cup {names[j] : j \in 1..(i - 1)}
    BY DEF Asks
  <2>6. \A i, j \in 1..1 : ~(i < j)
    OBVIOUS
  <2> HIDE DEF names
  <2>7. \A i \in 1..1 : Before(M!UpArchetypes, i) = {names[j] : j \in 1..(i - 1)}
    BY <2>3 DEF Before
  <2>8. \A i \in 1..1
            : Needs(M!UpArchetypes[i]) \subseteq Standing(r) \cup Before(M!UpArchetypes, i)
    BY <2>2, <2>3, <2>4, <2>5, <2>7, Origins DEF Origin
  <2> QED BY <2>1, <2>3, <2>6, <2>8 DEF Ordered
<1>10. CASE r = "dedup_feedback"
  <2>1. M!Up(r) = M!UpFeedback /\ Len(M!UpFeedback) = 1
    BY <1>10 DEF M!Up, M!Branches, M!UpFeedback
  <2> DEFINE names == <<"dedup_feedback">>
  <2>2. \A i \in 1..1 : M!UpFeedback[i] \in Created
    BY DEF M!UpFeedback, Created
  <2>3. \A i \in 1..1 : M!UpFeedback[i].table = names[i]
    BY Creations DEF Makes, M!UpFeedback
  <2>4. {"jobs", "users"} \subseteq Standing(r)
    BY <1>10, RankIs, TableRankIs, DeclaredIs DEF Standing, M!Branches
  <2>5. \A i \in 1..1 : Asks(names[i]) \subseteq {"jobs", "users"}
            \cup {names[j] : j \in 1..(i - 1)}
    BY DEF Asks
  <2>6. \A i, j \in 1..1 : ~(i < j)
    OBVIOUS
  <2> HIDE DEF names
  <2>7. \A i \in 1..1 : Before(M!UpFeedback, i) = {names[j] : j \in 1..(i - 1)}
    BY <2>3 DEF Before
  <2>8. \A i \in 1..1 : Needs(M!UpFeedback[i]) \subseteq Standing(r) \cup Before(M!UpFeedback, i)
    BY <2>2, <2>3, <2>4, <2>5, <2>7, Origins DEF Origin
  <2> QED BY <2>1, <2>3, <2>6, <2>8 DEF Ordered
<1>11. CASE r = "form_learning"
  <2>1. M!Up(r) = M!UpFormLearning /\ Len(M!UpFormLearning) = 2
    BY <1>11 DEF M!Up, M!Branches, M!UpFormLearning
  <2> DEFINE names == <<"field_mapping_rules", "application_dedup">>
  <2>2. \A i \in 1..2 : M!UpFormLearning[i] \in Created
    BY DEF M!UpFormLearning, Created
  <2>3. \A i \in 1..2 : M!UpFormLearning[i].table = names[i]
    BY Creations DEF Makes, M!UpFormLearning
  <2>4. {"jobs", "users"} \subseteq Standing(r)
    BY <1>11, RankIs, TableRankIs, DeclaredIs DEF Standing, M!Branches
  <2>5. \A i \in 1..2 : Asks(names[i]) \subseteq {"jobs", "users"}
            \cup {names[j] : j \in 1..(i - 1)}
    BY DEF Asks
  <2>6. \A i, j \in 1..2 : i < j => names[i] # names[j]
    OBVIOUS
  <2> HIDE DEF names
  <2>7. \A i \in 1..2 : Before(M!UpFormLearning, i) = {names[j] : j \in 1..(i - 1)}
    BY <2>3 DEF Before
  <2>8. \A i \in 1..2
            : Needs(M!UpFormLearning[i]) \subseteq Standing(r) \cup Before(M!UpFormLearning, i)
    BY <2>2, <2>3, <2>4, <2>5, <2>7, Origins DEF Origin
  <2> QED BY <2>1, <2>3, <2>6, <2>8 DEF Ordered
<1>12. CASE r = "005"
  <2>1. M!Up(r) = M!Up005 /\ Len(M!Up005) = 10
    BY <1>12 DEF M!Up, M!Branches, M!Up005
  <2> DEFINE names == <<"resume_archetypes", "field_mapping_rules", "application_dedup",
                        "dedup_feedback", "email_logs", "contacts", "referral_requests",
                        "ml_model_artifacts", "application_outcomes", "company_insights">>
  <2>2. \A i \in 1..10 : M!Up005[i] \in Created
    BY DEF M!Up005, Created
  <2>3. \A i \in 1..10 : M!Up005[i].table = names[i]
    BY Creations DEF Makes, M!Up005
  <2>4. {"applications", "jobs", "users"} \subseteq Standing(r)
    BY <1>12, RankIs, TableRankIs, DeclaredIs DEF Standing, M!Branches
  <2>5. \A i \in 1..10 : Asks(names[i]) \subseteq {"applications", "jobs", "users"}
            \cup {names[j] : j \in 1..(i - 1)}
    <3>1. \A i \in 1..10 : Asks(names[i]) \subseteq {"applications", "jobs", "users"}
             \cup (IF i >= 7 THEN {"contacts"} ELSE {})
      BY DEF Asks
    <3>2. names[6] = "contacts"
      OBVIOUS
    <3> HIDE DEF names
    <3> QED BY <3>1, <3>2
  <2>6. \A i \in 1..10 : M!Up005[i].op = "ensure"
    BY DEF M!Ensure, M!Up005, M!EnsureResumeArchetypes, M!EnsureFieldMappingRules,
           M!EnsureApplicationDedup,
           M!EnsureDedupFeedback, M!EnsureEmailLogs, M!EnsureContacts, M!EnsureReferralRequests,
           M!EnsureMlModelArtifacts, M!EnsureApplicationOutcomes, M!EnsureCompanyInsights
  <2> HIDE DEF names
  <2>7. \A i \in 1..10 : Before(M!Up005, i) = {names[j] : j \in 1..(i - 1)}
    BY <2>3 DEF Before
  <2>8. \A i \in 1..10 : Needs(M!Up005[i]) \subseteq Standing(r) \cup Before(M!Up005, i)
    BY <2>2, <2>3, <2>4, <2>5, <2>7, Origins DEF Origin
  <2> QED BY <2>1, <2>3, <2>6, <2>8 DEF Ordered
<1>13. CASE r = "integration_secrets"
  <2>1. M!Up(r) = M!UpSecrets /\ Len(M!UpSecrets) = 1
    BY <1>13 DEF M!Up, M!Branches, M!UpSecrets
  <2> DEFINE names == <<"user_integration_secrets">>
  <2>2. \A i \in 1..1 : M!UpSecrets[i] \in Created
    BY DEF M!UpSecrets, Created
  <2>3. \A i \in 1..1 : M!UpSecrets[i].table = names[i]
    BY Creations DEF Makes, M!UpSecrets
  <2>4. {"users"} \subseteq Standing(r)
    BY <1>13, RankIs, TableRankIs, DeclaredIs DEF Standing, M!Branches
  <2>5. \A i \in 1..1 : Asks(names[i]) \subseteq {"users"} \cup {names[j] : j \in 1..(i - 1)}
    BY DEF Asks
  <2>6. \A i, j \in 1..1 : ~(i < j)
    OBVIOUS
  <2> HIDE DEF names
  <2>7. \A i \in 1..1 : Before(M!UpSecrets, i) = {names[j] : j \in 1..(i - 1)}
    BY <2>3 DEF Before
  <2>8. \A i \in 1..1 : Needs(M!UpSecrets[i]) \subseteq Standing(r) \cup Before(M!UpSecrets, i)
    BY <2>2, <2>3, <2>4, <2>5, <2>7, Origins DEF Origin
  <2> QED BY <2>1, <2>3, <2>6, <2>8 DEF Ordered
<1>14. CASE r = "ats_identity"
  <2>1. M!Up(r) = M!UpAts /\ Len(M!UpAts) = 2
    BY <1>14 DEF M!Up, M!Branches, M!UpAts
  <2>2. \A i \in 1..2 : M!UpAts[i] \in Alterations(r)
    BY <1>14 DEF M!UpAts, Alterations
  <2>3. \A i, j \in 1..2 : i < j /\ M!UpAts[j].op = "add" => M!UpAts[i].table # M!UpAts[j].table
    BY DEF M!UpAts, M!AddColumns, M!SetForeignKey, M!AddUnique
  <2> QED BY <1>14, <2>1, <2>2, <2>3, AlteringStands, Altering DEF Ordered
<1>15. CASE r = "saved_search_alerts"
  <2>1. M!Up(r) = M!UpAlerts /\ Len(M!UpAlerts) = 1
    BY <1>15 DEF M!Up, M!Branches, M!UpAlerts
  <2>2. \A i \in 1..1 : M!UpAlerts[i] \in Alterations(r)
    BY <1>15 DEF M!UpAlerts, Alterations
  <2>3. \A i, j \in 1..1 : ~(i < j)
    OBVIOUS
  <2> QED BY <1>15, <2>1, <2>2, <2>3, AlteringStands, Altering DEF Ordered
<1>16. CASE r = "google_integration"
  <2>1. M!Up(r) = M!UpGoogle /\ Len(M!UpGoogle) = 2
    BY <1>16 DEF M!Up, M!Branches, M!UpGoogle
  <2>2. \A i \in 1..2 : M!UpGoogle[i] \in Alterations(r)
    BY <1>16 DEF M!UpGoogle, Alterations
  <2>3. \A i, j \in 1..2 : i < j /\ M!UpGoogle[j].op = "add"
            => M!UpGoogle[i].table # M!UpGoogle[j].table
    BY DEF M!UpGoogle, M!AddColumns, M!SetForeignKey, M!AddUnique
  <2> QED BY <1>16, <2>1, <2>2, <2>3, AlteringStands, Altering DEF Ordered
<1>17. CASE r = "auto_apply_review"
  <2>1. M!Up(r) = M!UpReview /\ Len(M!UpReview) = 1
    BY <1>17 DEF M!Up, M!Branches, M!UpReview
  <2>2. \A i \in 1..1 : M!UpReview[i] \in Alterations(r)
    BY <1>17 DEF M!UpReview, Alterations
  <2>3. \A i, j \in 1..1 : ~(i < j)
    OBVIOUS
  <2> QED BY <1>17, <2>1, <2>2, <2>3, AlteringStands, Altering DEF Ordered
<1>18. CASE r \in {"attempt_indexes", "merge_heads"}
  BY <1>18 DEF M!Up, Ordered, M!Branches
<1> QED BY <1>0, <1>1, <1>2, <1>3, <1>4, <1>5, <1>6, <1>7, <1>8, <1>9, <1>10, <1>11, <1>12, <1>13,
           <1>14, <1>15, <1>16, <1>17, <1>18 DEF M!Revisions, M!Branches

\* What a downgrade consists of: it makes nothing but the career pages again, and drops these
\* only with all of revision 002.
Loses(r, p) ==
    /\ p.op \notin {"ensure", "add"} /\ Neat(p)
    /\ p.op = "create" => r = "career_pages" /\ p = M!CreateCareerPages
    /\ p.op = "drop" /\ p.table = "career_pages" => r = "002"

\* So it is with every downgrade.
LEMMA DowngradesLose ==
  ASSUME NEW r \in M!Revisions, NEW p \in Made(M!Down(r))
  PROVE  Loses(r, p)
<1>1. ASSUME NEW t, t = "career_pages" => r = "002" PROVE Loses(r, M!Drop(t))
  BY <1>1 DEF Loses, Neat, M!Drop
<1>2. \A t, cs : Loses(r, M!DropColumns(t, cs))
  BY DEF Loses, Neat, M!DropColumns
<1>3. \A t, c : Loses(r, M!DropForeignKey(t, c))
  BY DEF Loses, Neat, M!DropForeignKey
<1>4. \A t, cs : Loses(r, M!DropUnique(t, cs))
  BY DEF Loses, Neat, M!DropUnique
<1>5. \A kind : Loses(r, M!Refuse(kind))
  BY DEF Loses, Neat, M!Refuse
<1>6. \A t, rule : Loses(r, M!SetForeignKey(t, "job_id", "jobs", rule))
  BY DEF Loses, Neat, M!SetForeignKey
<1>7. CASE r = "001"
  <2>1. M!Down(r) = M!Down001
    BY <1>7 DEF M!Down, M!Branches
  <2> QED BY <2>1, <1>7, <1>1, <1>2, <1>3, <1>4, <1>5, <1>6 DEF Made, M!Down001, M!Drops
<1>8. CASE r = "002"
  <2>1. M!Down(r) = M!Down002
    BY <1>8 DEF M!Down, M!Branches
  <2> QED BY <2>1, <1>8, <1>1, <1>2, <1>3, <1>4, <1>5, <1>6 DEF Made, M!Down002, M!Drops
<1>9. CASE r = "003"
  <2>1. M!Down(r) = M!Down003
    BY <1>9 DEF M!Down, M!Branches
  <2> QED BY <2>1, <1>9, <1>1, <1>2, <1>3, <1>4, <1>5, <1>6 DEF Made, M!Down003, M!Drops
<1>10. CASE r = "scrape_targets"
  <2>1. M!Down(r) = M!DownTargets
    BY <1>10 DEF M!Down, M!Branches
  <2> QED BY <2>1, <1>10, <1>1, <1>2, <1>3, <1>4, <1>5, <1>6 DEF Made, M!DownTargets, M!Drops
<1>11. CASE r = "job_lifecycle"
  <2>1. M!Down(r) = M!DownLifecycle
    BY <1>11 DEF M!Down, M!Branches
  <2> QED BY <2>1, <1>11, <1>1, <1>2, <1>3, <1>4, <1>5, <1>6 DEF Made, M!DownLifecycle
<1>12. CASE r = "career_pages"
  <2>1. M!Down(r) = M!DownCareerPages
    BY <1>12 DEF M!Down, M!Branches
  <2>2. Loses(r, M!RecreateCareerPages)
    <3>1. M!RecreateCareerPages = M!CreateCareerPages
      BY DEF M!RecreateCareerPages, M!CreateCareerPages
    <3>2. M!RecreateCareerPages.op = "create" /\ M!RecreateCareerPages.spec.fks = {M!Owner}
      BY DEF M!RecreateCareerPages, M!Create, M!Table
    <3>3. IsTable(M!RecreateCareerPages.spec) /\ M!Owner[2] # "career_pages"
      BY Creations DEF Makes, M!Owner
    <3> QED BY <1>12, <3>1, <3>2, <3>3 DEF Loses, Neat
  <2>3. Loses(r, M!Move("career_target", "career_page"))
    BY DEF Loses, Neat, M!Move
  <2> QED BY <2>1, <2>2, <2>3, <1>5 DEF Made, M!DownCareerPages
<1>13. CASE r = "audit_fixes"
  <2>1. M!Down(r) = M!DownAudit
    BY <1>13 DEF M!Down, M!Branches
  <2> QED BY <2>1, <1>13, <1>1, <1>2, <1>3, <1>4, <1>5, <1>6 DEF Made, M!DownAudit,
               M!AuditedForeignKeys
<1>14. CASE r = "004"
  <2>1. M!Down(r) = M!DownEmail
    BY <1>14 DEF M!Down, M!Branches
  <2> QED BY <2>1, <1>14, <1>1, <1>2, <1>3, <1>4, <1>5, <1>6 DEF Made, M!DownEmail, M!Drops
<1>15. CASE r = "networking"
  <2>1. M!Down(r) = M!DownNetworking
    BY <1>15 DEF M!Down, M!Branches
  <2> QED BY <2>1, <1>15, <1>1, <1>2, <1>3, <1>4, <1>5, <1>6 DEF Made, M!DownNetworking, M!Drops
<1>16. CASE r = "archetypes"
  <2>1. M!Down(r) = M!DownArchetypes
    BY <1>16 DEF M!Down, M!Branches
  <2> QED BY <2>1, <1>16, <1>1, <1>2, <1>3, <1>4, <1>5, <1>6 DEF Made, M!DownArchetypes, M!Drops
<1>17. CASE r = "dedup_feedback"
  <2>1. M!Down(r) = M!DownFeedback
    BY <1>17 DEF M!Down, M!Branches
  <2> QED BY <2>1, <1>17, <1>1, <1>2, <1>3, <1>4, <1>5, <1>6 DEF Made, M!DownFeedback, M!Drops
<1>18. CASE r = "form_learning"
  <2>1. M!Down(r) = M!DownFormLearning
    BY <1>18 DEF M!Down, M!Branches
  <2> QED BY <2>1, <1>18, <1>1, <1>2, <1>3, <1>4, <1>5, <1>6 DEF Made, M!DownFormLearning, M!Drops
<1>19. CASE r = "005"
  <2>1. M!Down(r) = M!Down005
    BY <1>19 DEF M!Down, M!Branches
  <2> QED BY <2>1, <1>19, <1>1, <1>2, <1>3, <1>4, <1>5, <1>6 DEF Made, M!Down005, M!Drops
<1>20. CASE r = "integration_secrets"
  <2>1. M!Down(r) = M!DownSecrets
    BY <1>20 DEF M!Down, M!Branches
  <2> QED BY <2>1, <1>20, <1>1, <1>2, <1>3, <1>4, <1>5, <1>6 DEF Made, M!DownSecrets, M!Drops
<1>21. CASE r = "ats_identity"
  <2>1. M!Down(r) = M!DownAts
    BY <1>21 DEF M!Down, M!Branches
  <2> QED BY <2>1, <1>21, <1>1, <1>2, <1>3, <1>4, <1>5, <1>6 DEF Made, M!DownAts
<1>22. CASE r = "saved_search_alerts"
  <2>1. M!Down(r) = M!DownAlerts
    BY <1>22 DEF M!Down, M!Branches
  <2> QED BY <2>1, <1>22, <1>1, <1>2, <1>3, <1>4, <1>5, <1>6 DEF Made, M!DownAlerts
<1>23. CASE r = "google_integration"
  <2>1. M!Down(r) = M!DownGoogle
    BY <1>23 DEF M!Down, M!Branches
  <2> QED BY <2>1, <1>23, <1>1, <1>2, <1>3, <1>4, <1>5, <1>6 DEF Made, M!DownGoogle
<1>24. CASE r = "auto_apply_review"
  <2>1. M!Down(r) = M!DownReview
    BY <1>24 DEF M!Down, M!Branches
  <2> QED BY <2>1, <1>24, <1>1, <1>2, <1>3, <1>4, <1>5, <1>6 DEF Made, M!DownReview
<1>25. CASE r \in {"attempt_indexes", "merge_heads"}
  BY <1>25 DEF M!Down, Made, M!Branches
<1> QED BY <1>7, <1>8, <1>9, <1>10, <1>11, <1>12, <1>13, <1>14, <1>15, <1>16, <1>17, <1>18, <1>19,
           <1>20, <1>21, <1>22, <1>23, <1>24, <1>25 DEF M!Revisions, M!Branches

\* Revision 005 only makes what is missing.
LEMMA UpEnsures == \A o \in Made(M!Up("005")) : o.op = "ensure"
BY DEF M!Up, M!Branches, Made, M!Up005, M!Ensure, M!EnsureResumeArchetypes,
   M!EnsureFieldMappingRules, M!EnsureApplicationDedup,
   M!EnsureDedupFeedback, M!EnsureEmailLogs, M!EnsureContacts, M!EnsureReferralRequests,
   M!EnsureMlModelArtifacts, M!EnsureApplicationOutcomes, M!EnsureCompanyInsights

\* What the upgrade of a revision makes, its downgrade takes away.
LEMMA DowngradesTake ==
  ASSUME NEW r \in M!Revisions, NEW o \in Made(M!Up(r)), o.op \in {"create", "add"}
  PROVE  \E p \in Made(M!Down(r)) : Takes(p, o)
<1>1. \A c : Takes(M!Drop(c.table), c)
  BY DEF Takes, M!Drop
<1>2. \A t, cs : Takes(M!DropColumns(t, cs), M!AddColumns(t, cs))
  BY DEF Takes, M!DropColumns, M!AddColumns
<1>3. CASE r = "001"
  <2>1. M!Up(r) = M!Up001 /\ M!Down(r) = M!Down001
    BY <1>3 DEF M!Up, M!Down, M!Branches
  <2>2. \A t \in {"users"} :
           M!Drop(t) \in Made(M!Down001)
    BY DEF Made, M!Down001, M!Drops
  <2>3. \A c \in {M!CreateUsers} :
           M!Drop(c.table) \in Made(M!Down001)
    BY <2>2, Creations DEF Makes
  <2> QED BY <2>1, <2>3, <1>1 DEF Made, M!Up001
<1>4. CASE r = "002"
  <2>1. M!Up(r) = M!Up002 /\ M!Down(r) = M!Down002
    BY <1>4 DEF M!Up, M!Down, M!Branches
  <2>2. \A t \in {"jobs", "saved_searches", "scraper_runs", "career_pages", "user_profiles",
                  "resume_versions", "applications", "application_status_history",
                  "auto_apply_profiles", "auto_apply_rules", "auto_apply_runs", "cover_letters",
                  "interview_sessions", "salary_cache", "companies", "source_registry",
                  "source_check_log"} :
           M!Drop(t) \in Made(M!Down002)
    BY DEF Made, M!Down002, M!Drops
  <2>3. \A c \in {M!CreateJobs, M!CreateSavedSearches, M!CreateScraperRuns, M!CreateCareerPages,
                  M!CreateUserProfiles, M!CreateResumeVersions, M!CreateApplications,
                  M!CreateApplicationStatusHistory, M!CreateAutoApplyProfiles,
                  M!CreateAutoApplyRules, M!CreateAutoApplyRuns, M!CreateCoverLetters,
                  M!CreateInterviewSessions, M!CreateSalaryCache, M!CreateCompanies,
                  M!CreateSourceRegistry, M!CreateSourceCheckLog} :
           M!Drop(c.table) \in Made(M!Down002)
    BY <2>2, Creations DEF Makes
  <2>4. o \in {M!CreateJobs, M!CreateSavedSearches, M!CreateScraperRuns, M!CreateCareerPages,
               M!CreateUserProfiles, M!CreateResumeVersions, M!CreateApplications,
               M!CreateApplicationStatusHistory, M!CreateAutoApplyProfiles,
               M!CreateAutoApplyRules, M!CreateAutoApplyRuns, M!CreateCoverLetters,
               M!CreateInterviewSessions, M!CreateSalaryCache, M!CreateCompanies,
               M!CreateSourceRegistry, M!CreateSourceCheckLog}
    BY <2>1 DEF Made, M!Up002
  <2> QED BY <2>1, <2>3, <2>4, <1>1
<1>5. CASE r = "003"
  <2>1. M!Up(r) = M!Up003 /\ M!Down(r) = M!Down003
    BY <1>5 DEF M!Up, M!Down, M!Branches
  <2>2. \A t \in {"notifications", "canonical_jobs", "raw_job_sources", "followup_reminders",
                  "query_templates", "expansion_rules", "query_performance"} :
           M!Drop(t) \in Made(M!Down003)
    BY DEF Made, M!Down003, M!Drops
  <2>3. \A c \in {M!CreateNotifications, M!CreateCanonicalJobs, M!CreateRawJobSources,
                  M!CreateFollowupReminders, M!CreateQueryTemplates, M!CreateExpansionRules,
                  M!CreateQueryPerformance} :
           M!Drop(c.table) \in Made(M!Down003)
    BY <2>2, Creations DEF Makes
  <2>4. /\ M!DropColumns("companies", M!CompanyColumns) \in Made(M!Down003)
       /\ M!DropColumns("source_registry", M!RegistryColumns) \in Made(M!Down003)
       /\ M!DropColumns("user_profiles", M!ProfileColumns) \in Made(M!Down003)
       /\ M!DropColumns("saved_searches", {"last_checked_at"}) \in Made(M!Down003)
    BY DEF Made, M!Down003, M!Drops
  <2>5. o \in {M!CreateNotifications, M!CreateCanonicalJobs, M!CreateRawJobSources,
               M!CreateFollowupReminders, M!CreateQueryTemplates, M!CreateExpansionRules,
               M!CreateQueryPerformance}
       \/ o \in {M!AddColumns("companies", M!CompanyColumns),
               M!AddColumns("source_registry", M!RegistryColumns),
               M!AddColumns("user_profiles", M!ProfileColumns),
               M!AddColumns("saved_searches", {"last_checked_at"})}
    BY <2>1 DEF Made, M!Up003
  <2>6. \A c \in {M!AddColumns("companies", M!CompanyColumns),
                   M!AddColumns("source_registry", M!RegistryColumns),
                   M!AddColumns("user_profiles", M!ProfileColumns),
                   M!AddColumns("saved_searches", {"last_checked_at"})} :
           \E p \in Made(M!Down003) : Takes(p, c)
    BY <2>4, <1>2
  <2> QED BY <2>1, <2>3, <2>5, <2>6, <1>1
<1>6. CASE r = "scrape_targets"
  <2>1. M!Up(r) = M!UpTargets /\ M!Down(r) = M!DownTargets
    BY <1>6 DEF M!Up, M!Down, M!Branches
  <2>2. \A t \in {"scrape_targets", "scrape_attempts"} :
           M!Drop(t) \in Made(M!DownTargets)
    BY DEF Made, M!DownTargets, M!Drops
  <2>3. \A c \in {M!CreateScrapeTargets, M!CreateScrapeAttempts} :
           M!Drop(c.table) \in Made(M!DownTargets)
    BY <2>2, Creations DEF Makes
  <2> QED BY <2>1, <2>3, <1>1 DEF Made, M!UpTargets
<1>7. CASE r = "job_lifecycle"
  <2>1. M!Up(r) = M!UpLifecycle /\ M!Down(r) = M!DownLifecycle
    BY <1>7 DEF M!Up, M!Down, M!Branches
  <2>2. /\ M!DropColumns("jobs", M!LifecycleColumns) \in Made(M!DownLifecycle)
       /\ M!DropColumns("scraper_runs", M!TierColumns) \in Made(M!DownLifecycle)
    BY DEF Made, M!DownLifecycle
  <2> QED BY <2>1, <2>2, <1>1, <1>2 DEF Made, M!UpLifecycle, M!SetForeignKey
<1>8. CASE r = "career_pages"
  BY <1>8 DEF M!Up, M!Branches, M!UpCareerPages, Made, M!MoveCareerPages, M!Move, M!Refuse, M!Drop
<1>9. CASE r = "audit_fixes"
  <2>1. M!Up(r) = M!UpAudit /\ M!Down(r) = M!DownAudit
    BY <1>9 DEF M!Up, M!Down, M!Branches
  <2>2. /\ M!DropColumns("users", {"token_version"}) \in Made(M!DownAudit)
       /\ M!DropColumns("scrape_attempts", M!AttemptColumns) \in Made(M!DownAudit)
    BY DEF Made, M!DownAudit, M!AuditedForeignKeys
  <2> QED BY <2>1, <2>2, <1>1, <1>2 DEF Made, M!UpAudit, M!SetForeignKey, M!AuditedForeignKeys
<1>10. CASE r = "004"
  <2>1. M!Up(r) = M!UpEmail /\ M!Down(r) = M!DownEmail
    BY <1>10 DEF M!Up, M!Down, M!Branches
  <2>2. \A t \in {"email_logs"} :
           M!Drop(t) \in Made(M!DownEmail)
    BY DEF Made, M!DownEmail, M!Drops
  <2>3. \A c \in {M!CreateEmailLogs} :
           M!Drop(c.table) \in Made(M!DownEmail)
    BY <2>2, Creations DEF Makes
  <2> QED BY <2>1, <2>3, <1>1 DEF Made, M!UpEmail
<1>11. CASE r = "networking"
  <2>1. M!Up(r) = M!UpNetworking /\ M!Down(r) = M!DownNetworking
    BY <1>11 DEF M!Up, M!Down, M!Branches
  <2>2. \A t \in {"contacts", "referral_requests"} :
           M!Drop(t) \in Made(M!DownNetworking)
    BY DEF Made, M!DownNetworking, M!Drops
  <2>3. \A c \in {M!CreateContacts, M!CreateReferralRequests} :
           M!Drop(c.table) \in Made(M!DownNetworking)
    BY <2>2, Creations DEF Makes
  <2> QED BY <2>1, <2>3, <1>1 DEF Made, M!UpNetworking
<1>12. CASE r = "archetypes"
  <2>1. M!Up(r) = M!UpArchetypes /\ M!Down(r) = M!DownArchetypes
    BY <1>12 DEF M!Up, M!Down, M!Branches
  <2>2. \A t \in {"resume_archetypes"} :
           M!Drop(t) \in Made(M!DownArchetypes)
    BY DEF Made, M!DownArchetypes, M!Drops
  <2>3. \A c \in {M!CreateResumeArchetypes} :
           M!Drop(c.table) \in Made(M!DownArchetypes)
    BY <2>2, Creations DEF Makes
  <2> QED BY <2>1, <2>3, <1>1 DEF Made, M!UpArchetypes
<1>13. CASE r = "dedup_feedback"
  <2>1. M!Up(r) = M!UpFeedback /\ M!Down(r) = M!DownFeedback
    BY <1>13 DEF M!Up, M!Down, M!Branches
  <2>2. \A t \in {"dedup_feedback"} :
           M!Drop(t) \in Made(M!DownFeedback)
    BY DEF Made, M!DownFeedback, M!Drops
  <2>3. \A c \in {M!CreateDedupFeedback} :
           M!Drop(c.table) \in Made(M!DownFeedback)
    BY <2>2, Creations DEF Makes
  <2> QED BY <2>1, <2>3, <1>1 DEF Made, M!UpFeedback
<1>14. CASE r = "form_learning"
  <2>1. M!Up(r) = M!UpFormLearning /\ M!Down(r) = M!DownFormLearning
    BY <1>14 DEF M!Up, M!Down, M!Branches
  <2>2. \A t \in {"field_mapping_rules", "application_dedup"} :
           M!Drop(t) \in Made(M!DownFormLearning)
    BY DEF Made, M!DownFormLearning, M!Drops
  <2>3. \A c \in {M!CreateFieldMappingRules, M!CreateApplicationDedup} :
           M!Drop(c.table) \in Made(M!DownFormLearning)
    BY <2>2, Creations DEF Makes
  <2> QED BY <2>1, <2>3, <1>1 DEF Made, M!UpFormLearning
<1>15. CASE r = "005"
  BY <1>15, UpEnsures
<1>16. CASE r = "integration_secrets"
  <2>1. M!Up(r) = M!UpSecrets /\ M!Down(r) = M!DownSecrets
    BY <1>16 DEF M!Up, M!Down, M!Branches
  <2>2. \A t \in {"user_integration_secrets"} :
           M!Drop(t) \in Made(M!DownSecrets)
    BY DEF Made, M!DownSecrets, M!Drops
  <2>3. \A c \in {M!CreateUserIntegrationSecrets} :
           M!Drop(c.table) \in Made(M!DownSecrets)
    BY <2>2, Creations DEF Makes
  <2> QED BY <2>1, <2>3, <1>1 DEF Made, M!UpSecrets
<1>17. CASE r = "ats_identity"
  <2>1. M!Up(r) = M!UpAts /\ M!Down(r) = M!DownAts
    BY <1>17 DEF M!Up, M!Down, M!Branches
  <2>2. /\ M!DropColumns("jobs", M!AtsColumns) \in Made(M!DownAts)
    BY DEF Made, M!DownAts
  <2> QED BY <2>1, <2>2, <1>1, <1>2 DEF Made, M!UpAts, M!AddUnique
<1>18. CASE r = "saved_search_alerts"
  <2>1. M!Up(r) = M!UpAlerts /\ M!Down(r) = M!DownAlerts
    BY <1>18 DEF M!Up, M!Down, M!Branches
  <2>2. /\ M!DropColumns("saved_searches", M!AlertColumns) \in Made(M!DownAlerts)
    BY DEF Made, M!DownAlerts
  <2> QED BY <2>1, <2>2, <1>1, <1>2 DEF Made, M!UpAlerts
<1>19. CASE r = "google_integration"
  <2>1. M!Up(r) = M!UpGoogle /\ M!Down(r) = M!DownGoogle
    BY <1>19 DEF M!Up, M!Down, M!Branches
  <2>2. /\ M!DropColumns("user_integration_secrets", M!SecretColumns) \in Made(M!DownGoogle)
       /\ M!DropColumns("email_logs", M!ProvenanceColumns) \in Made(M!DownGoogle)
    BY DEF Made, M!DownGoogle
  <2> QED BY <2>1, <2>2, <1>1, <1>2 DEF Made, M!UpGoogle
<1>20. CASE r = "auto_apply_review"
  <2>1. M!Up(r) = M!UpReview /\ M!Down(r) = M!DownReview
    BY <1>20 DEF M!Up, M!Down, M!Branches
  <2>2. /\ M!DropColumns("auto_apply_runs", {"review_items"}) \in Made(M!DownReview)
    BY DEF Made, M!DownReview
  <2> QED BY <2>1, <2>2, <1>1, <1>2 DEF Made, M!UpReview
<1>21. CASE r \in {"attempt_indexes", "merge_heads"}
  BY <1>21 DEF M!Up, Made, M!Branches
<1> QED BY <1>3, <1>4, <1>5, <1>6, <1>7, <1>8, <1>9, <1>10, <1>11, <1>12, <1>13, <1>14, <1>15,
           <1>16, <1>17, <1>18, <1>19, <1>20, <1>21 DEF M!Revisions, M!Branches

\* What the career-pages revision does.
LEMMA CareerPagesUp ==
  /\ M!Up("career_pages") = <<M!Refuse("career_page"), M!Drop("career_pages")>>
  /\ \A o \in Made(M!Up("career_pages")) : o.op \in {"refuse", "drop"} /\ Neat(o)
<1>1. M!MoveCareerPages = M!Refuse("career_page")
  <2>1. "start_tier" \in M!TargetRequired /\ "start_tier" \notin M!TargetGiven
    BY DEF M!TargetRequired, M!TargetGiven
  <2> QED BY <2>1 DEF M!MoveCareerPages
<1>2. M!Up("career_pages") = <<M!Refuse("career_page"), M!Drop("career_pages")>>
  BY <1>1 DEF M!Up, M!Branches, M!UpCareerPages
<1> QED BY <1>2 DEF Made, M!Refuse, M!Drop, Neat

\* Creations and alterations, told apart by their operation.
LEMMA StockIs ==
  ASSUME NEW r \in M!Revisions, NEW o, Stock(r, o)
  PROVE  /\ o.op \in {"create", "ensure"} => o \in Created /\ Origin(o)
         /\ o.op \notin {"create", "ensure"} => o \in Alterations(r)
         /\ o.op = "add" => o \in Additions
         /\ o.op \in Growing /\ Neat(o)
<1>1. CASE o \in Created
  <2>1. Origin(o) /\ "career_pages" \notin Asks(o.table)
    BY <1>1, Origins DEF Asks
  <2>2. Neat(o)
    <3>1. o.op \in {"create", "ensure"} /\ IsTable(o.spec)
      BY <2>1 DEF Origin
    <3>2. \A fk \in o.spec.fks : fk[2] # "career_pages"
      BY <2>1, <3>1 DEF Origin, Needs
    <3> QED BY <3>1, <3>2 DEF Neat
  <2> QED BY <1>1, <2>1, <2>2 DEF Origin, Growing
<1>2. CASE o \in Alterations(r)
  <2>1. o.op \in {"add", "fk", "unique"} /\ Neat(o) /\ (o.op = "add" => o \in Additions)
    BY <1>2 DEF Alterations, Additions, Neat, M!AddColumns, M!SetForeignKey, M!AddUnique
  <2> QED BY <1>2, <2>1 DEF Growing
<1> QED BY <1>1, <1>2 DEF Stock

\* No column is added twice.
LEMMA AdditionsApart ==
  ASSUME NEW r \in M!Revisions, NEW q \in M!Revisions, r # q,
         NEW p \in Alterations(r), NEW o \in Alterations(q), p.op = "add", o.op = "add",
         p.table = o.table
  PROVE  p.cols \cap o.cols = {}
<1>1. CASE r = "003"
  BY <1>1 DEF Alterations, M!AddColumns, M!SetForeignKey, M!AddUnique, M!AlertColumns, M!AtsColumns
<1>2. CASE r = "job_lifecycle"
  BY <1>2 DEF Alterations, M!AddColumns, M!SetForeignKey, M!AddUnique, M!LifecycleColumns,
     M!AtsColumns
<1>3. CASE r = "ats_identity"
  BY <1>3 DEF Alterations, M!AddColumns, M!SetForeignKey, M!AddUnique, M!LifecycleColumns,
     M!AtsColumns
<1>4. CASE r = "saved_search_alerts"
  BY <1>4 DEF Alterations, M!AddColumns, M!SetForeignKey, M!AddUnique, M!AlertColumns
<1>5. CASE r \in {"audit_fixes", "google_integration", "auto_apply_review"}
  BY <1>5 DEF Alterations, M!AddColumns, M!SetForeignKey, M!AddUnique
<1> QED BY <1>1, <1>2, <1>3, <1>4, <1>5 DEF Alterations

\* No upgrade makes what another revision's upgrade makes, but revision 005 what the branches
\* make.
LEMMA UpgradesApart ==
  ASSUME NEW r \in M!Revisions, NEW q \in M!Revisions, r # q, r = "005" => q \notin M!Branches,
         NEW p \in Made(M!Up(r)), NEW o \in Made(M!Up(q))
  PROVE  Apart(p, o)
<1>1. CASE r = "career_pages"
  BY <1>1, CareerPagesUp DEF Apart
<1>2. CASE q = "career_pages"
  BY <1>2, CareerPagesUp DEF Apart
<1>3. CASE r # "career_pages" /\ q # "career_pages"
  <2>1. Stock(r, p) /\ Stock(q, o)
    BY <1>3, UpgradesStock
  <2>2. ASSUME p.op \in {"create", "ensure"}, o.op = "create" PROVE p.table # o.table
    <3>1. "005" \notin M!Branches
      BY DEF M!Branches
    <3> QED BY <2>1, <2>2, <3>1 DEF Stock
  <2>3. ASSUME p.op \in {"create", "ensure"}, o.op = "add", p.table = o.table
        PROVE  p.spec.cols \cap o.cols = {}
    <3>1. Fresh(p) /\ o \in Additions
      BY <2>1, <2>3, StockIs DEF Origin
    <3> QED BY <3>1, <2>3 DEF Fresh
  <2>4. ASSUME p.op = "add", o.op = "add", p.table = o.table PROVE p.cols \cap o.cols = {}
    <3>1. p \in Alterations(r) /\ o \in Alterations(q)
      BY <2>1, <2>4, StockIs
    <3> QED BY <3>1, <2>4, AdditionsApart
  <2> QED BY <2>2, <2>3, <2>4 DEF Apart
<1> QED BY <1>1, <1>2, <1>3

\* No downgrade makes what an upgrade makes, but the career pages.
LEMMA DowngradesApart ==
  ASSUME NEW r \in M!Revisions, NEW q \in M!Revisions, ~(r = "career_pages" /\ q = "002"),
         NEW p \in Made(M!Down(r)), NEW o \in Made(M!Up(q))
  PROVE  Apart(p, o)
<1>1. Loses(r, p)
  BY DowngradesLose
<1>2. CASE p.op = "create" /\ q # "career_pages"
  <2>1. p = M!CreateCareerPages /\ p \in Created /\ r = "career_pages"
    BY <1>1, <1>2 DEF Loses, Created
  <2>2. p.table = "career_pages" /\ Fresh(p)
    BY <2>1, Creations, Origins DEF Makes, Origin
  <2>3. Stock(q, o)
    BY <1>2, UpgradesStock
  <2>4. o.op = "create" => p.table # o.table
    <3>1. CreatedBy("career_pages") = "002"
      BY DEF CreatedBy
    <3> QED BY <2>1, <2>2, <2>3, <3>1 DEF Stock
  <2>5. o.op = "add" => o \in Additions
    BY <2>3, StockIs
  <2> QED BY <1>2, <2>2, <2>4, <2>5 DEF Apart, Fresh
<1>3. CASE q = "career_pages"
  BY <1>3, CareerPagesUp DEF Apart
<1>4. CASE p.op # "create"
  BY <1>1, <1>4 DEF Loses, Apart
<1> QED BY <1>2, <1>3, <1>4

\* What a branch makes, the downgrade of revision 005 drops.
LEMMA BranchesTaken ==
  ASSUME NEW b \in M!Branches, NEW o \in Made(M!Up(b))
  PROVE  o.op = "create" /\ \E p \in Made(M!Down("005")) : Takes(p, o)
<1>1. M!Down("005") = M!Down005
  BY DEF M!Down, M!Branches
<1>2. \A t \in {"referral_requests", "contacts", "email_logs", "dedup_feedback",
                "application_dedup", "field_mapping_rules", "resume_archetypes"} :
           M!Drop(t) \in Made(M!Down005)
  BY DEF Made, M!Down005, M!Drops
<1>3. o \in {M!CreateEmailLogs, M!CreateContacts, M!CreateReferralRequests,
             M!CreateResumeArchetypes, M!CreateDedupFeedback, M!CreateFieldMappingRules,
             M!CreateApplicationDedup}
  <2>1. CASE b = "004"
    BY <2>1 DEF M!Branches, M!Up, Made, M!UpEmail
  <2>2. CASE b = "networking"
    BY <2>2 DEF M!Branches, M!Up, Made, M!UpNetworking
  <2>3. CASE b = "archetypes"
    BY <2>3 DEF M!Branches, M!Up, Made, M!UpArchetypes
  <2>4. CASE b = "dedup_feedback"
    BY <2>4 DEF M!Branches, M!Up, Made, M!UpFeedback
  <2>5. CASE b = "form_learning"
    BY <2>5 DEF M!Branches, M!Up, Made, M!UpFormLearning
  <2> QED BY <2>1, <2>2, <2>3, <2>4, <2>5 DEF M!Branches
<1>4. M!Drop(o.table) \in Made(M!Down005)
  BY <1>2, <1>3, Creations DEF Makes
<1>5. o.op = "create"
  BY <1>3 DEF M!Create, M!CreateEmailLogs, M!CreateContacts, M!CreateReferralRequests,
     M!CreateResumeArchetypes, M!CreateDedupFeedback, M!CreateFieldMappingRules,
     M!CreateApplicationDedup
<1> QED BY <1>1, <1>4, <1>5 DEF Takes, M!Drop

\* The downgrade of a branch starts with a table its upgrade creates.
LEMMA BranchesDrop ==
  ASSUME NEW b \in M!Branches
  PROVE  /\ Len(M!Down(b)) >= 1 /\ M!Down(b)[1].op = "drop"
         /\ \E o \in Made(M!Up(b)) : o.table = M!Down(b)[1].table
<1>1. CASE b = "004"
  <2>1. M!Up(b) = M!UpEmail /\ M!Down(b) = M!DownEmail
    BY <1>1 DEF M!Up, M!Down, M!Branches
  <2> QED BY <2>1, Creations DEF Made, Makes, M!UpEmail, M!DownEmail, M!Drops, M!Drop
<1>2. CASE b = "networking"
  <2>1. M!Up(b) = M!UpNetworking /\ M!Down(b) = M!DownNetworking
    BY <1>2 DEF M!Up, M!Down, M!Branches
  <2> QED BY <2>1, Creations DEF Made, Makes, M!UpNetworking, M!DownNetworking, M!Drops, M!Drop
<1>3. CASE b = "archetypes"
  <2>1. M!Up(b) = M!UpArchetypes /\ M!Down(b) = M!DownArchetypes
    BY <1>3 DEF M!Up, M!Down, M!Branches
  <2> QED BY <2>1, Creations DEF Made, Makes, M!UpArchetypes, M!DownArchetypes, M!Drops, M!Drop
<1>4. CASE b = "dedup_feedback"
  <2>1. M!Up(b) = M!UpFeedback /\ M!Down(b) = M!DownFeedback
    BY <1>4 DEF M!Up, M!Down, M!Branches
  <2> QED BY <2>1, Creations DEF Made, Makes, M!UpFeedback, M!DownFeedback, M!Drops, M!Drop
<1>5. CASE b = "form_learning"
  <2>1. M!Up(b) = M!UpFormLearning /\ M!Down(b) = M!DownFormLearning
    BY <1>5 DEF M!Up, M!Down, M!Branches
  <2> QED BY <2>1, Creations DEF Made, Makes, M!UpFormLearning, M!DownFormLearning, M!Drops, M!Drop
<1> QED BY <1>1, <1>2, <1>3, <1>4, <1>5 DEF M!Branches

-----------------------------------------------------------------------------
(* The commands. *)

\* The revisions below one whose parents are applied are applied, but for the branches.
LEMMA EarlierApplied ==
  ASSUME NEW W, Closed(W), NEW r \in M!Revisions, M!Parents(r) \subseteq W
  PROVE  \A q \in M!Revisions \ M!Branches : Rank(q) < Rank(r) => q \in W
<1> DEFINE V == W \cup {r}
           Has(q) == q \in V
<1>1. \A q \in M!Revisions : q \in V => M!Parents(q) \subseteq V
  BY DEF Closed
<1>2. /\ Has("002") => Has("001")
      /\ Has("003") => Has("002")
      /\ Has("scrape_targets") => Has("003")
      /\ Has("attempt_indexes") => Has("scrape_targets")
      /\ Has("job_lifecycle") => Has("attempt_indexes")
      /\ Has("career_pages") => Has("job_lifecycle")
      /\ Has("audit_fixes") => Has("career_pages")
      /\ \A b \in M!Branches : Has(b) => Has("audit_fixes")
      /\ Has("merge_heads") => \A b \in M!Branches : Has(b)
      /\ Has("005") => Has("merge_heads")
      /\ Has("integration_secrets") => Has("005")
      /\ Has("ats_identity") => Has("integration_secrets")
      /\ Has("saved_search_alerts") => Has("ats_identity")
      /\ Has("google_integration") => Has("saved_search_alerts")
      /\ Has("auto_apply_review") => Has("google_integration")
  <2> HIDE DEF V
  <2> QED BY <1>1 DEF M!Revisions, M!Branches, M!Parents
<1>3. Has(r) /\ "004" \in M!Branches
  BY DEF M!Branches
<1>4. \A q \in M!Revisions \ M!Branches : Rank(q) < Rank(r) => Has(q)
  <2> HIDE DEF V
  <2> QED BY <1>2, <1>3, RankIs DEF M!Revisions
<1>5. \A q \in M!Revisions : Rank(q) < Rank(r) => q # r
  BY RankIs DEF M!Revisions
<1> QED BY <1>4, <1>5

\* The tables of the earlier revisions are there when a revision is about to run.
LEMMA StandingExists ==
  ASSUME NEW W, NEW d, Holds(W, d), NEW r \in M!Revisions, M!Parents(r) \subseteq W
  PROVE  Standing(r) \subseteq DOMAIN d.tables
<1> SUFFICES ASSUME NEW t \in Standing(r) PROVE M!Exists(d, t)
  BY DEF M!Exists
<1>1. t \in Tables /\ TableRank(t) < Rank(r)
  BY DEF Standing
<1>2. PICK q \in M!Revisions \ M!Branches :
          Rank(q) = TableRank(t) /\ \E o \in Made(M!Up(q)) : Builds(o) /\ o.table = t
  BY <1>1, TablesAreMade
<1>3. q \in W
  BY <1>1, <1>2, EarlierApplied DEF Holds
<1> QED BY <1>2, <1>3 DEF Holds, InPlace

\* Branches that are applied once a revision above them is.
LEMMA BranchesBelow ==
  ASSUME NEW W, Closed(W)
  PROVE  /\ "merge_heads" \in W => M!Branches \subseteq W
         /\ "005" \in W => "merge_heads" \in W /\ M!Branches \subseteq W
         /\ "career_pages" \in W => "002" \in W
<1> DEFINE Has(q) == q \in W
<1>1. \A q \in M!Revisions : q \in W => M!Parents(q) \subseteq W
  BY DEF Closed
<1>2. /\ Has("003") => Has("002")
      /\ Has("scrape_targets") => Has("003")
      /\ Has("attempt_indexes") => Has("scrape_targets")
      /\ Has("job_lifecycle") => Has("attempt_indexes")
      /\ Has("career_pages") => Has("job_lifecycle")
      /\ Has("merge_heads") => M!Branches \subseteq W
      /\ Has("005") => Has("merge_heads")
  BY <1>1 DEF M!Revisions, M!Branches, M!Parents
<1> QED BY <1>2

\* A database in which what the revisions that are not applied are to make is not there yet,
\* and the career pages are there from the revision that creates them to the one that drops
\* them.
Open(W, d) ==
    /\ Unpointed(d)
    /\ \A r \in M!Revisions \ W : \A o \in Made(M!Up(r)) : Absent(o, d)
    /\ "002" \in W /\ "career_pages" \notin W => InPlace(M!CreateCareerPages, d)

\* A database that revision 005 has worked on once: its downgrade has left nothing of the
\* branches, or it is applied.
Gone(W, d) ==
    /\ M!Branches \subseteq W
    /\ "005" \notin W => \A b \in M!Branches : \A o \in Made(M!Up(b)) : Absent(o, d)

\* The upgrade of a revision that is due succeeds, unless there is a career page to be moved.
LEMMA UpgradeSucceeds ==
  ASSUME NEW W, NEW d, Holds(W, d), Open(W, d), NEW r \in M!Revisions \ W,
         M!Parents(r) \subseteq W, r = "career_pages" => "career_page" \notin d.rows
  PROVE  M!PerformAll(d, M!Up(r)) # M!Failed
<1>0. Grounded(d) /\ IsDatabase(d) /\ Unpointed(d)
  BY DEF Holds, Open, Grounded
<1>1. CASE r # "career_pages"
  <2> DEFINE ops == M!Up(r)
  <2>1. Len(ops) \in Nat /\ Ordered(ops, Standing(r))
    BY <1>1, UpgradesOrdered
  <2>2. Standing(r) \subseteq DOMAIN d.tables
    BY StandingExists
  <2>3. ASSUME NEW i \in 1..Len(ops)
        PROVE  /\ Harmless(ops[i]) /\ Neat(ops[i]) /\ ops[i].op \in Growing
               /\ Absent(ops[i], d)
               /\ Needs(ops[i]) \subseteq DOMAIN d.tables \cup Before(ops, i)
    <3>1. ops[i] \in Made(ops)
      BY DEF Made
    <3>2. Harmless(ops[i]) /\ Stock(r, ops[i])
      BY <3>1, <1>1, Upgrades, UpgradesStock DEF UpStep
    <3>3. Neat(ops[i]) /\ ops[i].op \in Growing
      BY <3>2, StockIs
    <3>4. Absent(ops[i], d)
      BY <3>1 DEF Open
    <3>5. Needs(ops[i]) \subseteq Standing(r) \cup Before(ops, i)
      BY <2>1 DEF Ordered
    <3> QED BY <3>2, <3>3, <3>4, <3>5, <2>2
  <2>4. ASSUME NEW i \in 1..Len(ops), NEW j \in 1..Len(ops), i < j
        PROVE  Apart(ops[i], ops[j])
    BY <2>1, <2>4 DEF Ordered, Apart
  <2> HIDE DEF ops
  <2>5. M!PerformAll(d, ops) # M!Failed
    BY <1>0, <2>1, <2>3, <2>4, SequencesSucceed
  <2> QED BY <2>5 DEF ops
<1>2. CASE r = "career_pages"
  <2> DEFINE ops == <<M!Refuse("career_page"), M!Drop("career_pages")>>
  <2>1. M!Up(r) = ops /\ Len(ops) = 2
    BY <1>2, CareerPagesUp
  <2>2. PICK f : /\ M!PerformAll(d, ops) = f[2] /\ f[0] = d
                 /\ \A i \in 1..2 : f[i] = M!Perform(f[i - 1], ops[i])
    BY <2>1, PerformAllRuns
  <2>3. f[1] = M!Perform(f[0], ops[1]) /\ f[2] = M!Perform(f[1], ops[2])
    BY <2>2
  <2>4. f[1] = d
    <3>1. d # M!Failed
      BY <1>0 DEF Unpointed, M!Failed
    <3> QED BY <3>1, <2>2, <2>3, <1>2 DEF M!Perform, M!Refuse
  <2>5. M!Exists(d, "career_pages")
    <3>1. "002" \in W
      BY <1>2, EarlierApplied, RankIs DEF Holds, M!Revisions, M!Branches
    <3> QED BY <3>1, <1>2, Creations DEF Open, InPlace, Makes
  <2>6. M!Perform(d, M!Drop("career_pages")) # M!Failed
    <3> DEFINE o == M!Drop("career_pages")
    <3>1. /\ o.op = "drop" /\ o.table = "career_pages" /\ Neat(o) /\ Absent(o, d)
          /\ Needs(o) = {"career_pages"}
      BY DEF M!Drop, Neat, Absent, Needs
    <3>2. Needs(o) \subseteq DOMAIN d.tables
      BY <3>1, <2>5 DEF M!Exists
    <3> HIDE DEF o
    <3>3. M!Perform(d, o) # M!Failed
      BY <1>0, <3>1, <3>2, Succeeds
    <3> QED BY <3>3 DEF o
  <2> QED BY <2>1, <2>2, <2>3, <2>4, <2>6
<1> QED BY <1>1, <1>2

\* The operations of an upgrade leave the career pages alone, but for the upgrade that drops
\* them; so do those of a downgrade, but for that of revision 002.
LEMMA PagesSpared ==
  ASSUME NEW r \in M!Revisions
  PROVE  /\ r # "career_pages" => \A p \in Made(M!Up(r)) : Spares(p, M!CreateCareerPages)
         /\ r # "002" => \A p \in Made(M!Down(r)) : Spares(p, M!CreateCareerPages)
<1>0. M!CreateCareerPages.op = "create" /\ M!CreateCareerPages.table = "career_pages"
  BY Creations DEF Makes, M!Create, M!CreateCareerPages
<1>1. ASSUME r # "career_pages", NEW p \in Made(M!Up(r)) PROVE Spares(p, M!CreateCareerPages)
  <2>1. p.op \in Growing
    BY <1>1, UpgradesStock, StockIs
  <2> QED BY <2>1, <1>0 DEF Growing, Spares
<1>2. ASSUME r # "002", NEW p \in Made(M!Down(r)) PROVE Spares(p, M!CreateCareerPages)
  <2>1. p.op \in Operations /\ Loses(r, p)
    BY <1>2, Downgrades, DowngradesLose DEF DownStep, Harmless
  <2>2. p.op = "drop" => p.table # "career_pages"
    BY <1>2, <2>1 DEF Loses
  <2> QED BY <2>1, <2>2, <1>0 DEF Operations, Spares
<1> QED BY <1>1, <1>2

\* The career pages are made by the upgrade of revision 002 and by the downgrade that undoes
\* their move.
LEMMA PagesMade ==
  /\ M!CreateCareerPages \in Made(M!Up("002"))
  /\ M!CreateCareerPages \in Made(M!Down("career_pages"))
  /\ M!CreateCareerPages.op \in Building
<1>1. M!CreateCareerPages = M!RecreateCareerPages
  BY DEF M!CreateCareerPages, M!RecreateCareerPages
<1>2. M!CreateCareerPages.op \in Building
  BY DEF M!Create, M!CreateCareerPages, Building
<1>3. M!Up("002") = M!Up002 /\ M!Down("career_pages") = M!DownCareerPages
  BY DEF M!Up, M!Down, M!Branches
<1>4. M!CreateCareerPages \in Made(M!Up002)
  BY DEF Made, M!Up002
<1>5. M!RecreateCareerPages \in Made(M!DownCareerPages)
  BY DEF Made, M!DownCareerPages
<1> QED BY <1>1, <1>2, <1>3, <1>4, <1>5

\* The operations of an upgrade and of a downgrade, one by one.
LEMMA UpgradeRuns ==
  ASSUME NEW d, Grounded(d), Unpointed(d), NEW r \in M!Revisions,
         M!PerformAll(d, M!Up(r)) # M!Failed
  PROVE  /\ Unpointed(M!PerformAll(d, M!Up(r)))
         /\ \A o : (\A p \in Made(M!Up(r)) : Apart(p, o)) /\ Absent(o, d)
                      => Absent(o, M!PerformAll(d, M!Up(r)))
         /\ \A o : /\ InPlace(o, d) \/ (o \in Made(M!Up(r)) /\ o.op \in Building)
                   /\ \A p \in Made(M!Up(r)) : Spares(p, o)
                   => InPlace(o, M!PerformAll(d, M!Up(r)))
<1> DEFINE ops == M!Up(r)
<1>1. Len(ops) \in Nat /\ \A i \in 1..Len(ops) : ops[i] \in Made(ops)
  BY Upgrades DEF Made
<1>2. ASSUME NEW i \in 1..Len(ops) PROVE Harmless(ops[i]) /\ Neat(ops[i])
  <2>1. Harmless(ops[i])
    BY <1>1, Upgrades DEF UpStep
  <2>2. CASE r = "career_pages"
    BY <2>1, <2>2, <1>1, CareerPagesUp
  <2>3. CASE r # "career_pages"
    BY <2>1, <2>3, <1>1, UpgradesStock, StockIs
  <2> QED BY <2>2, <2>3
<1>3. \A o \in Made(ops) : \E i \in 1..Len(ops) : o = ops[i]
  BY DEF Made
<1> HIDE DEF ops
<1>4. /\ Unpointed(M!PerformAll(d, ops))
      /\ \A o : (\A i \in 1..Len(ops) : Apart(ops[i], o)) /\ Absent(o, d)
                   => Absent(o, M!PerformAll(d, ops))
  BY <1>1, <1>2, SequencesTake DEF ops
<1>5. /\ \A o : InPlace(o, d) /\ (\A i \in 1..Len(ops) : Spares(ops[i], o))
                   => InPlace(o, M!PerformAll(d, ops))
      /\ \A k \in 1..Len(ops) :
             ops[k].op \in Building /\ (\A i \in 1..Len(ops) : Spares(ops[i], ops[k]))
                   => InPlace(ops[k], M!PerformAll(d, ops))
  BY <1>1, <1>2, Sequences DEF ops
<1>6. /\ Unpointed(M!PerformAll(d, ops))
      /\ \A o : (\A p \in Made(ops) : Apart(p, o)) /\ Absent(o, d)
                   => Absent(o, M!PerformAll(d, ops))
  BY <1>1, <1>4
<1>7. ASSUME NEW o, InPlace(o, d) \/ (o \in Made(ops) /\ o.op \in Building),
             \A p \in Made(ops) : Spares(p, o)
      PROVE  InPlace(o, M!PerformAll(d, ops))
  <2>1. \A i \in 1..Len(ops) : Spares(ops[i], o)
    BY <1>1, <1>7
  <2>2. CASE InPlace(o, d)
    BY <2>1, <2>2, <1>5
  <2>3. CASE o \in Made(ops) /\ o.op \in Building
    <3>1. PICK k \in 1..Len(ops) : o = ops[k]
      BY <2>3, <1>3
    <3> QED BY <3>1, <2>1, <2>3, <1>5
  <2> QED BY <2>2, <2>3, <1>7
<1> QED BY <1>6, <1>7 DEF ops

\* The same of a downgrade, which also takes things away.
LEMMA DowngradeRuns ==
  ASSUME NEW d, Grounded(d), Unpointed(d), NEW r \in M!Revisions,
         M!PerformAll(d, M!Down(r)) # M!Failed
  PROVE  /\ Unpointed(M!PerformAll(d, M!Down(r)))
         /\ \A o : (\A p \in Made(M!Down(r)) : Apart(p, o))
                   /\ (Absent(o, d) \/ (o.op \in {"create", "add"}
                                        /\ \E p \in Made(M!Down(r)) : Takes(p, o)))
                      => Absent(o, M!PerformAll(d, M!Down(r)))
         /\ \A o : /\ InPlace(o, d) \/ (o \in Made(M!Down(r)) /\ o.op \in Building)
                   /\ \A p \in Made(M!Down(r)) : Spares(p, o)
                   => InPlace(o, M!PerformAll(d, M!Down(r)))
<1> DEFINE ops == M!Down(r)
<1>1. Len(ops) \in Nat /\ \A i \in 1..Len(ops) : ops[i] \in Made(ops)
  BY Downgrades DEF Made
<1>2. \A i \in 1..Len(ops) : Harmless(ops[i]) /\ Neat(ops[i])
  BY <1>1, Downgrades, DowngradesLose DEF DownStep, Loses
<1>3. \A o \in Made(ops) : \E i \in 1..Len(ops) : o = ops[i]
  BY DEF Made
<1> HIDE DEF ops
<1>4. /\ Unpointed(M!PerformAll(d, ops))
      /\ \A o : /\ \A i \in 1..Len(ops) : Apart(ops[i], o)
                /\ \/ Absent(o, d)
                   \/ o.op \in {"create", "add"} /\ \E k \in 1..Len(ops) : Takes(ops[k], o)
                => Absent(o, M!PerformAll(d, ops))
  BY <1>1, <1>2, SequencesTake DEF ops
<1>5. /\ \A o : InPlace(o, d) /\ (\A i \in 1..Len(ops) : Spares(ops[i], o))
                   => InPlace(o, M!PerformAll(d, ops))
      /\ \A k \in 1..Len(ops) :
             ops[k].op \in Building /\ (\A i \in 1..Len(ops) : Spares(ops[i], ops[k]))
                   => InPlace(ops[k], M!PerformAll(d, ops))
  BY <1>1, <1>2, Sequences DEF ops
<1>6. ASSUME NEW o, \A p \in Made(ops) : Apart(p, o),
             \/ Absent(o, d)
             \/ o.op \in {"create", "add"} /\ \E p \in Made(ops) : Takes(p, o)
      PROVE  Absent(o, M!PerformAll(d, ops))
  <2>1. \A i \in 1..Len(ops) : Apart(ops[i], o)
    BY <1>1, <1>6
  <2>2. CASE Absent(o, d)
    BY <2>1, <2>2, <1>4
  <2>3. CASE o.op \in {"create", "add"} /\ \E p \in Made(ops) : Takes(p, o)
    <3>1. \E k \in 1..Len(ops) : Takes(ops[k], o)
      BY <2>3, <1>3
    <3> QED BY <3>1, <2>1, <2>3, <1>4
  <2> QED BY <2>2, <2>3, <1>6
<1>7. ASSUME NEW o, InPlace(o, d) \/ (o \in Made(ops) /\ o.op \in Building),
             \A p \in Made(ops) : Spares(p, o)
      PROVE  InPlace(o, M!PerformAll(d, ops))
  <2>1. \A i \in 1..Len(ops) : Spares(ops[i], o)
    BY <1>1, <1>7
  <2>2. CASE InPlace(o, d)
    BY <2>1, <2>2, <1>5
  <2>3. CASE o \in Made(ops) /\ o.op \in Building
    <3>1. PICK k \in 1..Len(ops) : o = ops[k]
      BY <2>3, <1>3
    <3> QED BY <3>1, <2>1, <2>3, <1>5
  <2> QED BY <2>2, <2>3, <1>7
<1> QED BY <1>4, <1>6, <1>7 DEF ops

\* An upgrade leaves absent what the revisions still to come are to make.
LEMMA OpenUp ==
  ASSUME NEW W, NEW d, Holds(W, d), Open(W, d), NEW r \in M!Revisions \ W,
         M!Parents(r) \subseteq W, M!PerformAll(d, M!Up(r)) # M!Failed
  PROVE  Open(W \cup {r}, M!PerformAll(d, M!Up(r)))
<1> DEFINE e == M!PerformAll(d, M!Up(r))
<1>0. Grounded(d) /\ Unpointed(d) /\ Closed(W)
  BY DEF Holds, Open
<1>1. Unpointed(e)
  BY <1>0, UpgradeRuns
<1>2. ASSUME NEW q \in M!Revisions \ (W \cup {r}), NEW o \in Made(M!Up(q)) PROVE Absent(o, e)
  <2>1. Absent(o, d) /\ r # q
    BY DEF Open
  <2>2. r = "005" => q \notin M!Branches
    BY <1>0, BranchesBelow DEF M!Parents, M!Branches
  <2>3. \A p \in Made(M!Up(r)) : Apart(p, o)
    BY <2>1, <2>2, UpgradesApart
  <2> QED BY <1>0, <2>1, <2>3, UpgradeRuns
<1>3. ASSUME "002" \in W \cup {r}, "career_pages" \notin W \cup {r}
      PROVE  InPlace(M!CreateCareerPages, e)
  <2>1. \A p \in Made(M!Up(r)) : Spares(p, M!CreateCareerPages)
    BY <1>3, PagesSpared
  <2>2. \/ InPlace(M!CreateCareerPages, d)
        \/ M!CreateCareerPages \in Made(M!Up(r)) /\ M!CreateCareerPages.op \in Building
    BY <1>3, PagesMade DEF Open
  <2> QED BY <1>0, <2>1, <2>2, UpgradeRuns
<1> HIDE DEF e
<1> QED BY <1>1, <1>2, <1>3 DEF Open, e

\* A downgrade leaves absent what its revision has made.
LEMMA OpenDown ==
  ASSUME NEW W, NEW d, Holds(W, d), Open(W, d), NEW r \in W,
         M!PerformAll(d, M!Down(r)) # M!Failed
  PROVE  Open(W \ {r}, M!PerformAll(d, M!Down(r)))
<1> DEFINE e == M!PerformAll(d, M!Down(r))
<1>0. Grounded(d) /\ Unpointed(d) /\ Closed(W) /\ r \in M!Revisions
  BY DEF Holds, Open, Closed
<1>1. Unpointed(e)
  BY <1>0, DowngradeRuns
<1>2. ASSUME NEW q \in M!Revisions \ (W \ {r}), NEW o \in Made(M!Up(q)) PROVE Absent(o, e)
  <2>1. ~(r = "career_pages" /\ q = "002")
    BY <1>0, BranchesBelow
  <2>2. \A p \in Made(M!Down(r)) : Apart(p, o)
    BY <1>0, <2>1, DowngradesApart
  <2>3. CASE q = r
    <3>1. CASE o.op \in {"create", "add"}
      <4>1. \E p \in Made(M!Down(r)) : Takes(p, o)
        BY <1>0, <2>3, <3>1, DowngradesTake
      <4> QED BY <1>0, <2>2, <3>1, <4>1, DowngradeRuns
    <3>2. CASE o.op \notin {"create", "add"}
      BY <3>2 DEF Absent
    <3> QED BY <3>1, <3>2
  <2>4. CASE q # r
    <3>1. Absent(o, d)
      BY <2>4 DEF Open
    <3> QED BY <1>0, <2>2, <3>1, DowngradeRuns
  <2> QED BY <2>3, <2>4
<1>3. ASSUME "002" \in W \ {r}, "career_pages" \notin W \ {r}
      PROVE  InPlace(M!CreateCareerPages, e)
  <2>1. \A p \in Made(M!Down(r)) : Spares(p, M!CreateCareerPages)
    BY <1>0, <1>3, PagesSpared
  <2>2. \/ InPlace(M!CreateCareerPages, d)
        \/ M!CreateCareerPages \in Made(M!Down(r)) /\ M!CreateCareerPages.op \in Building
    BY <1>3, PagesMade DEF Open
  <2> QED BY <1>0, <2>1, <2>2, DowngradeRuns
<1> HIDE DEF e
<1> QED BY <1>1, <1>2, <1>3 DEF Open, e

\* An upgrade of another revision leaves the branches as the downgrade of 005 has left them.
LEMMA GoneUp ==
  ASSUME NEW W, NEW d, Holds(W, d), Open(W, d), Gone(W, d), NEW r \in M!Revisions \ W,
         M!PerformAll(d, M!Up(r)) # M!Failed
  PROVE  Gone(W \cup {r}, M!PerformAll(d, M!Up(r)))
<1> DEFINE e == M!PerformAll(d, M!Up(r))
<1>0. Grounded(d) /\ Unpointed(d)
  BY DEF Holds, Open
<1>1. ASSUME "005" \notin W \cup {r}, NEW b \in M!Branches, NEW o \in Made(M!Up(b))
      PROVE  Absent(o, e)
  <2>1. b \in W /\ b \in M!Revisions /\ Absent(o, d)
    BY <1>1 DEF Gone, M!Revisions
  <2>2. \A p \in Made(M!Up(r)) : Apart(p, o)
    BY <1>1, <2>1, UpgradesApart
  <2> QED BY <1>0, <2>1, <2>2, UpgradeRuns
<1> HIDE DEF e
<1> QED BY <1>1 DEF Gone, e

\* The downgrade of revision 005 drops what the branches have made, and then the downgrade of
\* a branch has nothing to drop.
LEMMA GoneDown ==
  ASSUME NEW W, NEW d, Holds(W, d), Open(W, d), Gone(W, d), NEW r \in W,
         \A q \in W : r \notin M!Parents(q), M!PerformAll(d, M!Down(r)) # M!Failed
  PROVE  Gone(W \ {r}, M!PerformAll(d, M!Down(r)))
<1> DEFINE e == M!PerformAll(d, M!Down(r))
<1>0. Grounded(d) /\ Unpointed(d) /\ Closed(W) /\ r \in M!Revisions
  BY DEF Holds, Open, Closed
<1>1. r \notin M!Branches
  <2>1. CASE "005" \in W
    <3>1. "merge_heads" \in W /\ M!Parents("merge_heads") = M!Branches
      BY <1>0, <2>1, BranchesBelow DEF M!Parents, M!Branches
    <3> QED BY <3>1
  <2>2. CASE "005" \notin W /\ r \in M!Branches
    <3> DEFINE ops == M!Down(r)
    <3>1. /\ Len(ops) \in Nat /\ Len(ops) >= 1 /\ ops[1].op = "drop"
          /\ \E o \in Made(M!Up(r)) : o.table = ops[1].table
      BY <1>0, <2>2, Downgrades, BranchesDrop
    <3>2. PICK o \in Made(M!Up(r)) : o.table = ops[1].table
      BY <3>1
    <3>3. o.op = "create" /\ Absent(o, d)
      BY <2>2, BranchesTaken DEF Gone
    <3>4. ~M!Exists(d, ops[1].table)
      BY <3>2, <3>3 DEF Absent
    <3> HIDE DEF ops
    <3>5. M!Perform(d, ops[1]) = M!Failed
      BY <3>1, <3>4 DEF M!Perform
    <3>6. PICK f : /\ M!PerformAll(d, ops) = f[Len(ops)] /\ f[0] = d
                   /\ \A i \in 1..Len(ops) : f[i] = M!Perform(f[i - 1], ops[i])
                   /\ M!PerformAll(d, ops) # M!Failed => \A i \in 0..Len(ops) : f[i] # M!Failed
      BY <3>1, PerformAllRuns
    <3>7. f[1] = M!Perform(d, ops[1]) /\ f[1] # M!Failed
      BY <3>1, <3>6 DEF ops
    <3> QED BY <3>5, <3>7
  <2> QED BY <2>1, <2>2
<1>2. ASSUME "005" \notin W \ {r}, NEW b \in M!Branches, NEW o \in Made(M!Up(b))
      PROVE  Absent(o, e)
  <2>1. b \in M!Revisions /\ b # "002"
    BY DEF M!Revisions, M!Branches
  <2>2. \A p \in Made(M!Down(r)) : Apart(p, o)
    BY <1>0, <2>1, DowngradesApart
  <2>3. CASE r = "005"
    BY <1>0, <2>2, <2>3, BranchesTaken, DowngradeRuns
  <2>4. CASE r # "005"
    <3>1. Absent(o, d)
      BY <1>2, <2>4 DEF Gone
    <3> QED BY <1>0, <2>2, <3>1, DowngradeRuns
  <2> QED BY <2>3, <2>4
<1>3. M!Branches \subseteq W \ {r}
  BY <1>1 DEF Gone
<1> HIDE DEF e
<1> QED BY <1>2, <1>3 DEF Gone, e

\* The inductive invariant: in the committed database and in the transaction's, what is still to
\* be made is absent, and once 005 has been committed nothing is left for the branches'
\* downgrades.
Predictable ==
    /\ Migrated /\ command.scope \subseteq M!Revisions
    /\ Open(applied, db) /\ Open(workApplied, ddl)
    /\ consolidated => Gone(applied, db) /\ Gone(workApplied, ddl)

\* In the empty database nothing is made.
LEMMA PredictableStart == M!Init => Predictable
<1> SUFFICES ASSUME M!Init PROVE Predictable
  OBVIOUS
<1>1. Migrated
  BY MigratedStart
<1>2. db.rows = {} /\ DOMAIN db.tables = {} /\ applied = {}
  BY DEF M!Init
<1>3. Open(applied, db)
  BY <1>2 DEF Open, Unpointed, Absent, M!Exists
<1>4. ddl = db /\ workApplied = applied /\ command.scope = {} /\ consolidated = FALSE
  BY DEF M!Init, M!Idle
<1> QED BY <1>1, <1>3, <1>4 DEF Predictable

\* A stored row makes no table and drops none.
LEMMA StoredOpen ==
  ASSUME NEW W, NEW d, Holds(W, d), Open(W, d), NEW kind \in M!RowKinds
  PROVE  /\ Open(W, [d EXCEPT !.rows = @ \cup {kind}])
         /\ Gone(W, d) => Gone(W, [d EXCEPT !.rows = @ \cup {kind}])
<1> DEFINE e == [d EXCEPT !.rows = @ \cup {kind}]
<1>1. e.tables = d.tables /\ e.rows = d.rows \cup {kind} /\ kind # "failed"
  BY DEF Holds, Grounded, IsDatabase, M!RowKinds
<1> SUFFICES Open(W, e) /\ (Gone(W, d) => Gone(W, e))
  OBVIOUS
<1> HIDE DEF e
<1>2. Unpointed(e)
  BY <1>1 DEF Open, Unpointed
<1>3. \A o : (Absent(o, d) => Absent(o, e)) /\ (InPlace(o, d) => InPlace(o, e))
  BY <1>1 DEF Absent, InPlace, M!Exists
<1> QED BY <1>2, <1>3 DEF Open, Gone

\* A stamped branch counts as applied: less is to be made.
LEMMA StampedOpen ==
  ASSUME NEW W, NEW d, Open(W, d), NEW r \in M!Branches
  PROVE  Open(W \cup {r}, d) /\ (Gone(W, d) => Gone(W \cup {r}, d))
<1>1. r # "002"
  BY DEF M!Branches
<1> QED BY <1>1 DEF Open, Gone

\* Every step of alembic, and of the application, keeps it.
LEMMA PredictableStep == Predictable /\ [M!Next]_(M!vars) => Predictable'
<1> SUFFICES ASSUME Predictable, [M!Next]_(M!vars) PROVE Predictable'
  OBVIOUS
<1>0. Migrated'
  BY MigratedStep DEF Predictable
<1> USE DEF Predictable
<1>1. ASSUME NEW r \in M!Revisions, M!StartUpgrade(r) PROVE Predictable'
  <2>1. command'.scope \subseteq M!Revisions
    BY <1>1 DEF M!StartUpgrade
  <2> QED BY <1>0, <1>1, <2>1 DEF M!StartUpgrade
<1>2. ASSUME NEW r \in M!Revisions, M!StartDowngrade(r) PROVE Predictable'
  <2>1. command'.scope \subseteq M!Revisions
    BY <1>2 DEF M!StartDowngrade, Migrated, Holds, Closed
  <2> QED BY <1>0, <1>2, <2>1 DEF M!StartDowngrade
<1>3. ASSUME NEW r \in M!Revisions, M!RunRevision(r) PROVE Predictable'
  <2>0. Holds(workApplied, ddl) /\ UNCHANGED <<db, applied, command, consolidated>>
    BY <1>3 DEF Migrated, M!RunRevision
  <2>1. CASE command.kind = "upgrade"
    <3>1. /\ r \in M!Revisions \ workApplied /\ M!Parents(r) \subseteq workApplied
          /\ ddl' = M!PerformAll(ddl, M!Up(r)) /\ workApplied' = workApplied \cup {r}
          /\ M!PerformAll(ddl, M!Up(r)) # M!Failed
      BY <1>3, <2>1 DEF M!RunRevision, M!Ready, M!Result
    <3>2. Open(workApplied, ddl)'
      BY <2>0, <3>1, OpenUp
    <3>3. consolidated => Gone(workApplied, ddl)'
      BY <2>0, <3>1, GoneUp
    <3> QED BY <1>0, <2>0, <3>2, <3>3
  <2>2. CASE command.kind = "downgrade"
    <3>1. /\ r \in workApplied /\ \A q \in workApplied : r \notin M!Parents(q)
          /\ ddl' = M!PerformAll(ddl, M!Down(r)) /\ workApplied' = workApplied \ {r}
          /\ M!PerformAll(ddl, M!Down(r)) # M!Failed
      BY <1>3, <2>2 DEF M!RunRevision, M!Ready, M!Result
    <3>2. Open(workApplied, ddl)'
      BY <2>0, <3>1, OpenDown
    <3>3. consolidated => Gone(workApplied, ddl)'
      BY <2>0, <3>1, GoneDown
    <3> QED BY <1>0, <2>0, <3>2, <3>3
  <2>3. command.kind \in {"upgrade", "downgrade"}
    BY <1>3 DEF M!RunRevision, M!Ready
  <2> QED BY <2>1, <2>2, <2>3
<1>4. ASSUME M!Rollback PROVE Predictable'
  BY <1>0, <1>4 DEF M!Rollback, M!Idle
<1>5. ASSUME NEW r \in M!Revisions, M!Stamp(r) PROVE Predictable'
  <2>1. /\ command.scope = {} /\ ddl = db /\ r \in M!Branches /\ Open(applied, db)
        /\ applied' = applied \cup {r} /\ workApplied' = applied \cup {r}
        /\ UNCHANGED <<db, ddl, command, consolidated>>
    BY <1>5 DEF M!Stamp, Migrated, M!Idle
  <2>2. Open(applied \cup {r}, db) /\ (Gone(applied, db) => Gone(applied \cup {r}, db))
    BY <2>1, StampedOpen
  <2> QED BY <1>0, <2>1, <2>2
<1>6. CASE M!CommitCommand
  <2>1. /\ db' = ddl /\ applied' = workApplied /\ ddl' = ddl /\ workApplied' = workApplied
        /\ command'.scope = {} /\ consolidated' = (consolidated \/ "005" \in workApplied)
    BY <1>6 DEF M!CommitCommand, M!Idle
  <2>2. "005" \in workApplied => Gone(workApplied, ddl)
    BY BranchesBelow DEF Migrated, Holds, Gone
  <2>3. consolidated' => Gone(workApplied, ddl)
    BY <2>1, <2>2
  <2> QED BY <1>0, <2>1, <2>3
<1>7. ASSUME NEW kind \in M!RowKinds, M!StoreRow(kind) PROVE Predictable'
  <2>1. /\ db' = [db EXCEPT !.rows = @ \cup {kind}] /\ ddl' = db' /\ workApplied = applied
        /\ UNCHANGED <<applied, command, workApplied, consolidated>>
    BY <1>7 DEF M!StoreRow, Migrated
  <2>2. Open(applied, db') /\ (Gone(applied, db) => Gone(applied, db'))
    BY <2>1, StoredOpen DEF Migrated
  <2> QED BY <1>0, <2>1, <2>2
<1>8. CASE UNCHANGED M!vars
  BY <1>0, <1>8 DEF M!vars
<1> QED BY <1>1, <1>2, <1>3, <1>4, <1>5, <1>6, <1>7, <1>8
        DEF M!Next, M!FailRevision, M!CrashCommand

\* In any order of any commands, stamps, failures and crashes, no revision of an upgrade fails
\* but the one that moves career pages, when there is a page; and once revision 005 has been
\* committed no command takes the database below the branches (migrations/versions).
THEOREM CommandsStayPredictable == M!Spec => CommandsArePredictable
<1>1. Predictable => M!OnlyCareerPagesStopAnUpgrade
  <2> SUFFICES ASSUME Predictable, command.kind = "upgrade", NEW r \in M!Ready,
                      M!Result(r) = M!Failed
               PROVE  r = "career_pages" /\ "career_page" \in ddl.rows
    BY DEF M!OnlyCareerPagesStopAnUpgrade
  <2>1. /\ r \in M!Revisions \ workApplied /\ M!Parents(r) \subseteq workApplied
        /\ M!PerformAll(ddl, M!Up(r)) = M!Failed
    BY DEF Predictable, M!Ready, M!Result
  <2> QED BY <2>1, UpgradeSucceeds DEF Predictable, Migrated
<1>2. Predictable /\ [M!Next]_(M!vars) => (consolidated => M!Branches \subseteq applied')
  <2> SUFFICES ASSUME Predictable, [M!Next]_(M!vars), consolidated
               PROVE  M!Branches \subseteq applied'
    OBVIOUS
  <2>1. M!Branches \subseteq applied /\ M!Branches \subseteq workApplied
    BY DEF Predictable, Gone
  <2>2. applied' = applied \/ applied' = workApplied \/ \E r : applied' = applied \cup {r}
    BY DEF M!Next, M!StartUpgrade, M!StartDowngrade, M!RunRevision, M!FailRevision, M!Stamp,
       M!CrashCommand, M!Rollback, M!CommitCommand, M!StoreRow, M!vars
  <2> QED BY <2>1, <2>2
<1>3. M!Spec => []Predictable
  BY PredictableStart, PredictableStep, PTL DEF M!Spec
<1>4. M!Spec => []M!OnlyCareerPagesStopAnUpgrade
  BY <1>1, <1>3, PTL
<1>5. M!Spec => [][consolidated => M!Branches \subseteq applied']_(M!vars)
  BY <1>2, <1>3, PTL DEF M!Spec
<1> QED BY <1>4, <1>5 DEF CommandsArePredictable, M!CommandsArePredictable,
                          M!NoWayBackPastTheBranches

-----------------------------------------------------------------------------
(* What the runs follow *)

\* While the schema stands the rows behave as UserData says (the run user_data).
LEMMA RowsMove == RowsSpec => Spec
<1>1. BothInit => Init
  BY DEF BothInit
<1>2. [RequestsServed]_<<vars, schemaVars>> => [Next]_vars
  BY DEF RequestsServed
<1> QED BY <1>1, <1>2, PTL DEF RowsSpec, Spec

\* While no request is served the schema behaves as Migrations says (the run migrations).
LEMMA SchemaMoves == MigrationsSpec => M!Spec
<1>1. BothInit => M!Init
  BY DEF BothInit
<1>2. [SchemaMigrated]_<<vars, schemaVars>> => [M!Next]_(M!vars)
  BY DEF SchemaMigrated, schemaVars, M!vars
<1> QED BY <1>1, <1>2, PTL DEF MigrationsSpec, M!Spec

\* What TLC checks of the two runs, for every value of the constants (persistence.py,
\* admin/service.py, migrations/versions).
THEOREM DatabaseHolds ==
  /\ RowsSpec => []SightingsExplained /\ ErasuresAreSound
  /\ MigrationsSpec => []HeadIsWhatTheModelsDeclare /\ CommandsArePredictable
BY RowsMove, SchemaMoves, SightingsAreExplained, ErasuresAreAlwaysSound, HeadsMatchTheModels,
   CommandsStayPredictable
===================================================================================
