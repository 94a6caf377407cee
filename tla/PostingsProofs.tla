------------------------------ MODULE PostingsProofs ------------------------------
(***********************************************************************************)
(* Proofs about the way of a posting to the user, for any users, postings, processes  *)
(* and bounds.  The parts have no variable in common, so each is proved of its own     *)
(* specification.                                                                     *)
(***********************************************************************************)
EXTENDS MCPostings, SequenceTheorems, FiniteSetTheorems, TLAPS

-----------------------------------------------------------------------------------
(* The daily digest *)

DigestRun ==
    [at : {"idle", "users", "done", "failed"}, users : SUBSET Users, pending : SUBSET Users,
     flushed : SUBSET Users, session : {"open", "aborted", "invalid"}, reported : SUBSET Users]
DigestTypeOK ==
    /\ account \subseteq Users /\ active \subseteq Users
    /\ run \in [Runs -> DigestRun]
    /\ told \subseteq [user : Users, run : Runs]

\* What a run has reported is what it has put into its session, flushed or not; and the
\* account of a flushed row is locked for as long as the transaction lasts.
ReportedIsStaged ==
    \A r \in Runs :
        /\ run[r].reported = run[r].flushed \cup run[r].pending
        /\ run[r].at = "users" /\ run[r].session = "open" => run[r].flushed \subseteq account

\* Nothing is committed before the end, and then all of it or, after an abort, nothing.
Says(u, r) == [user |-> u, run |-> r] \in told
OneCommit ==
    \A r \in Runs :
        \/ \A u \in Users : Says(u, r) <=> u \in run[r].reported \cap account
        \/ /\ \A u \in Users : ~Says(u, r)
           /\ run[r].at = "done" => run[r].session = "aborted"
NothingEarly == \A r \in Runs, u \in Users : run[r].at # "done" => ~Says(u, r)

DigestInv == DigestTypeOK /\ ReportedIsStaged /\ OneCommit /\ NothingEarly

\* Whom a run tells, user by user.
LEMMA TellsOfIsSays ==
  ASSUME DigestTypeOK, NEW r \in Runs
  PROVE  /\ Daily!TellsOf(r) \subseteq Users
         /\ \A u \in Users : u \in Daily!TellsOf(r) <=> Says(u, r)
<1>1. \A n \in told : n.user \in Users /\ n.run \in Runs /\ n = [user |-> n.user, run |-> n.run]
  BY DEF DigestTypeOK
<1> QED BY <1>1 DEF Daily!TellsOf, Says

LEMMA DigestStarts == Daily!DigestInit => DigestInv
<1> SUFFICES ASSUME Daily!DigestInit PROVE DigestInv
  OBVIOUS
<1> USE DEF Daily!DigestInit, Daily!Resting
<1>1. DigestTypeOK
  BY DEF DigestTypeOK, DigestRun
<1>2. ReportedIsStaged /\ OneCommit /\ NothingEarly
  BY DEF ReportedIsStaged, OneCommit, NothingEarly, Says
<1> QED BY <1>1, <1>2 DEF DigestInv

\* The steps inside a run, which commit nothing.
LEMMA RunKeepsInv ==
  ASSUME DigestInv, NEW r \in Runs,
         \/ Daily!BeginRun(r) \/ Daily!DieDigesting(r)
         \/ \E u \in Users : Daily!Generate(r, u) \/ Daily!GenerateFails(r, u)
  PROVE  DigestInv'
<1> USE DEF DigestInv
<1>1. CASE Daily!BeginRun(r)
  <2> USE <1>1 DEF Daily!BeginRun, Daily!Resting
  <2>1. DigestTypeOK'
    BY DEF DigestTypeOK, DigestRun
  <2>2. ReportedIsStaged'
    BY DEF DigestTypeOK, ReportedIsStaged
  <2>3. OneCommit' /\ NothingEarly'
    BY DEF DigestTypeOK, OneCommit, NothingEarly, Says
  <2> QED BY <2>1, <2>2, <2>3
<1>2. CASE Daily!DieDigesting(r)
  <2> USE <1>2 DEF Daily!DieDigesting
  <2>1. DigestTypeOK'
    BY DEF DigestTypeOK, DigestRun
  <2>2. ReportedIsStaged'
    BY DEF DigestTypeOK, ReportedIsStaged
  <2>3. OneCommit' /\ NothingEarly'
    BY DEF DigestTypeOK, OneCommit, NothingEarly, Says
  <2> QED BY <2>1, <2>2, <2>3
<1>3. ASSUME NEW u \in Users, Daily!Generate(r, u) PROVE DigestInv'
  <2> DEFINE old == run[r]
             new == [old EXCEPT !.users = old.users \ {u}, !.flushed = old.flushed \cup old.pending,
                                !.pending = Daily!New(u),
                                !.reported = old.reported \cup Daily!New(u)]
  <2> USE <1>3 DEF Daily!Generate
  <2>1. old \in DigestRun /\ Daily!New(u) \subseteq Users
    BY DEF DigestTypeOK, Daily!New
  <2>2. new \in DigestRun /\ run' = [run EXCEPT ![r] = new]
    <3>1. run' = [run EXCEPT ![r] = new]
      OBVIOUS
    <3> QED BY <2>1, <3>1 DEF DigestRun
  <2>3. /\ new.at = "users" /\ new.session = "open" /\ new.flushed \subseteq account
        /\ new.reported = new.flushed \cup new.pending
    <3>1. old.reported = old.flushed \cup old.pending /\ old.flushed \subseteq account
      BY DEF Daily!Works, ReportedIsStaged
    <3> QED BY <2>1, <3>1 DEF DigestRun, Daily!Works, Daily!Flushable
  <2> HIDE DEF new, old
  <2>4. DigestTypeOK' /\ ReportedIsStaged'
    BY <2>2, <2>3 DEF DigestTypeOK, ReportedIsStaged, Daily!Generate
  <2>5. OneCommit' /\ NothingEarly'
    BY <2>2, <2>3 DEF DigestTypeOK, OneCommit, NothingEarly, Says, old
  <2> QED BY <2>4, <2>5
<1>4. ASSUME NEW u \in Users, Daily!GenerateFails(r, u) PROVE DigestInv'
  <2> DEFINE old == run[r]
             aborted == [old EXCEPT !.users = old.users \ {u}, !.session = "aborted",
                                    !.flushed = old.flushed \cup old.pending, !.pending = {}]
             invalid == [old EXCEPT !.users = old.users \ {u},
                                    !.session = IF old.session = "open" THEN "invalid"
                                                ELSE old.session]
  <2> USE <1>4 DEF Daily!GenerateFails
  <2>1. old \in DigestRun /\ old.at = "users"
    BY DEF DigestTypeOK
  <2>2. PICK new \in {aborted, invalid} : run' = [run EXCEPT ![r] = new]
    <3>1. CASE Daily!Works(r)
      <4>1. run' = [run EXCEPT ![r] = aborted]
        BY <3>1
      <4> QED BY <4>1
    <3>2. CASE ~Daily!Works(r)
      <4>1. run' = [run EXCEPT ![r] = invalid]
        BY <3>2
      <4> QED BY <4>1
    <3> QED BY <3>1, <3>2
  <2>3. new \in DigestRun
    <3>1. aborted \in DigestRun /\ invalid \in DigestRun
      BY <2>1 DEF DigestRun
    <3> HIDE DEF aborted, invalid
    <3> QED BY <2>2, <3>1
  <2>4. /\ new.at = "users" /\ new.session # "open"
        /\ new.reported = new.flushed \cup new.pending
    <3>1. old.reported = old.flushed \cup old.pending
      BY DEF ReportedIsStaged
    <3> QED BY <2>1, <2>2, <3>1 DEF DigestRun
  <2>5. UNCHANGED <<account, active, told>>
    OBVIOUS
  <2> HIDE DEF aborted, invalid, old, Daily!GenerateFails
  <2>6. DigestTypeOK' /\ ReportedIsStaged'
    <3>1. DigestTypeOK'
      BY <2>5, <2>2, <2>3 DEF DigestTypeOK
    <3>2. ReportedIsStaged'
      BY <2>5, <2>2, <2>4 DEF DigestTypeOK, ReportedIsStaged
    <3> QED BY <3>1, <3>2
  <2>7. OneCommit' /\ NothingEarly'
    BY <2>1, <2>5, <2>2, <2>4 DEF DigestTypeOK, OneCommit, NothingEarly, Says, old
  <2> QED BY <2>6, <2>7
<1> QED BY <1>1, <1>2, <1>3, <1>4

\* The commit: a session that works tells everybody it has reported, all of whom still
\* have an account.
LEMMA CommitKeepsInv ==
  ASSUME DigestInv, NEW r \in Runs, Daily!CommitDigests(r)
  PROVE  DigestInv'
<1> USE DEF DigestInv, Daily!CommitDigests
<1>1. DigestTypeOK'
  BY DEF DigestTypeOK, DigestRun
<1>2. ReportedIsStaged'
  BY DEF DigestTypeOK, ReportedIsStaged
<1>3. NothingEarly'
  BY DEF DigestTypeOK, NothingEarly, Says
<1>4. ASSUME NEW q \in Runs
      PROVE  \/ \A u \in Users : Says(u, q)' <=> u \in run'[q].reported \cap account'
             \/ /\ \A u \in Users : ~Says(u, q)'
                /\ run'[q].at = "done" => run'[q].session = "aborted"
  <2>1. CASE q # r
    BY <2>1 DEF DigestTypeOK, OneCommit, Says
  <2>2. CASE q = r /\ Daily!Works(r)
    <3>1. run[r].reported = run[r].reported \cap account
      BY <2>2 DEF DigestTypeOK, ReportedIsStaged, Daily!Works, Daily!Flushable
    <3>2. \A u \in Users : Says(u, r)' <=> u \in run[r].reported
      BY <2>2 DEF DigestTypeOK, ReportedIsStaged, NothingEarly, Says
    <3> QED BY <2>2, <3>1, <3>2 DEF DigestTypeOK
  <2>3. CASE q = r /\ ~Daily!Works(r)
    <3>1. \A u \in Users : ~Says(u, r)'
      BY <2>3 DEF NothingEarly, Says
    <3> QED BY <2>3, <3>1 DEF DigestTypeOK
  <2> QED BY <2>1, <2>2, <2>3
<1> QED BY <1>1, <1>2, <1>3, <1>4 DEF OneCommit

\* An account takes its notifications with it.
LEMMA DeleteAccountKeepsInv ==
  ASSUME DigestInv, NEW u \in Users, Daily!DeleteAccount(u)
  PROVE  DigestInv'
<1> USE DEF DigestInv, Daily!DeleteAccount
<1>1. DigestTypeOK'
  BY DEF DigestTypeOK
<1>2. ReportedIsStaged'
  BY DEF DigestTypeOK, ReportedIsStaged
<1>3. \A q \in Runs, v \in Users : Says(v, q)' <=> (Says(v, q) /\ v # u)
  BY DEF Says
<1>4. OneCommit' /\ NothingEarly'
  BY <1>3 DEF OneCommit, NothingEarly
<1> QED BY <1>1, <1>2, <1>4

LEMMA DigestInvIsEnough == DigestInv => AllOrNobody
<1> SUFFICES ASSUME DigestInv, NEW r \in Runs
             PROVE  LET tells == Daily!TellsOf(r)
                        due == run[r].reported \cap account
                    IN  /\ tells = {} \/ tells = due
                        /\ run[r].at = "done" /\ tells # due => run[r].session = "aborted"
  BY DEF AllOrNobody, Daily!AllOrNobody
<1>1. run[r].reported \subseteq Users
  BY DEF DigestInv, DigestTypeOK, DigestRun
<1>2. /\ Daily!TellsOf(r) \subseteq Users
      /\ \A u \in Users : u \in Daily!TellsOf(r) <=> Says(u, r)
  BY TellsOfIsSays DEF DigestInv
<1> QED BY <1>1, <1>2 DEF DigestInv, OneCommit

\* A run of the digest tells every user it has reported a digest for, or nobody; and one
\* that is done without having told them had a query fail (generate_daily_digest: one
\* commit for all users behind an exception handler for each).
THEOREM DigestsGoToAllOrNobody == Daily!DigestSpec => []AllOrNobody
<1>1. ASSUME DigestInv, [Daily!DigestNext]_Daily!digestVars PROVE DigestInv'
  <2>1. CASE Daily!DigestNext
    BY <1>1, <2>1, RunKeepsInv, CommitKeepsInv, DeleteAccountKeepsInv DEF Daily!DigestNext
  <2>2. CASE UNCHANGED Daily!digestVars
    BY <1>1, <2>2 DEF Daily!digestVars, DigestInv, DigestTypeOK, ReportedIsStaged, OneCommit,
                      NothingEarly, Says
  <2> QED BY <1>1, <2>1, <2>2
<1> QED BY <1>1, DigestStarts, DigestInvIsEnough, PTL DEF Daily!DigestSpec

-----------------------------------------------------------------------------------
(* Deduplication *)

LookedAt == 1..(next - 1)

\* Positions are counted up one by one, and each that was looked at is kept or dropped.
BatchTypeOK ==
    /\ batch \in Seq([from : Sources, content : Contents, url : Urls \cup {NoUrl}, text : Texts])
    /\ next \in 1..(Len(batch) + 1)
    /\ kept \in Seq(LookedAt)
EachOnce == Batch!ToSet(kept) \cup dropped = LookedAt /\ Batch!ToSet(kept) \cap dropped = {}

\* What is seen was seen on a posting that was looked at ...
SeenWasLookedAt ==
    /\ \A k \in seen.keys : \E i \in LookedAt : Batch!KeyOf(i) = k
    /\ \A c \in seen.contents : \E i \in LookedAt : batch[i].content = c
    /\ \A u \in seen.urls : \E i \in LookedAt : batch[i].url = u
\* ... and of a kept one everything is seen.
KeptIsSeen ==
    \A i \in Batch!ToSet(kept) :
        /\ Batch!KeyOf(i) # Batch!NoKey => Batch!KeyOf(i) \in seen.keys
        /\ batch[i].content \in seen.contents
        /\ batch[i].url # NoUrl => batch[i].url \in seen.urls
KeptDiffer == \A i, j \in Batch!ToSet(kept) : i # j => ~Batch!Matches(i, j)
DroppedAreLinked == \A S \in SUBSET LookedAt : Batch!HasLinked(S) => dropped \subseteq S

DedupInv ==
    BatchTypeOK /\ EachOnce /\ SeenWasLookedAt /\ KeptIsSeen /\ KeptDiffer /\ DroppedAreLinked

\* The first layer compares what makes a posting the same on its board.
LEMMA KeysAgree ==
  ASSUME NEW i, NEW j
  PROVE  Batch!SamePosting(i, j)
           <=> Batch!KeyOf(i) # Batch!NoKey /\ Batch!KeyOf(i) = Batch!KeyOf(j)
<1>1. \A a, b, c : <<a, b, c>> # <<>>
  OBVIOUS
<1> QED BY <1>1 DEF Batch!SamePosting, Batch!KeyOf, Batch!Key, Batch!NoKey

LEMMA NearIsMutual ==
  ASSUME BatchTypeOK, NEW i \in DOMAIN batch, NEW j \in DOMAIN batch
  PROVE  Batch!Near(i, j) <=> Batch!Near(j, i)
<1> DEFINE Posting == [from : Sources, content : Contents, url : Urls \cup {NoUrl}, text : Texts]
<1>1. batch[i] \in Posting /\ batch[j] \in Posting
  <2>1. batch \in Seq(Posting) /\ i \in 1..Len(batch) /\ j \in 1..Len(batch)
    BY LenProperties DEF BatchTypeOK
  <2> HIDE DEF Posting
  <2> QED BY <2>1, ElementOfSeq
<1> QED BY <1>1, PostingsAssumption DEF Batch!Near, Batch!DistanceAssumption

\* Matching has no direction.
LEMMA MatchesIsMutual ==
  ASSUME BatchTypeOK, NEW i \in DOMAIN batch, NEW j \in DOMAIN batch
  PROVE  Batch!Matches(i, j) => Batch!Matches(j, i)
<1>1. Batch!Near(i, j) <=> Batch!Near(j, i)
  BY NearIsMutual
<1>2. Batch!SamePosting(i, j) => Batch!SamePosting(j, i)
  BY DEF Batch!SamePosting
<1> QED BY <1>1, <1>2 DEF Batch!Matches

\* A posting that nothing was seen of matches no kept one.
LEMMA KeptOnesDiffer ==
  ASSUME DedupInv, next \in DOMAIN batch, Batch!Past, ~Batch!NearKept, NEW i \in Batch!ToSet(kept)
  PROVE  ~Batch!Matches(next, i)
<1>1. ~Batch!SamePosting(next, i)
  BY KeysAgree DEF DedupInv, KeptIsSeen, Batch!Past, Batch!SameKey
<1>2. batch[next].content # batch[i].content
  BY DEF DedupInv, KeptIsSeen, Batch!Past, Batch!SameContent, Batch!Job
<1>3. ~(batch[next].url # NoUrl /\ batch[next].url = batch[i].url)
  BY DEF DedupInv, KeptIsSeen, Batch!Past, Batch!SameUrl, Batch!Job
<1>4. ~Batch!Near(next, i)
  BY DEF Batch!NearKept, Batch!ToSet
<1> QED BY <1>1, <1>2, <1>3, <1>4 DEF Batch!Matches

\* A posting that is dropped matches one that was looked at before.
LEMMA DroppedMatches ==
  ASSUME DedupInv, NEW layer \in 1..4, Batch!Drop(layer)
  PROVE  \E i \in LookedAt : Batch!Matches(next, i)
<1>1. CASE Batch!SameKey
  <2>1. PICK i \in LookedAt : Batch!KeyOf(i) = Batch!KeyOf(next)
    BY <1>1 DEF Batch!SameKey, DedupInv, SeenWasLookedAt
  <2>2. Batch!SamePosting(next, i)
    BY <1>1, <2>1, KeysAgree DEF Batch!SameKey
  <2> QED BY <2>2 DEF Batch!Matches
<1>2. CASE Batch!SameContent
  BY <1>2 DEF Batch!SameContent, Batch!Job, DedupInv, SeenWasLookedAt, Batch!Matches
<1>3. CASE Batch!SameUrl
  BY <1>3 DEF Batch!SameUrl, Batch!Job, DedupInv, SeenWasLookedAt, Batch!Matches
<1>4. CASE Batch!NearKept
  BY <1>4 DEF Batch!NearKept, DedupInv, EachOnce, Batch!ToSet, Batch!Matches
<1> QED BY <1>1, <1>2, <1>3, <1>4 DEF Batch!Drop

LEMMA DedupStarts == Batch!DedupInit => DedupInv
<1> SUFFICES ASSUME Batch!DedupInit PROVE DedupInv
  OBVIOUS
<1> USE DEF Batch!DedupInit
<1>1. BatchTypeOK
  <2>1. PICK n \in 0..MaxBatch :
          batch \in [1..n -> [from : Sources, content : Contents, url : Urls \cup {NoUrl},
                              text : Texts]]
    OBVIOUS
  <2>2. n \in Nat
    OBVIOUS
  <2>3. batch \in Seq([from : Sources, content : Contents, url : Urls \cup {NoUrl}, text : Texts])
    <3> DEFINE Posting == [from : Sources, content : Contents, url : Urls \cup {NoUrl}, text : Texts]
    <3>1. batch = [i \in 1..n |-> batch[i]] /\ \A i \in 1..n : batch[i] \in Posting
      BY <2>1
    <3> HIDE DEF Posting
    <3>2. [i \in 1..n |-> batch[i]] \in Seq(Posting)
      BY <2>2, <3>1, IsASeq
    <3> QED BY <3>1, <3>2 DEF Posting
  <2>4. Len(batch) \in Nat
    BY <2>3, LenProperties
  <2> QED BY <2>3, <2>4, EmptySeq DEF BatchTypeOK
<1>2. LookedAt = {} /\ Batch!ToSet(kept) = {}
  BY DEF LookedAt, Batch!ToSet
<1> QED BY <1>1, <1>2 DEF DedupInv, EachOnce, SeenWasLookedAt, KeptIsSeen, KeptDiffer,
                          DroppedAreLinked

\* What both kinds of steps do: the position goes on, and what they note down is true of it.
LEMMA StepSees ==
  ASSUME DedupInv, next \in DOMAIN batch, next' = next + 1, batch' = batch,
         NEW layer \in 1..4, seen' = Batch!See(layer)
  PROVE  /\ LookedAt' = LookedAt \cup {next} /\ next \notin LookedAt
         /\ next' \in 1..(Len(batch') + 1) /\ SeenWasLookedAt'
         /\ seen.keys \subseteq seen'.keys /\ seen.contents \subseteq seen'.contents
         /\ seen.urls \subseteq seen'.urls
<1>1. next \in 1..Len(batch) /\ Len(batch) \in Nat
  BY LenProperties DEF DedupInv, BatchTypeOK
<1>2. LookedAt' = LookedAt \cup {next} /\ next \notin LookedAt /\ next' \in 1..(Len(batch') + 1)
  BY <1>1 DEF LookedAt
<1>3. SeenWasLookedAt'
  <2>1. \A i : Batch!KeyOf(i)' = Batch!KeyOf(i)
    BY DEF Batch!KeyOf
  <2>2. /\ seen'.keys \subseteq seen.keys \cup {Batch!KeyOf(next)}
        /\ seen'.contents \subseteq seen.contents \cup {batch[next].content}
        /\ seen'.urls \subseteq seen.urls \cup {batch[next].url}
    BY DEF Batch!See, Batch!Job
  <2> QED BY <1>2, <2>1, <2>2 DEF DedupInv, SeenWasLookedAt
<1> QED BY <1>2, <1>3 DEF Batch!See

LEMMA DropKeepsInv ==
  ASSUME DedupInv, NEW layer \in 1..4, Batch!Drop(layer)
  PROVE  DedupInv'
<1> USE DEF Batch!Drop
<1>1. /\ LookedAt' = LookedAt \cup {next} /\ next \notin LookedAt
      /\ next' \in 1..(Len(batch') + 1) /\ SeenWasLookedAt'
      /\ seen.keys \subseteq seen'.keys /\ seen.contents \subseteq seen'.contents
      /\ seen.urls \subseteq seen'.urls
  BY StepSees
<1>2. BatchTypeOK'
  <2>1. kept \in Seq(LookedAt \cup {next})
    BY SeqMonotonic DEF DedupInv, BatchTypeOK
  <2> QED BY <1>1, <2>1 DEF DedupInv, BatchTypeOK
<1>3. EachOnce'
  BY <1>1 DEF DedupInv, EachOnce
<1>4. KeptIsSeen'
  BY <1>1 DEF DedupInv, KeptIsSeen, Batch!KeyOf
<1>5. \A i, j : Batch!Matches(i, j)' <=> Batch!Matches(i, j)
  BY DEF Batch!Matches, Batch!SamePosting, Batch!Near
<1>6. KeptDiffer'
  BY <1>5 DEF DedupInv, KeptDiffer
<1>7. DroppedAreLinked'
  <2> SUFFICES ASSUME NEW S \in SUBSET LookedAt', Batch!HasLinked(S)'
               PROVE  dropped \cup {next} \subseteq S
    BY DEF DroppedAreLinked
  <2>1. LookedAt = 1..(next - 1) /\ LookedAt' = 1..(next' - 1)
    BY DEF LookedAt
  <2>2. Batch!HasLinked(S \cap LookedAt)
    <3>1. Batch!ToSet(kept) \subseteq S \cap LookedAt
      BY DEF Batch!HasLinked, DedupInv, EachOnce
    <3>2. ASSUME NEW i \in LookedAt, NEW j \in S \cap LookedAt, Batch!Matches(i, j)
          PROVE  i \in S
      BY <1>1, <1>5, <2>1, <3>2 DEF Batch!HasLinked
    <3> QED BY <2>1, <3>1, <3>2 DEF Batch!HasLinked
  <2>3. LookedAt \subseteq S
    BY <2>2 DEF DedupInv, DroppedAreLinked, EachOnce, Batch!HasLinked
  <2>4. PICK i \in LookedAt : Batch!Matches(next, i)
    BY DroppedMatches
  <2>5. next \in S
    BY <1>1, <1>5, <2>1, <2>3, <2>4 DEF Batch!HasLinked
  <2> QED BY <2>3, <2>5 DEF DedupInv, EachOnce
<1> QED BY <1>1, <1>2, <1>3, <1>4, <1>6, <1>7 DEF DedupInv

LEMMA KeepKeepsInv ==
  ASSUME DedupInv, Batch!Keep
  PROVE  DedupInv'
<1> USE DEF Batch!Keep
<1>1. /\ LookedAt' = LookedAt \cup {next} /\ next \notin LookedAt
      /\ next' \in 1..(Len(batch') + 1) /\ SeenWasLookedAt'
      /\ seen.keys \subseteq seen'.keys /\ seen.contents \subseteq seen'.contents
      /\ seen.urls \subseteq seen'.urls
  BY StepSees
<1>2. /\ BatchTypeOK' /\ Batch!ToSet(kept') = Batch!ToSet(kept) \cup {next}
  <2>1. kept \in Seq(LookedAt \cup {next})
    BY SeqMonotonic DEF DedupInv, BatchTypeOK
  <2>2. /\ kept' \in Seq(LookedAt \cup {next}) /\ Len(kept') = Len(kept) + 1
        /\ \A i \in 1..Len(kept) : kept'[i] = kept[i]
        /\ kept'[Len(kept) + 1] = next
    BY <2>1, AppendProperties
  <2>3. DOMAIN kept = 1..Len(kept) /\ DOMAIN kept' = 1..(Len(kept) + 1) /\ Len(kept) \in Nat
    BY <2>1, <2>2, LenProperties
  <2> QED BY <1>1, <2>2, <2>3 DEF DedupInv, BatchTypeOK, Batch!ToSet
<1>3. EachOnce'
  BY <1>1, <1>2 DEF DedupInv, EachOnce
<1>4. KeptIsSeen'
  <2>1. /\ Batch!KeyOf(next) # Batch!NoKey => Batch!KeyOf(next) \in seen'.keys
        /\ batch[next].content \in seen'.contents
        /\ batch[next].url # NoUrl => batch[next].url \in seen'.urls
    BY DEF Batch!See, Batch!Job
  <2> QED BY <1>1, <1>2, <2>1 DEF DedupInv, KeptIsSeen, Batch!KeyOf
<1>5. \A i, j : Batch!Matches(i, j)' <=> Batch!Matches(i, j)
  BY DEF Batch!Matches, Batch!SamePosting, Batch!Near
<1>6. KeptDiffer'
  <2>1. \A i \in Batch!ToSet(kept) : ~Batch!Matches(next, i) /\ ~Batch!Matches(i, next)
    <3> TAKE i \in Batch!ToSet(kept)
    <3>1. ~Batch!Matches(next, i)
      BY KeptOnesDiffer
    <3>2. i \in DOMAIN batch
      BY <1>1, LenProperties DEF DedupInv, BatchTypeOK, EachOnce, LookedAt
    <3> QED BY <3>1, <3>2, MatchesIsMutual DEF DedupInv
  <2> QED BY <1>2, <1>5, <2>1 DEF DedupInv, KeptDiffer
<1>7. DroppedAreLinked'
  <2> SUFFICES ASSUME NEW S \in SUBSET LookedAt', Batch!HasLinked(S)'
               PROVE  dropped \subseteq S
    BY DEF DroppedAreLinked
  <2>1. LookedAt = 1..(next - 1) /\ LookedAt' = 1..(next' - 1)
    BY DEF LookedAt
  <2>2. Batch!HasLinked(S \cap LookedAt)
    <3>1. Batch!ToSet(kept) \subseteq S \cap LookedAt
      BY <1>2 DEF Batch!HasLinked, DedupInv, EachOnce
    <3>2. ASSUME NEW i \in LookedAt, NEW j \in S \cap LookedAt, Batch!Matches(i, j)
          PROVE  i \in S
      BY <1>1, <1>5, <2>1, <3>2 DEF Batch!HasLinked
    <3> QED BY <2>1, <3>1, <3>2 DEF Batch!HasLinked
  <2> QED BY <2>2 DEF DedupInv, DroppedAreLinked
<1> QED BY <1>1, <1>2, <1>3, <1>4, <1>6, <1>7 DEF DedupInv

\* No two postings a scrape keeps match in any layer, every dropped one is linked to a kept
\* one by matches, and none is both (deduplicate_batch).
THEOREM KeptStandForTheirLikes == Batch!DedupSpec => []Batch!KeptStandForAll
<1>1. ASSUME DedupInv, [Batch!DedupNext]_Batch!dedupVars PROVE DedupInv'
  <2>1. CASE Batch!DedupNext
    BY <1>1, <2>1, DropKeepsInv, KeepKeepsInv DEF Batch!DedupNext
  <2>2. CASE UNCHANGED Batch!dedupVars
    BY <1>1, <2>2 DEF Batch!dedupVars, DedupInv, BatchTypeOK, EachOnce, SeenWasLookedAt,
         KeptIsSeen, KeptDiffer, DroppedAreLinked, LookedAt, Batch!Matches, Batch!SamePosting,
         Batch!Near, Batch!KeyOf, Batch!HasLinked
  <2> QED BY <1>1, <2>1, <2>2
<1>2. DedupInv => Batch!KeptStandForAll
  BY DEF DedupInv, KeptDiffer, DroppedAreLinked, EachOnce, LookedAt, Batch!KeptStandForAll
<1> QED BY <1>1, <1>2, DedupStarts, PTL DEF Batch!DedupSpec

-----------------------------------------------------------------------------------
(* Asking about duplicates *)

\* An instance of a module has the library's operators under a name of its own.
LEMMA CardinalityOfReview == \A S : Review!Cardinality(S) = Cardinality(S)
BY Zenon DEF Review!Cardinality, Cardinality

LEMMA IntervalIsFinite ==
  ASSUME NEW k \in Nat
  PROVE  IsFiniteSet(1..k) /\ Cardinality(1..k) = k
BY FS_Interval

LEMMA IntervalsDiffer ==
  ASSUME NEW k \in Nat, NEW l \in Nat, 1..k = 1..l
  PROVE  k = l
<1>1. Cardinality(1..k) = k /\ Cardinality(1..l) = l
  BY IntervalIsFinite
<1> QED BY <1>1

\* Counting what comes before an element numbers a finite set in a strict order of it, so
\* that Ordered lists it.
LEMMA OrderedLists ==
  ASSUME NEW S, IsFiniteSet(S), NEW R,
         \A e \in S : <<e, e>> \notin R,
         \A e, f \in S : e # f => <<e, f>> \in R \/ <<f, e>> \in R,
         \A e, f, g \in S : <<e, f>> \in R /\ <<f, g>> \in R => <<e, g>> \in R
  PROVE  LET s == Review!Ordered(S, R)
             n == Cardinality(S)
         IN  /\ n \in Nat /\ s \in Seq(S) /\ Len(s) = n
             /\ \A i, j \in 1..n : i < j => <<s[i], s[j]>> \in R
             /\ \A e \in S : \E i \in 1..n : s[i] = e
<1> DEFINE n == Cardinality(S)
           below(e) == {f \in S : <<f, e>> \in R}
           rank == [e \in S |-> Cardinality(below(e)) + 1]
           s == Review!Ordered(S, R)
<1>0. s = [i \in 1..n |-> CHOOSE e \in S : Review!Cardinality(below(e)) = i - 1]
  <2>1. Review!Cardinality(S) = n
    BY CardinalityOfReview
  <2> QED BY <2>1, Zenon DEF Review!Ordered
<1>1. n \in Nat
  BY FS_CardinalityType
<1>2. ASSUME NEW e \in S
      PROVE  /\ IsFiniteSet(below(e)) /\ Cardinality(below(e)) \in Nat
             /\ rank[e] \in 1..n
  <2>1. IsFiniteSet(S \ {e}) /\ Cardinality(S \ {e}) = n - 1
    BY FS_RemoveElement
  <2>2. below(e) \in SUBSET (S \ {e})
    OBVIOUS
  <2>3. IsFiniteSet(below(e)) /\ Cardinality(below(e)) <= n - 1
    <3> HIDE DEF below
    <3> QED BY <2>1, <2>2, FS_Subset
  <2>4. Cardinality(below(e)) \in Nat
    BY <2>3, FS_CardinalityType
  <2> QED BY <1>1, <2>3, <2>4
<1>3. ASSUME NEW e \in S, NEW f \in S, <<e, f>> \in R
      PROVE  rank[e] < rank[f]
  <2>1. below(e) \in SUBSET below(f) /\ below(e) # below(f)
    BY <1>3
  <2>2. Cardinality(below(e)) <= Cardinality(below(f))
    BY <1>2, <2>1, FS_Subset
  <2>3. Cardinality(below(e)) # Cardinality(below(f))
    BY <1>2, <2>1, FS_Subset
  <2> HIDE DEF below
  <2> QED BY <1>2, <2>2, <2>3
<1> HIDE DEF rank
<1>4. rank \in Injection(S, 1..n)
  <2>1. rank \in [S -> 1..n]
    BY <1>2 DEF rank
  <2>2. \A e, f \in S : rank[e] = rank[f] => e = f
    <3> SUFFICES ASSUME NEW e \in S, NEW f \in S, e # f PROVE rank[e] # rank[f]
      OBVIOUS
    <3>1. rank[e] \in Int /\ rank[f] \in Int
      BY <2>1
    <3>2. rank[e] < rank[f] \/ rank[f] < rank[e]
      BY <1>3
    <3> QED BY <3>1, <3>2
  <2> QED BY <2>1, <2>2 DEF Injection, IsInjective
<1>5. rank \in Surjection(S, 1..n)
  <2>1. IsFiniteSet(1..n) /\ Cardinality(1..n) = n
    BY <1>1, FS_Interval
  <2> QED BY <1>4, <2>1, FS_Injection
<1>6. ASSUME NEW i \in 1..n
      PROVE  s[i] \in S /\ rank[s[i]] = i
  <2>1. PICK e \in S : rank[e] = i
    BY <1>5 DEF Surjection
  <2>2. \E g \in S : Review!Cardinality(below(g)) = i - 1
    <3>1. Cardinality(below(e)) \in Nat /\ rank[e] = Cardinality(below(e)) + 1
      BY <1>2 DEF rank
    <3> HIDE DEF below
    <3> QED BY <2>1, <3>1, CardinalityOfReview
  <2>3. s[i] = CHOOSE g \in S : Review!Cardinality(below(g)) = i - 1
    BY <1>0
  <2>4. s[i] \in S /\ Cardinality(below(s[i])) = i - 1
    <3> HIDE DEF below, s
    <3> QED BY <2>2, <2>3, CardinalityOfReview
  <2> QED BY <2>4 DEF rank
<1>7. s \in [1..n -> S]
  <2>1. s = [i \in 1..n |-> s[i]]
    BY <1>0
  <2> HIDE DEF s
  <2> QED BY <1>6, <2>1
<1> HIDE DEF s, n
<1>10. s \in Seq(S) /\ Len(s) = n
  <2>1. [i \in 1..n |-> s[i]] \in Seq(S)
    BY <1>1, <1>6, IsASeq
  <2>2. s \in Seq(S)
    BY <1>7, <2>1
  <2>3. DOMAIN s = 1..Len(s) /\ Len(s) \in Nat
    BY <2>2, LenProperties
  <2>4. DOMAIN s = 1..n
    BY <1>7
  <2>5. Len(s) = n
    BY <1>1, <2>3, <2>4, IntervalsDiffer
  <2> QED BY <2>2, <2>5
<1>8. ASSUME NEW i \in 1..n, NEW j \in 1..n, i < j
      PROVE  <<s[i], s[j]>> \in R
  <2>1. s[i] \in S /\ s[j] \in S /\ rank[s[i]] = i /\ rank[s[j]] = j
    BY <1>6
  <2>2. s[i] # s[j] /\ ~(rank[s[j]] < rank[s[i]])
    BY <1>1, <1>8, <2>1
  <2> QED BY <1>3, <2>1, <2>2
<1>9. ASSUME NEW e \in S PROVE \E i \in 1..n : s[i] = e
  <2>1. rank[e] \in 1..n
    BY <1>4 DEF Injection
  <2>2. rank[s[rank[e]]] = rank[e] /\ s[rank[e]] \in S
    BY <1>6, <2>1
  <2> QED BY <1>4, <2>1, <2>2 DEF Injection, IsInjective
<1> QED BY <1>1, <1>7, <1>8, <1>9, <1>10 DEF s, n

LEMMA UpToIsAPrefix ==
  ASSUME NEW S, NEW s \in Seq(S), NEW k \in Nat
  PROVE  /\ Len(s) <= k => Review!UpTo(s, k) = s
         /\ k <= Len(s) => /\ Review!UpTo(s, k) \in Seq(S) /\ Len(Review!UpTo(s, k)) = k
                           /\ \A i \in 1..k : Review!UpTo(s, k)[i] = s[i]
<1>1. Len(s) \in Nat
  BY LenProperties
<1>2. ASSUME Len(s) <= k PROVE Review!UpTo(s, k) = s
  <2>1. Review!UpTo(s, k) = SubSeq(s, 1, Len(s))
    BY <1>1, <1>2 DEF Review!UpTo
  <2> QED BY <2>1, SubSeqFull
<1>3. ASSUME k <= Len(s)
      PROVE  /\ Review!UpTo(s, k) \in Seq(S) /\ Len(Review!UpTo(s, k)) = k
             /\ \A i \in 1..k : Review!UpTo(s, k)[i] = s[i]
  <2>1. Review!UpTo(s, k) = SubSeq(s, 1, k)
    BY <1>1, <1>3 DEF Review!UpTo
  <2>2. \A i \in 1..k : s[i] \in S
    BY <1>1, <1>3, ElementOfSeq
  <2>3. /\ SubSeq(s, 1, k) \in Seq(S) /\ Len(SubSeq(s, 1, k)) = k
        /\ \A i \in 1..k : SubSeq(s, 1, k)[i] = s[i]
    <3>1. k - 1 + 1 = k /\ \A i \in 1..k : 1 + i - 1 = i
      OBVIOUS
    <3> QED BY <2>2, <3>1, SubSeqProperties
  <2> QED BY <2>1, <2>3
<1> QED BY <1>2, <1>3

\* Every pair in doubt is one of two jobs that are stored.
ReviewTypeOK == stored \in Nat /\ 1..stored \subseteq Jobs

LEMMA DoubtsArePairs ==
  ASSUME ReviewTypeOK
  PROVE  /\ IsFiniteSet(Review!Doubts) /\ Review!Doubts \subseteq Nat \X Nat
         /\ \A p \in Review!Doubts : Review!Confidence(p) \in Int
<1>1. IsFiniteSet(1..stored)
  BY FS_Interval DEF ReviewTypeOK
<1>2. Review!Doubts \in SUBSET ((1..stored) \X (1..stored))
  BY DEF Review!Doubts, Review!Pairs, Review!Newest
<1>3. IsFiniteSet(Review!Doubts)
  <2>1. IsFiniteSet((1..stored) \X (1..stored))
    BY <1>1, FS_Product
  <2> QED BY <1>2, <2>1, FS_Subset
<1>4. \A p \in Review!Doubts : Review!Confidence(p) \in Int
  BY <1>2, PostingsAssumption DEF ReviewTypeOK, Review!ReviewAssumption, Review!Confidence
<1> QED BY <1>2, <1>3, <1>4

\* The candidates are different pairs in doubt: so many as the walk may gather, or all.
LEMMA CandidatesAreDoubts ==
  ASSUME ReviewTypeOK, NEW n \in Limits
  PROVE  LET c == Review!Candidates(n)
             all == Cardinality(Review!Doubts)
             m == IF all < n * Factor THEN all ELSE n * Factor
         IN  /\ all \in Nat /\ n \in Nat \ {0} /\ n * Factor \in Nat \ {0}
             /\ c \in Seq(Review!Doubts) /\ Len(c) = m
             /\ \A i, j \in 1..m : i # j => c[i] # c[j]
             /\ all < n * Factor => \A p \in Review!Doubts : \E i \in 1..m : c[i] = p
<1> DEFINE D == Review!Doubts
           R == Review!Walked(D)
           s == Review!Ordered(D, R)
           all == Cardinality(D)
           m == IF all < n * Factor THEN all ELSE n * Factor
<1>1. IsFiniteSet(D) /\ D \subseteq Nat \X Nat
  BY DoubtsArePairs
<1>2. \A p, q \in D : <<p, q>> \in R <=> p[2] > q[2] \/ (p[2] = q[2] /\ p[1] > q[1])
  BY DEF Review!Walked
<1> HIDE DEF D, R
<1>3. /\ \A p \in D : <<p, p>> \notin R
      /\ \A p, q \in D : p # q => <<p, q>> \in R \/ <<q, p>> \in R
      /\ \A p, q, o \in D : <<p, q>> \in R /\ <<q, o>> \in R => <<p, o>> \in R
  <2>1. \A p \in D : p[1] \in Nat /\ p[2] \in Nat /\ p = <<p[1], p[2]>>
    BY <1>1
  <2>2. \A p, q \in D : p # q => p[1] # q[1] \/ p[2] # q[2]
    BY <2>1
  <2>3. \A p \in D : <<p, p>> \notin R
    BY <1>2, <2>1
  <2>4. \A p, q \in D : p # q => <<p, q>> \in R \/ <<q, p>> \in R
    BY <1>2, <2>1, <2>2
  <2>5. \A p, q, o \in D : <<p, q>> \in R /\ <<q, o>> \in R => <<p, o>> \in R
    BY <1>2, <2>1
  <2> QED BY <2>3, <2>4, <2>5
<1>4. /\ all \in Nat /\ s \in Seq(D) /\ Len(s) = all
      /\ \A i, j \in 1..all : i < j => <<s[i], s[j]>> \in R
      /\ \A p \in D : \E i \in 1..all : s[i] = p
  <2>1. IsFiniteSet(D) /\ \A p \in D : <<p, p>> \notin R
    BY <1>1, <1>3
  <2>2. \A p, q \in D : p # q => <<p, q>> \in R \/ <<q, p>> \in R
    BY <1>3
  <2>3. \A p, q, o \in D : <<p, q>> \in R /\ <<q, o>> \in R => <<p, o>> \in R
    BY <1>3
  <2>4. LET t == Review!Ordered(D, R)
            n1 == Cardinality(D)
        IN  /\ n1 \in Nat /\ t \in Seq(D) /\ Len(t) = n1
            /\ \A i, j \in 1..n1 : i < j => <<t[i], t[j]>> \in R
            /\ \A p \in D : \E i \in 1..n1 : t[i] = p
    BY <2>1, <2>2, <2>3, OrderedLists
  <2> QED BY <2>4
<1> HIDE DEF s
<1>5. n \in Nat \ {0} /\ n * Factor \in Nat \ {0}
  <2>1. n \in Nat \ {0} /\ Factor \in Nat \ {0}
    BY PostingsAssumption DEF Review!ReviewAssumption
  <2> QED BY <2>1
<1>6. /\ Review!Candidates(n) \in Seq(D) /\ Len(Review!Candidates(n)) = m
      /\ \A i \in 1..m : Review!Candidates(n)[i] = s[i]
  <2>1. Review!Candidates(n) = Review!UpTo(s, n * Factor)
    BY DEF Review!Candidates, s, R, D
  <2> DEFINE k == n * Factor
  <2>2. all \in Nat /\ k \in Nat /\ s \in Seq(D) /\ Len(s) = all
    BY <1>4, <1>5
  <2> HIDE DEF all, k
  <2>3. /\ all <= k => Review!UpTo(s, k) = s
        /\ k <= all => /\ Review!UpTo(s, k) \in Seq(D) /\ Len(Review!UpTo(s, k)) = k
                       /\ \A i \in 1..k : Review!UpTo(s, k)[i] = s[i]
    BY <2>2, UpToIsAPrefix
  <2>4. m = IF all < k THEN all ELSE k
    BY DEF k
  <2>5. Review!Candidates(n) = Review!UpTo(s, k)
    BY <2>1 DEF k
  <2> HIDE DEF m
  <2>6. CASE all <= k
    BY <2>2, <2>3, <2>4, <2>5, <2>6
  <2>7. CASE k <= all
    BY <2>2, <2>3, <2>4, <2>5, <2>7
  <2> QED BY <2>2, <2>6, <2>7
<1>7. m \in Nat /\ m <= all /\ (all < n * Factor => m = all)
  BY <1>4, <1>5
<1> HIDE DEF m
<1>8. ASSUME NEW i \in 1..m, NEW j \in 1..m, i # j PROVE s[i] # s[j]
  <2>1. i \in 1..all /\ j \in 1..all /\ (i < j \/ j < i)
    BY <1>4, <1>7, <1>8
  <2>2. <<s[i], s[j]>> \in R \/ <<s[j], s[i]>> \in R
    BY <1>4, <2>1
  <2>3. s[i] \in D
    BY <1>4, <2>1
  <2> QED BY <1>3, <2>2, <2>3
<1> QED BY <1>4, <1>5, <1>6, <1>7, <1>8 DEF m, D

\* Scores, and positions among equal ones, order the positions.
LEMMA ScoresOrder ==
  ASSUME NEW m \in Nat, NEW score \in [1..m -> Int], NEW R,
         \A i, j \in 1..m :
            <<i, j>> \in R <=> score[i] < score[j] \/ (score[i] = score[j] /\ i < j)
  PROVE  /\ \A i \in 1..m : <<i, i>> \notin R
         /\ \A i, j \in 1..m : i # j => <<i, j>> \in R \/ <<j, i>> \in R
         /\ \A i, j, k \in 1..m : <<i, j>> \in R /\ <<j, k>> \in R => <<i, k>> \in R
<1>1. \A i \in 1..m : <<i, i>> \notin R
  OBVIOUS
<1>2. \A i, j \in 1..m : i # j => <<i, j>> \in R \/ <<j, i>> \in R
  OBVIOUS
<1>3. \A i, j, k \in 1..m : <<i, j>> \in R /\ <<j, k>> \in R => <<i, k>> \in R
  OBVIOUS
<1> QED BY <1>1, <1>2, <1>3

\* The order o in which the candidates c, from S, are shown.
ShowsLeastCertain(S, c, n, o) ==
    LET m == Len(c)
        a == Review!Shown(c, n)
        l == IF m < n THEN m ELSE n
    IN  /\ o \in [1..m -> 1..m] /\ \A i \in 1..m : \E j \in 1..m : o[j] = i
        /\ \A i, j \in 1..m : i < j =>
               o[i] # o[j] /\ Review!Confidence(c[o[i]]) <= Review!Confidence(c[o[j]])
        /\ a \in Seq(S) /\ Len(a) = l
        /\ \A i \in 1..l : a[i] = c[o[i]]

\* The least certain of the candidates are shown.
LEMMA ShownAreTheLeastCertain ==
  ASSUME NEW S, NEW c \in Seq(S), NEW n \in Nat,
         \A p \in S : Review!Confidence(p) \in Int
  PROVE  \E o : ShowsLeastCertain(S, c, n, o)
<1> DEFINE m == Len(c)
           R == Review!LeastCertain(c)
           o == Review!Ordered(1..m, R)
           w == [i \in 1..m |-> c[o[i]]]
           conf == [i \in 1..m |-> Review!Confidence(c[i])]
<1>0. m \in Nat /\ DOMAIN c = 1..m /\ \A i \in 1..m : c[i] \in S
  BY LenProperties
<1> HIDE DEF m
<1>1. /\ IsFiniteSet(1..m) /\ Cardinality(1..m) = m
      /\ conf \in [1..m -> Int]
  BY <1>0, IntervalIsFinite
<1>2. \A i, j \in 1..m : <<i, j>> \in R <=> conf[i] < conf[j] \/ (conf[i] = conf[j] /\ i < j)
  BY <1>0 DEF Review!LeastCertain
<1> HIDE DEF R, conf
<1>3. /\ \A i \in 1..m : <<i, i>> \notin R
      /\ \A i, j \in 1..m : i # j => <<i, j>> \in R \/ <<j, i>> \in R
      /\ \A i, j, k \in 1..m : <<i, j>> \in R /\ <<j, k>> \in R => <<i, k>> \in R
  BY <1>0, <1>1, <1>2, ScoresOrder
<1>4. /\ o \in [1..m -> 1..m]
      /\ \A i, j \in 1..m : i < j => <<o[i], o[j]>> \in R
      /\ \A i \in 1..m : \E j \in 1..m : o[j] = i
  <2>1. \A i, j, k \in 1..m : <<i, j>> \in R /\ <<j, k>> \in R => <<i, k>> \in R
    BY <1>3
  <2> DEFINE S1 == 1..m
  <2>2. Cardinality(S1) = m
    BY <1>1
  <2>3. IsFiniteSet(S1) /\ \A i \in S1 : <<i, i>> \notin R
    BY <1>1, <1>3
  <2>4. \A i, j \in S1 : i # j => <<i, j>> \in R \/ <<j, i>> \in R
    BY <1>3
  <2>5. \A i, j, k \in S1 : <<i, j>> \in R /\ <<j, k>> \in R => <<i, k>> \in R
    BY <1>3
  <2> HIDE DEF S1
  <2>6. LET t == Review!Ordered(S1, R)
            n1 == Cardinality(S1)
        IN  /\ n1 \in Nat /\ t \in Seq(S1) /\ Len(t) = n1
            /\ \A i, j \in 1..n1 : i < j => <<t[i], t[j]>> \in R
            /\ \A e \in S1 : \E i \in 1..n1 : t[i] = e
    BY <2>3, <2>4, <2>5, OrderedLists
  <2>7. /\ o \in Seq(1..m) /\ Len(o) = m
        /\ \A i, j \in 1..m : i < j => <<o[i], o[j]>> \in R
        /\ \A i \in 1..m : \E j \in 1..m : o[j] = i
    BY <2>2, <2>6 DEF S1
  <2>8. o \in [1..m -> 1..m]
    BY <2>7, LenProperties
  <2> QED BY <2>7, <2>8
<1>5. Review!Shown(c, n) = Review!UpTo(w, n)
  BY <1>0, <1>4 DEF Review!Shown, R, m
<1> HIDE DEF o
<1>6. w \in Seq(S) /\ Len(w) = m
  <2>1. w \in Seq(S)
    BY <1>0, <1>4, IsASeq
  <2>2. DOMAIN w = 1..Len(w) /\ Len(w) \in Nat /\ DOMAIN w = 1..m
    BY <2>1, LenProperties
  <2>3. Len(w) = m
    BY <1>0, <2>2, IntervalsDiffer
  <2> QED BY <2>1, <2>3
<1> HIDE DEF w
<1>7. LET l == IF m < n THEN m ELSE n
      IN  /\ Review!Shown(c, n) \in Seq(S) /\ Len(Review!Shown(c, n)) = l
          /\ \A i \in 1..l : Review!Shown(c, n)[i] = w[i]
  <2>1. /\ Len(w) <= n => Review!UpTo(w, n) = w
        /\ n <= Len(w) => /\ Review!UpTo(w, n) \in Seq(S) /\ Len(Review!UpTo(w, n)) = n
                          /\ \A i \in 1..n : Review!UpTo(w, n)[i] = w[i]
    BY <1>6, UpToIsAPrefix
  <2>2. CASE m < n
    BY <1>0, <1>5, <1>6, <2>1, <2>2
  <2>3. CASE n <= m
    BY <1>0, <1>5, <1>6, <2>1, <2>3
  <2> QED BY <1>0, <2>2, <2>3
<1>8. \A i, j \in 1..m : i < j => o[i] # o[j] /\ conf[o[i]] <= conf[o[j]]
  <2> SUFFICES ASSUME NEW i \in 1..m, NEW j \in 1..m, i < j
               PROVE  o[i] # o[j] /\ conf[o[i]] <= conf[o[j]]
    OBVIOUS
  <2>1. <<o[i], o[j]>> \in R /\ o[i] \in 1..m /\ o[j] \in 1..m
    BY <1>4
  <2>2. i # j /\ <<o[i], o[i]>> \notin R
    BY <1>3, <2>1
  <2>3. conf[o[i]] \in Int /\ conf[o[j]] \in Int
    BY <1>1, <2>1
  <2>4. conf[o[i]] < conf[o[j]] \/ conf[o[i]] = conf[o[j]]
    BY <1>2, <2>1
  <2>5. o[i] # o[j]
    BY <2>1, <2>2
  <2> QED BY <2>3, <2>4, <2>5
<1>9. \A i \in 1..m : w[i] = c[o[i]]
  BY DEF w
<1>10. \A i \in 1..m : conf[o[i]] = Review!Confidence(c[o[i]])
  BY <1>4 DEF conf
<1>11. \A i \in 1..(IF m < n THEN m ELSE n) : Review!Shown(c, n)[i] = c[o[i]]
  <2> DEFINE l == IF m < n THEN m ELSE n
  <2>1. \A i \in 1..l : i \in 1..m
    BY <1>0
  <2>2. \A i \in 1..l : Review!Shown(c, n)[i] = w[i]
    BY <1>7
  <2> HIDE DEF l
  <2>3. \A i \in 1..l : Review!Shown(c, n)[i] = c[o[i]]
    BY <1>9, <2>1, <2>2
  <2> QED BY <2>3 DEF l
<1>12. \A i, j \in 1..m : i < j =>
          o[i] # o[j] /\ Review!Confidence(c[o[i]]) <= Review!Confidence(c[o[j]])
  BY <1>8, <1>10
<1> HIDE DEF conf
<1>13. ShowsLeastCertain(S, c, n, o)
  BY <1>4, <1>7, <1>11, <1>12 DEF m, ShowsLeastCertain
<1> QED BY <1>13

LEMMA AskShowsDoubts ==
  ASSUME ReviewTypeOK, NEW n \in Limits, Review!Ask(n)
  PROVE  Review!DoubtsComeUp'
<1> DEFINE D == Review!Doubts
           all == Cardinality(D)
           c == Review!Candidates(n)
           conf(p) == Review!Confidence(p)
           m == Len(c)
<1>1. /\ all \in Nat /\ n \in Nat \ {0} /\ n * Factor \in Nat \ {0}
      /\ c \in Seq(D) /\ m = IF all < n * Factor THEN all ELSE n * Factor
      /\ \A i, j \in 1..m : i # j => c[i] # c[j]
      /\ all < n * Factor => \A p \in D : \E i \in 1..m : c[i] = p
  BY CandidatesAreDoubts
<1>2. \A i, j \in 1..m : i # j => c[i] # c[j]
  BY <1>1
<1>3. all < n * Factor => \A p \in D : \E i \in 1..m : c[i] = p
  BY <1>1
<1>4. /\ asked' = Review!Shown(c, n) /\ limit' = n /\ open' = D
  BY DEF Review!Ask
<1>5. IsFiniteSet(D) /\ \A p \in D : conf(p) \in Int
  BY DoubtsArePairs
<1>6. \A p : (Review!Confidence(p))' = Review!Confidence(p)
  BY DEF Review!Confidence
<1>7. m \in Nat /\ \A i \in 1..m : c[i] \in D
  <2> HIDE DEF D, c
  <2> QED BY <1>1, LenProperties, ElementOfSeq
<1> DEFINE l == IF m < n THEN m ELSE n
<1>8. PICK o : ShowsLeastCertain(D, c, n, o)
  <2>1. c \in Seq(D) /\ n \in Nat /\ \A p \in D : Review!Confidence(p) \in Int
    BY <1>1, <1>5
  <2> HIDE DEF D, c
  <2> QED BY <2>1, ShownAreTheLeastCertain
<1>9. /\ o \in [1..m -> 1..m] /\ \A i \in 1..m : \E j \in 1..m : o[j] = i
      /\ \A i, j \in 1..m : i < j => o[i] # o[j] /\ conf(c[o[i]]) <= conf(c[o[j]])
      /\ asked' \in Seq(D) /\ Len(asked') = l
      /\ \A i \in 1..l : asked'[i] = c[o[i]]
  <2> HIDE DEF D, c
  <2> QED BY <1>8, <1>4 DEF ShowsLeastCertain
<1>10. /\ \A i \in 1..m : \E j \in 1..m : o[j] = i
       /\ \A i \in 1..m : o[i] \in 1..m
       /\ \A i, j \in 1..m : i < j => o[i] # o[j]
  BY <1>9
<1>11. \A i, j \in 1..m : i < j => conf(c[o[i]]) <= conf(c[o[j]])
  BY <1>9
<1>12. \A i \in 1..l : asked'[i] = c[o[i]]
  BY <1>9
<1> HIDE DEF D, c, conf, all, m
<1>13. DOMAIN asked' = 1..l /\ l \in Nat /\ l <= m
  BY <1>1, <1>7, <1>9, LenProperties
<1> HIDE DEF l
<1>14. Review!ToSet(asked') \subseteq D
  BY <1>7, <1>9, <1>13 DEF Review!ToSet
<1>15. Review!IsInjective(asked')
  <2> SUFFICES ASSUME NEW i \in 1..l, NEW j \in 1..l, i # j PROVE asked'[i] # asked'[j]
    BY <1>13 DEF Review!IsInjective
  <2>1. i \in 1..m /\ j \in 1..m /\ (i < j \/ j < i)
    BY <1>7, <1>13
  <2>2. o[i] \in 1..m /\ o[j] \in 1..m /\ o[i] # o[j]
    BY <1>10, <2>1
  <2>3. c[o[i]] # c[o[j]]
    BY <1>2, <2>2
  <2> QED BY <1>12, <2>3
<1>16. asked' = <<>> => D = {}
  <2> SUFFICES ASSUME asked' = <<>> PROVE D = {}
    OBVIOUS
  <2>1. l = 0
    BY <1>9
  <2>2. m = 0
    BY <1>1, <1>7, <2>1 DEF l
  <2>3. all = 0
    BY <1>1, <2>2
  <2> QED BY <1>5, <2>3, FS_EmptySet DEF all
<1>17. ASSUME all < n * Factor
       PROVE  /\ \A p \in Review!ToSet(asked'), q \in D \ Review!ToSet(asked') : conf(p) <= conf(q)
              /\ Len(asked') = n \/ Review!ToSet(asked') = D
  <2>1. \A p \in D : \E i \in 1..m : c[o[i]] = p
    BY <1>3, <1>10, <1>17
  <2>2. ASSUME NEW p \in Review!ToSet(asked'), NEW q \in D \ Review!ToSet(asked')
        PROVE  conf(p) <= conf(q)
    <3>1. PICK i \in 1..l : p = c[o[i]]
      BY <1>12, <1>13 DEF Review!ToSet
    <3>2. PICK j \in 1..m : q = c[o[j]]
      BY <2>1
    <3>3. j \notin 1..l
      BY <1>12, <1>13, <3>2 DEF Review!ToSet
    <3>4. i \in 1..m /\ i < j
      BY <1>7, <1>13, <3>3
    <3> QED BY <1>11, <3>1, <3>2, <3>4
  <2>3. CASE l = n
    BY <1>9, <2>2, <2>3
  <2>4. CASE l = m
    <3>1. D \subseteq Review!ToSet(asked')
      BY <1>12, <1>13, <2>1, <2>4 DEF Review!ToSet
    <3> QED BY <1>14, <2>2, <3>1
  <2> QED BY <2>3, <2>4 DEF l
<1>18. Review!Cardinality(D) = all
  BY CardinalityOfReview DEF all
<1> QED BY <1>4, <1>6, <1>14, <1>15, <1>16, <1>17, <1>18 DEF Review!DoubtsComeUp, conf

ReviewInv == ReviewTypeOK /\ Review!DoubtsComeUp

\* What the user is asked about is in doubt and open, comes up when anything is, and is the
\* least certain where the walk did not end early (get_pending_reviews).
THEOREM DoubtfulPairsComeUp == Review!ReviewSpec => []Review!DoubtsComeUp
<1>1. Review!ReviewInit => ReviewInv
  <2> SUFFICES ASSUME Review!ReviewInit PROVE ReviewInv
    OBVIOUS
  <2>1. ReviewTypeOK
    BY DEF Review!ReviewInit, ReviewTypeOK
  <2>2. Review!ToSet(asked) = {} /\ Review!IsInjective(asked) /\ open = {}
    BY DEF Review!ReviewInit, Review!ToSet, Review!IsInjective
  <2> QED BY <2>1, <2>2 DEF ReviewInv, Review!DoubtsComeUp
<1>2. ASSUME ReviewInv, [Review!ReviewNext]_Review!reviewVars PROVE ReviewInv'
  <2>1. ASSUME UNCHANGED <<asked, open, limit>> PROVE Review!DoubtsComeUp'
    BY <1>2, <2>1 DEF ReviewInv, Review!DoubtsComeUp, Review!Confidence
  <2>2. CASE Review!Store
    <3>1. ReviewTypeOK'
      <4>1. stored + 1 \in Nat /\ stored' = stored + 1 /\ stored + 1 \in Jobs
        BY <1>2, <2>2 DEF ReviewInv, ReviewTypeOK, Review!Store
      <4>2. 1..(stored + 1) = 1..stored \cup {stored + 1}
        BY <1>2 DEF ReviewInv, ReviewTypeOK
      <4> QED BY <1>2, <4>1, <4>2 DEF ReviewInv, ReviewTypeOK
    <3> QED BY <2>1, <2>2, <3>1 DEF ReviewInv, Review!Store
  <2>3. ASSUME NEW n \in Limits, Review!Ask(n) PROVE ReviewInv'
    <3>1. ReviewTypeOK'
      BY <1>2, <2>3 DEF ReviewInv, ReviewTypeOK, Review!Ask
    <3> QED BY <1>2, <2>3, <3>1, AskShowsDoubts DEF ReviewInv
  <2>4. ASSUME NEW p \in Jobs \X Jobs, NEW same \in BOOLEAN, Review!Answer(p, same)
        PROVE  ReviewInv'
    BY <1>2, <2>1, <2>4 DEF ReviewInv, ReviewTypeOK, Review!Answer
  <2>5. CASE UNCHANGED Review!reviewVars
    BY <1>2, <2>1, <2>5 DEF ReviewInv, ReviewTypeOK, Review!reviewVars
  <2> QED BY <1>2, <2>2, <2>3, <2>4, <2>5 DEF Review!ReviewNext
<1> QED BY <1>1, <1>2, PTL DEF Review!ReviewSpec, ReviewInv

\* A posting that is dropped has one that stands for it, and a doubtful pair is put to the
\* user: what Deduplication and DedupReview say together.
THEOREM DuplicatesAreExplained == Batch!DedupSpec /\ Review!ReviewSpec => []DuplicatesExplained
BY KeptStandForTheirLikes, DoubtfulPairsComeUp, PTL DEF DuplicatesExplained

-----------------------------------------------------------------------------------
(* Enrichment *)

Rows == [Model!Columns -> Nat]
RowsOfSome == UNION {[J -> Rows] : J \in SUBSET Listed}
EnricherTypes == [todo : SUBSET Listed, loaded : RowsOfSome, held : RowsOfSome]
EnrichmentTypeOK ==
    /\ job \in [Listed -> Rows] /\ present \subseteq Listed /\ calls \in Nat
    /\ enricher \in [Model!Enrichers -> EnricherTypes]
    /\ DOMAIN reading \subseteq Listed /\ reading \in [DOMAIN reading -> Nat]

\* What the objects of a process hold, after n answers: the rows as they were loaded, or
\* with one later answer, whole; todo are those it has not asked about.
AnswersARow(old, new, n) ==
    /\ old.summary < new.summary /\ new.summary <= n /\ new.clean = new.summary
    /\ new.level = old.level \/ new.level = new.summary
    /\ new.embedding = old.embedding
Sound(p, n) ==
    /\ DOMAIN p.loaded = DOMAIN p.held /\ p.todo \subseteq DOMAIN p.held
    /\ \A j \in DOMAIN p.held :
          /\ p.loaded[j].clean = p.loaded[j].summary /\ p.loaded[j].summary <= n
          /\ \/ p.held[j] = p.loaded[j]
             \/ j \notin p.todo /\ AnswersARow(p.loaded[j], p.held[j], n)
ObjectsAreSound ==
    /\ \A e \in Model!Enrichers : Sound(enricher[e], calls)
    /\ \A e \in Askers : \A j, k \in DOMAIN enricher[e].held : j = k

\* A job that needs no excuse has one process at most, which loaded it without an answer,
\* and it has none since.
OneAtATime ==
    \A e \in Model!Enrichers : \A j \in DOMAIN enricher[e].loaded :
        \/ j \in excused
        \/ /\ job[j].summary = 0
           /\ \A d \in Model!Enrichers : j \in DOMAIN enricher[d].loaded => d = e

\* The columns of a job come after its first answer, and what is read for an embedding is the
\* answer of a job with one.
ColumnsFollow ==
    /\ \A j \in Listed : job[j].summary <= calls
    /\ \A j \in present : job[j].summary = 0 => job[j].level = 0
    /\ \A j \in DOMAIN reading \cap present :
          job[j].summary # 0 /\ (reading[j] = job[j].summary \/ j \in twice)

\* An answer that a process has loaded is still the job's, or spent.
LoadedIsKnown ==
    \A e \in Model!Enrichers : \A j \in DOMAIN enricher[e].loaded :
        LET a == enricher[e].loaded[j].summary
        IN  a = 0 \/ a \in spent \/ (j \in present /\ job[j].summary = a)

EnrichmentInv ==
    /\ EnrichmentTypeOK /\ ObjectsAreSound /\ OneAtATime /\ ColumnsFollow /\ LoadedIsKnown
    /\ Model!AnswersAreWhole /\ Model!AnswersAreAccounted /\ twice \subseteq excused

LEMMA EnricherHasRows ==
  ASSUME EnrichmentTypeOK, NEW e \in Model!Enrichers
  PROVE  /\ enricher[e] \in EnricherTypes
         /\ DOMAIN enricher[e].loaded \subseteq Listed /\ DOMAIN enricher[e].held \subseteq Listed
         /\ \A j \in DOMAIN enricher[e].loaded : enricher[e].loaded[j] \in Rows
         /\ \A j \in DOMAIN enricher[e].held : enricher[e].held[j] \in Rows
<1>1. enricher[e] \in EnricherTypes
  BY DEF EnrichmentTypeOK
<1>2. ASSUME NEW f \in RowsOfSome
      PROVE  DOMAIN f \subseteq Listed /\ \A j \in DOMAIN f : f[j] \in Rows
  <2>1. PICK J \in SUBSET Listed : f \in [J -> Rows]
    BY DEF RowsOfSome
  <2> HIDE DEF Rows
  <2> QED BY <2>1
<1> QED BY <1>1, <1>2 DEF EnricherTypes

LEMMA SomeRows ==
  ASSUME NEW J \in SUBSET Listed, NEW f \in [J -> Rows]
  PROVE  f \in RowsOfSome
BY Zenon DEF RowsOfSome

LEMMA BlankIsARow == Model!Blank \in Rows /\ \A k \in Model!Columns : Model!Blank[k] = 0
BY DEF Model!Blank, Rows

LEMMA RestingIsSound ==
  ASSUME NEW n \in Nat
  PROVE  /\ Model!Resting \in EnricherTypes /\ Sound(Model!Resting, n)
         /\ DOMAIN Model!Resting.loaded = {} /\ DOMAIN Model!Resting.held = {}
         /\ Model!Resting.todo = {}
<1>1. [j \in {} |-> Model!Blank] \in RowsOfSome
  <2>1. [j \in {} |-> Model!Blank] \in [{} -> Rows]
    BY BlankIsARow
  <2> QED BY <2>1, SomeRows
<1> QED BY <1>1 DEF Model!Resting, EnricherTypes, Sound

LEMMA EnrichmentStarts == Model!EnrichmentInit => EnrichmentInv
<1> SUFFICES ASSUME Model!EnrichmentInit PROVE EnrichmentInv
  OBVIOUS
<1> USE DEF Model!EnrichmentInit
<1>0. /\ Model!Blank.summary = 0 /\ Model!Blank.clean = 0 /\ Model!Blank.level = 0
      /\ Model!Blank.embedding = 0 /\ Model!Blank \in Rows
  BY BlankIsARow DEF Model!Columns
<1>1. EnrichmentTypeOK
  BY <1>0, RestingIsSound DEF EnrichmentTypeOK
<1>2. ObjectsAreSound
  BY RestingIsSound DEF ObjectsAreSound, Model!Enrichers
<1>3. OneAtATime /\ LoadedIsKnown
  BY RestingIsSound DEF OneAtATime, LoadedIsKnown
<1>4. ColumnsFollow
  BY <1>0 DEF ColumnsFollow
<1>5. Model!AnswersAreWhole
  BY <1>0 DEF Model!AnswersAreWhole
<1>6. Model!AnswersAreAccounted
  BY DEF Model!AnswersAreAccounted
<1> QED BY <1>1, <1>2, <1>3, <1>4, <1>5, <1>6 DEF EnrichmentInv

-----------------------------------------------------------------------------------
\* A process loads rows that are present.
LEMMA LoadKeepsInv ==
  ASSUME EnrichmentInv, NEW e \in Model!Enrichers, NEW J \in SUBSET present,
         Model!IsResting(e), Model!Load(e, J), e \in Askers => \E j : J = {j}
  PROVE  EnrichmentInv'
<1> DEFINE rows == [j \in J |-> job[j]]
           new == [todo |-> J, loaded |-> rows, held |-> rows]
<1>1. /\ enricher' = [enricher EXCEPT ![e] = new] /\ excused \subseteq excused'
      /\ \A j \in J : Model!HeldByAny(j) \/ job[j].summary # 0 => j \in excused'
      /\ UNCHANGED <<job, present, reading, calls, spent, twice>>
  BY DEF Model!Load
<1>2. /\ J \subseteq Listed /\ \A j \in J : job[j] \in Rows
  BY DEF EnrichmentInv, EnrichmentTypeOK
<1>3. rows \in RowsOfSome /\ new \in EnricherTypes
  <2>1. rows \in [J -> Rows]
    BY <1>2
  <2> QED BY <1>2, <2>1, SomeRows DEF EnricherTypes
<1>4. EnrichmentTypeOK'
  BY <1>1, <1>3 DEF EnrichmentInv, EnrichmentTypeOK
<1>5. Sound(new, calls)
  BY DEF EnrichmentInv, Model!AnswersAreWhole, ColumnsFollow, EnrichmentTypeOK, Sound
<1> HIDE DEF new
<1>6. enricher \in [Model!Enrichers -> EnricherTypes]
  BY DEF EnrichmentInv, EnrichmentTypeOK
<1>7. ObjectsAreSound'
  BY <1>1, <1>5, <1>6 DEF EnrichmentInv, ObjectsAreSound, new, Model!Enrichers
<1>8. DOMAIN new.loaded = J /\ (\A j \in J : new.loaded[j] = job[j])
  BY DEF new
<1>9. OneAtATime'
  <2> SUFFICES ASSUME NEW d \in Model!Enrichers, NEW j \in DOMAIN enricher'[d].loaded,
                      j \notin excused'
               PROVE  /\ job[j].summary = 0
                      /\ \A b \in Model!Enrichers : j \in DOMAIN enricher'[b].loaded => b = d
    BY <1>1 DEF OneAtATime
  <2>1. j \in J => job[j].summary = 0 /\ \A b \in Model!Enrichers : j \notin DOMAIN enricher[b].loaded
    BY <1>1 DEF Model!HeldByAny
  <2>2. \A b \in Model!Enrichers : b # e => enricher'[b] = enricher[b]
    BY <1>1, <1>6
  <2>3. enricher'[e] = new
    BY <1>1, <1>6
  <2>4. CASE d = e
    BY <1>8, <2>1, <2>2, <2>3, <2>4
  <2>5. CASE d # e
    BY <1>1, <1>8, <2>1, <2>2, <2>3, <2>5 DEF EnrichmentInv, OneAtATime
  <2> QED BY <2>4, <2>5
<1>10. ColumnsFollow' /\ Model!AnswersAreWhole' /\ (twice \subseteq excused)'
  BY <1>1 DEF EnrichmentInv, ColumnsFollow, Model!AnswersAreWhole
<1>11. LoadedIsKnown'
  BY <1>1, <1>6, <1>8 DEF EnrichmentInv, LoadedIsKnown
<1>12. Model!AnswersAreAccounted'
  <2>1. DOMAIN enricher[e].held = {}
    BY DEF EnrichmentInv, ObjectsAreSound, Sound, Model!IsResting
  <2>2. \A d \in Model!Enrichers : d # e => Model!Answers(d)' = Model!Answers(d)
    BY <1>1, <1>6 DEF Model!Answers
  <2>3. Model!Answers(e) = {}
    BY <2>1 DEF Model!Answers
  <2> QED BY <1>1, <2>2, <2>3 DEF EnrichmentInv, Model!AnswersAreAccounted
<1> QED BY <1>4, <1>7, <1>9, <1>10, <1>11, <1>12 DEF EnrichmentInv

\* A process ends, with nothing changed but what it held, its answers are spent.
LEMMA RestKeepsInv ==
  ASSUME EnrichmentInv, NEW e \in Model!Enrichers, Model!Rest(e),
         spent \subseteq spent', Model!Answers(e) \ {0} \subseteq spent',
         calls' \in Nat, calls <= calls', \A a \in (calls + 1)..calls' : a \in spent',
         UNCHANGED <<job, present, reading, twice, excused>>
  PROVE  EnrichmentInv'
<1>1. /\ enricher' \in [Model!Enrichers -> EnricherTypes]
      /\ enricher'[e] = Model!Resting
      /\ \A d \in Model!Enrichers : d # e => enricher'[d] = enricher[d]
  BY RestingIsSound DEF Model!Rest, EnrichmentInv, EnrichmentTypeOK
<1>2. EnrichmentTypeOK'
  BY <1>1 DEF EnrichmentInv, EnrichmentTypeOK
<1>3. /\ Sound(Model!Resting, calls') /\ DOMAIN Model!Resting.held = {}
      /\ DOMAIN Model!Resting.loaded = {}
  BY RestingIsSound
<1>4. ObjectsAreSound'
  <2>1. \A d \in Model!Enrichers : Sound(enricher[d], calls) => Sound(enricher[d], calls')
    <3> SUFFICES ASSUME NEW d \in Model!Enrichers, Sound(enricher[d], calls)
                 PROVE  Sound(enricher[d], calls')
      OBVIOUS
    <3>1. /\ \A j \in DOMAIN enricher[d].loaded : enricher[d].loaded[j] \in Rows
          /\ \A j \in DOMAIN enricher[d].held : enricher[d].held[j] \in Rows
      BY EnricherHasRows DEF EnrichmentInv
    <3>2. calls \in Nat
      BY DEF EnrichmentInv, EnrichmentTypeOK
    <3> QED BY <3>1, <3>2 DEF Sound, AnswersARow, Rows, Model!Columns
  <2> QED BY <1>1, <1>3, <2>1 DEF EnrichmentInv, ObjectsAreSound, Model!Enrichers
<1>5. OneAtATime' /\ LoadedIsKnown'
  BY <1>1, <1>3 DEF EnrichmentInv, OneAtATime, LoadedIsKnown
<1>6. ColumnsFollow'
  <2>1. \A j \in Listed : job[j].summary \in Nat
    BY DEF EnrichmentInv, EnrichmentTypeOK, Rows, Model!Columns
  <2> QED BY <2>1 DEF EnrichmentInv, EnrichmentTypeOK, ColumnsFollow
<1>7. Model!AnswersAreWhole' /\ (twice \subseteq excused)'
  BY DEF EnrichmentInv, Model!AnswersAreWhole
<1>8. Model!AnswersAreAccounted'
  <2> SUFFICES ASSUME NEW a \in 1..calls', a \notin spent'
               PROVE  \/ \E j \in present : job[j].summary = a
                      \/ \E d \in Model!Enrichers : a \in Model!Answers(d)'
    BY DEF Model!AnswersAreAccounted
  <2>1. a \in 1..calls
    BY DEF EnrichmentInv, EnrichmentTypeOK
  <2>2. a \notin Model!Answers(e)
    BY <2>1
  <2>3. \A d \in Model!Enrichers : d # e => Model!Answers(d)' = Model!Answers(d)
    BY <1>1 DEF Model!Answers
  <2> QED BY <2>1, <2>2, <2>3 DEF EnrichmentInv, Model!AnswersAreAccounted
<1> QED BY <1>2, <1>4, <1>5, <1>6, <1>7, <1>8 DEF EnrichmentInv

\* An answer makes a later row, whole.
LEMMA AnsweredRow ==
  ASSUME NEW row \in Rows, NEW n \in Nat, NEW hasLevel \in BOOLEAN, row.summary < n
  PROVE  /\ Model!WithAnswer(row, n, hasLevel) \in Rows
         /\ Model!WithAnswer(row, n, hasLevel).summary = n
         /\ AnswersARow(row, Model!WithAnswer(row, n, hasLevel), n)
<1>1. ASSUME NEW q, q = Model!WithAnswer(row, n, hasLevel)
      PROVE  /\ q \in Rows /\ q.summary = n /\ q.clean = n
             /\ q.level = row.level \/ q.level = n
             /\ q.embedding = row.embedding
  BY <1>1 DEF Model!WithAnswer, Rows, Model!Columns
<1> QED BY <1>1 DEF AnswersARow

\* A process has one more answer to one of the jobs it still has to ask about.
LEMMA AskKeepsInv ==
  ASSUME EnrichmentInv, NEW e \in Model!Enrichers, NEW j \in enricher[e].todo, NEW row \in Rows,
         enricher' = [enricher EXCEPT ![e] = Model!HavingAsked(enricher[e], j, row)],
         calls' = calls + 1, spent \subseteq spent',
         \/ row = enricher[e].held[j] /\ calls' \in spent'
         \/ row.summary = calls' /\ AnswersARow(enricher[e].held[j], row, calls'),
         UNCHANGED <<job, present, reading, twice, excused>>
  PROVE  EnrichmentInv'
<1> DEFINE new == [todo |-> enricher[e].todo \ {j}, loaded |-> enricher[e].loaded,
                   held |-> [enricher[e].held EXCEPT ![j] = row]]
<1>a. new = Model!HavingAsked(enricher[e], j, row)
  BY DEF Model!HavingAsked
<1>0. /\ calls \in Nat /\ enricher[e] \in EnricherTypes
      /\ enricher \in [Model!Enrichers -> EnricherTypes] /\ Sound(enricher[e], calls)
  BY DEF EnrichmentInv, EnrichmentTypeOK, ObjectsAreSound
<1>1. /\ j \in DOMAIN enricher[e].held /\ enricher[e].held[j] = enricher[e].loaded[j]
      /\ DOMAIN enricher[e].held = DOMAIN enricher[e].loaded
      /\ DOMAIN new.held = DOMAIN enricher[e].held /\ new.held[j] = row
      /\ \A k \in DOMAIN new.held : k # j => new.held[k] = enricher[e].held[k]
  BY <1>0 DEF Sound
<1>2. new \in EnricherTypes
  <2>1. DOMAIN enricher[e].held \in SUBSET Listed
        /\ \A k \in DOMAIN enricher[e].held : enricher[e].held[k] \in Rows
    BY EnricherHasRows DEF EnrichmentInv
  <2>2. new.held \in [DOMAIN enricher[e].held -> Rows]
    BY <1>1, <2>1
  <2>3. new.held \in RowsOfSome
    BY <2>1, <2>2, SomeRows
  <2> QED BY <1>0, <2>3 DEF EnricherTypes
<1>3. /\ enricher' \in [Model!Enrichers -> EnricherTypes] /\ enricher'[e] = new
      /\ \A d \in Model!Enrichers : d # e => enricher'[d] = enricher[d]
  BY <1>0, <1>2, <1>a
<1>4. /\ new.loaded = enricher[e].loaded /\ new.todo = enricher[e].todo \ {j}
  OBVIOUS
<1>5. EnrichmentTypeOK'
  BY <1>0, <1>3 DEF EnrichmentInv, EnrichmentTypeOK
<1>6. ASSUME NEW d \in Model!Enrichers
      PROVE  Sound(enricher[d], calls')
  <2>1. /\ \A k \in DOMAIN enricher[d].loaded : enricher[d].loaded[k] \in Rows
        /\ \A k \in DOMAIN enricher[d].held : enricher[d].held[k] \in Rows
    BY EnricherHasRows DEF EnrichmentInv
  <2>2. Sound(enricher[d], calls)
    BY DEF EnrichmentInv, ObjectsAreSound
  <2> QED BY <1>0, <2>1, <2>2 DEF Sound, AnswersARow, Rows, Model!Columns
<1>7. Sound(new, calls')
  <2>1. Sound(enricher[e], calls')
    BY <1>6
  <2> HIDE DEF new
  <2> QED BY <2>1, <1>1, <1>4 DEF Sound
<1> HIDE DEF new
<1>8. ObjectsAreSound'
  BY <1>1, <1>3, <1>6, <1>7 DEF EnrichmentInv, ObjectsAreSound, Model!Enrichers
<1>9. \A d \in Model!Enrichers : enricher'[d].loaded = enricher[d].loaded
  BY <1>3, <1>4
<1>10. OneAtATime' /\ LoadedIsKnown'
  BY <1>9 DEF EnrichmentInv, OneAtATime, LoadedIsKnown
<1>11. ColumnsFollow'
  <2>1. \A k \in Listed : job[k].summary \in Nat
    BY DEF EnrichmentInv, EnrichmentTypeOK, Rows, Model!Columns
  <2> QED BY <1>0, <2>1 DEF EnrichmentInv, EnrichmentTypeOK, ColumnsFollow
<1>12. Model!AnswersAreWhole' /\ (twice \subseteq excused)'
  BY DEF EnrichmentInv, Model!AnswersAreWhole
<1>13. Model!AnswersAreAccounted'
  <2>1. Model!Answers(e) \subseteq Model!Answers(e)'
    BY <1>1, <1>3, <1>4 DEF Model!Answers
  <2>2. \A d \in Model!Enrichers : d # e => Model!Answers(d)' = Model!Answers(d)
    BY <1>3 DEF Model!Answers
  <2>3. calls' \in spent' \/ calls' \in Model!Answers(e)'
    BY <1>1, <1>3, <1>4 DEF Model!Answers
  <2>4. \A a \in 1..calls' : a = calls' \/ a \in 1..calls
    BY <1>0
  <2> QED BY <2>1, <2>2, <2>3, <2>4 DEF EnrichmentInv, Model!AnswersAreAccounted
<1> QED BY <1>5, <1>8, <1>10, <1>11, <1>12, <1>13 DEF EnrichmentInv

\* What a process writes is its answer: whole, and without the embedding of another.
LEMMA WriteKeepsInv ==
  ASSUME EnrichmentInv, NEW e \in Model!Enrichers, Model!Commit(e)
  PROVE  EnrichmentInv'
<1> DEFINE still == Model!Changed(e) \cap present
<1>1. /\ ~Model!IsResting(e) /\ enricher[e].todo = {}
      /\ job' = [j \in Listed |-> IF j \in still THEN Model!Written(e, j) ELSE job[j]]
      /\ twice' = twice \cup {j \in still : job[j].summary # 0}
      /\ spent' = spent \cup {job[j].summary : j \in {k \in still : job[k].summary # 0}}
                        \cup {enricher[e].held[j].summary : j \in Model!Changed(e) \ still}
      /\ Model!Rest(e)
      /\ UNCHANGED <<present, reading, calls, excused>>
  BY DEF Model!Commit
<1>2. /\ enricher' \in [Model!Enrichers -> EnricherTypes]
      /\ enricher'[e] = Model!Resting
      /\ \A d \in Model!Enrichers : d # e => enricher'[d] = enricher[d]
  BY <1>1, RestingIsSound DEF Model!Rest, EnrichmentInv, EnrichmentTypeOK
<1>3. /\ job \in [Listed -> Rows] /\ present \subseteq Listed /\ calls \in Nat
      /\ \A j \in Listed : job[j] \in Rows
  BY DEF EnrichmentInv, EnrichmentTypeOK
<1>4. /\ DOMAIN enricher[e].held \subseteq Listed
      /\ DOMAIN enricher[e].loaded = DOMAIN enricher[e].held
      /\ \A j \in DOMAIN enricher[e].held :
            enricher[e].loaded[j] \in Rows /\ enricher[e].held[j] \in Rows
      /\ \A j \in DOMAIN enricher[e].held :
            \/ enricher[e].held[j] = enricher[e].loaded[j]
            \/ AnswersARow(enricher[e].loaded[j], enricher[e].held[j], calls)
      /\ \A j \in DOMAIN enricher[e].held :
            enricher[e].loaded[j].clean = enricher[e].loaded[j].summary
  <2>1. Sound(enricher[e], calls)
    BY DEF EnrichmentInv, ObjectsAreSound
  <2> QED BY <2>1, EnricherHasRows DEF EnrichmentInv, Sound
<1>5. still \subseteq DOMAIN enricher[e].held /\ still \subseteq Listed /\ still \subseteq present
  BY <1>4 DEF Model!Changed
<1>6. \A j \in Listed : j \notin still => job'[j] = job[j]
  BY <1>1
\* The row that is written.
<1>7. ASSUME NEW j \in still
      PROVE  /\ job'[j] \in Rows
             /\ job'[j].summary = enricher[e].held[j].summary
             /\ job'[j].summary # 0 /\ job'[j].summary <= calls
             /\ job'[j].clean = job'[j].summary
             /\ job'[j].level \in {job[j].level, job'[j].summary}
             /\ job'[j].embedding = job[j].embedding
  <2>1. job'[j] = Model!Written(e, j)
    BY <1>1, <1>5
  <2>2. /\ enricher[e].loaded[j] \in Rows /\ enricher[e].held[j] \in Rows /\ job[j] \in Rows
        /\ AnswersARow(enricher[e].loaded[j], enricher[e].held[j], calls)
        /\ enricher[e].loaded[j].clean = enricher[e].loaded[j].summary
    BY <1>3, <1>4, <1>5 DEF Model!Changed
  <2> HIDE DEF still
  <2> QED BY <1>3, <2>1, <2>2 DEF Model!Written, AnswersARow, Rows, Model!Columns
<1>8. \A j \in still : job[j].summary # 0 => j \in twice' /\ job[j].summary \in spent'
  BY <1>1
<1>9. \A j \in Model!Changed(e) : j \notin still => enricher[e].held[j].summary \in spent'
  BY <1>1
<1>10. spent \subseteq spent' /\ twice \subseteq twice'
       /\ \A j \in twice' : j \in twice \/ (j \in still /\ job[j].summary # 0)
  BY <1>1
\* Whoever needs no excuse is alone and writes a first answer.
<1>11. \A j \in still : j \notin excused =>
          /\ job[j].summary = 0 /\ job[j].level = 0
          /\ \A d \in Model!Enrichers : j \in DOMAIN enricher[d].loaded => d = e
  BY <1>4, <1>5 DEF EnrichmentInv, OneAtATime, ColumnsFollow
<1>12. EnrichmentTypeOK'
  <2>1. job' \in [Listed -> Rows]
    BY <1>1, <1>3, <1>6, <1>7
  <2> QED BY <1>1, <1>2, <2>1 DEF EnrichmentInv, EnrichmentTypeOK
<1>13. \A j \in still : j \in Model!Changed(e) /\ j \in present
  OBVIOUS
<1>14. \A j \in Model!Changed(e) : j \in present => j \in still
  OBVIOUS
<1>15. UNCHANGED <<present, reading, calls, excused>>
  BY <1>1
<1> HIDE DEF still
<1>16. /\ Sound(Model!Resting, calls) /\ DOMAIN Model!Resting.held = {}
       /\ DOMAIN Model!Resting.loaded = {}
  BY <1>3, RestingIsSound
<1>17. ObjectsAreSound'
  BY <1>2, <1>15, <1>16 DEF EnrichmentInv, ObjectsAreSound, Model!Enrichers
<1>18. OneAtATime'
  <2> SUFFICES ASSUME NEW d \in Model!Enrichers, NEW j \in DOMAIN enricher'[d].loaded,
                      j \notin excused
               PROVE  /\ job'[j].summary = 0
                      /\ \A b \in Model!Enrichers : j \in DOMAIN enricher'[b].loaded => b = d
    BY <1>15 DEF OneAtATime
  <2>1. d # e /\ j \in DOMAIN enricher[d].loaded
    BY <1>2, <1>16
  <2>2. /\ job[j].summary = 0
        /\ \A b \in Model!Enrichers : j \in DOMAIN enricher[b].loaded => b = d
    BY <2>1 DEF EnrichmentInv, OneAtATime
  <2>3. j \in Listed
    BY <2>1, EnricherHasRows DEF EnrichmentInv
  <2>4. j \notin still
    BY <1>11, <2>1
  <2> QED BY <1>2, <1>6, <1>16, <2>2, <2>3, <2>4
<1>19. ColumnsFollow'
  <2>1. \A j \in Listed : job'[j].summary <= calls
    BY <1>6, <1>7 DEF EnrichmentInv, ColumnsFollow
  <2>2. \A j \in present : job'[j].summary = 0 => job'[j].level = 0
    BY <1>3, <1>6, <1>7 DEF EnrichmentInv, ColumnsFollow
  <2>3. ASSUME NEW j \in DOMAIN reading \cap present
        PROVE  job'[j].summary # 0 /\ (reading[j] = job'[j].summary \/ j \in twice')
    <3>1. j \in Listed /\ job[j].summary # 0 /\ (reading[j] = job[j].summary \/ j \in twice)
      BY <1>3 DEF EnrichmentInv, ColumnsFollow
    <3> QED BY <1>6, <1>7, <1>8, <1>10, <3>1
  <2> QED BY <1>15, <2>1, <2>2, <2>3 DEF ColumnsFollow
<1>20. LoadedIsKnown'
  <2> SUFFICES ASSUME NEW d \in Model!Enrichers, NEW j \in DOMAIN enricher'[d].loaded,
                      NEW a, a = enricher'[d].loaded[j].summary, a # 0, a \notin spent'
               PROVE  j \in present /\ job'[j].summary = a
    BY <1>15 DEF LoadedIsKnown
  <2>1. d # e /\ j \in DOMAIN enricher[d].loaded /\ a = enricher[d].loaded[j].summary
    BY <1>2, <1>16
  <2>2. j \in present /\ job[j].summary = a
    BY <1>10, <2>1 DEF EnrichmentInv, LoadedIsKnown
  <2> QED BY <1>3, <1>6, <1>8, <2>2
<1>21. Model!AnswersAreWhole'
  <2> SUFFICES ASSUME NEW j \in present
               PROVE  /\ job'[j].clean = job'[j].summary
                      /\ job'[j].level \in {0, job'[j].summary} \/ j \in excused
                      /\ job'[j].embedding \in {0, job'[j].summary} \/ j \in twice'
    BY <1>15 DEF Model!AnswersAreWhole
  <2>1. /\ job[j].clean = job[j].summary
        /\ job[j].level \in {0, job[j].summary} \/ j \in excused
        /\ job[j].embedding \in {0, job[j].summary} \/ j \in twice
    BY DEF EnrichmentInv, Model!AnswersAreWhole
  <2>2. CASE j \in still
    BY <1>7, <1>8, <1>10, <1>11, <2>1, <2>2
  <2>3. CASE j \notin still
    BY <1>3, <1>6, <1>10, <2>1, <2>3
  <2> QED BY <2>2, <2>3
<1>22. Model!AnswersAreAccounted'
  <2> SUFFICES ASSUME NEW a \in 1..calls, a \notin spent'
               PROVE  \/ \E j \in present : job'[j].summary = a
                      \/ \E d \in Model!Enrichers : a \in Model!Answers(d)'
    BY <1>15 DEF Model!AnswersAreAccounted
  <2>1. ASSUME NEW j \in present, job[j].summary = a
        PROVE  job'[j].summary = a
    BY <1>3, <1>6, <1>8, <2>1
  <2>2. ASSUME NEW d \in Model!Enrichers, d # e, a \in Model!Answers(d)
        PROVE  a \in Model!Answers(d)'
    BY <1>2, <2>2 DEF Model!Answers
  <2>3. ASSUME a \in Model!Answers(e)
        PROVE  \E j \in present : job'[j].summary = a
    <3>1. PICK j \in DOMAIN enricher[e].held : enricher[e].held[j].summary = a
      BY <2>3 DEF Model!Answers
    <3>2. CASE j \in Model!Changed(e)
      BY <1>7, <1>9, <1>13, <1>14, <3>1, <3>2
    <3>3. CASE j \notin Model!Changed(e)
      <4>1. enricher[e].loaded[j].summary = a /\ j \in DOMAIN enricher[e].loaded /\ a # 0
        BY <1>4, <3>1, <3>3 DEF Model!Changed
      <4>2. j \in present /\ job[j].summary = a
        BY <1>10, <4>1 DEF EnrichmentInv, LoadedIsKnown
      <4> QED BY <2>1, <4>2
    <3> QED BY <3>2, <3>3
  <2>4. a \in spent \/ (\E j \in present : job[j].summary = a)
        \/ \E d \in Model!Enrichers : a \in Model!Answers(d)
    BY DEF EnrichmentInv, Model!AnswersAreAccounted
  <2> QED BY <1>10, <2>1, <2>2, <2>3, <2>4
<1>23. (twice \subseteq excused)'
  BY <1>10, <1>11, <1>15 DEF EnrichmentInv
<1> QED BY <1>12, <1>17, <1>18, <1>19, <1>20, <1>21, <1>22, <1>23 DEF EnrichmentInv

\* What is embedded is the answer of the job, or of one that was asked about again.
LEMMA EmbeddingKeepsInv ==
  ASSUME EnrichmentInv, Model!EmbedRead \/ Model!EmbedWrite
  PROVE  EnrichmentInv'
<1>0. /\ UNCHANGED <<present, enricher, calls, spent, twice, excused>>
      /\ job \in [Listed -> Rows] /\ present \subseteq Listed
  BY DEF Model!EmbedRead, Model!EmbedWrite, EnrichmentInv, EnrichmentTypeOK
<1>1. CASE Model!EmbedRead
  <2>1. PICK J \in Model!Some(present \ Model!Unenriched, EmbedSize) :
             reading' = [j \in J |-> job[j].summary]
    BY <1>1 DEF Model!EmbedRead
  <2>2. J \subseteq present /\ \A j \in J : job[j].summary # 0
    BY <2>1 DEF Model!Some, Model!Unenriched
  <2>3. job' = job /\ DOMAIN reading' = J /\ (\A j \in J : reading'[j] = job[j].summary)
    BY <1>1, <2>1 DEF Model!EmbedRead
  <2>4. \A j \in Listed : job[j].summary \in Nat
    BY <1>0 DEF Rows, Model!Columns
  <2>5. EnrichmentTypeOK'
    BY <1>0, <2>1, <2>2, <2>3, <2>4 DEF EnrichmentInv, EnrichmentTypeOK
  <2>6. ColumnsFollow'
    BY <1>0, <2>2, <2>3 DEF EnrichmentInv, ColumnsFollow
  <2>7. /\ ObjectsAreSound' /\ OneAtATime' /\ LoadedIsKnown' /\ (twice \subseteq excused)'
        /\ Model!AnswersAreWhole' /\ Model!AnswersAreAccounted'
    BY <1>0, <2>3 DEF EnrichmentInv, ObjectsAreSound, OneAtATime, LoadedIsKnown,
                      Model!AnswersAreWhole, Model!AnswersAreAccounted, Model!Answers
  <2> QED BY <2>5, <2>6, <2>7 DEF EnrichmentInv
<1>2. CASE Model!EmbedWrite
  <2>1. ASSUME NEW j \in Listed
        PROVE  /\ job'[j] \in Rows
               /\ job'[j].clean = job[j].clean /\ job'[j].summary = job[j].summary
               /\ job'[j].level = job[j].level
               /\ \/ job'[j].embedding = job[j].embedding
                  \/ /\ j \in DOMAIN reading \cap present
                     /\ job'[j].embedding = reading[j]
    <3>1. \A k \in DOMAIN reading : reading[k] \in Nat
      BY DEF EnrichmentInv, EnrichmentTypeOK
    <3>2. job[j] \in Rows
      BY <1>0
    <3>3. \/ job'[j] = job[j]
          \/ /\ j \in DOMAIN reading \cap present
             /\ job'[j] = [job[j] EXCEPT !.embedding = reading[j]]
      BY <1>0, <1>2 DEF Model!EmbedWrite
    <3> QED BY <3>1, <3>2, <3>3 DEF Rows, Model!Columns
  <2>2. job' = [j \in Listed |-> job'[j]] /\ reading' = [j \in {} |-> 0]
    BY <1>0, <1>2 DEF Model!EmbedWrite
  <2>3. EnrichmentTypeOK'
    <3>1. job' \in [Listed -> Rows]
      BY <2>1, <2>2
    <3> QED BY <1>0, <2>2, <3>1 DEF EnrichmentInv, EnrichmentTypeOK
  <2>4. ColumnsFollow'
    BY <1>0, <2>1, <2>2 DEF EnrichmentInv, ColumnsFollow
  <2>5. \A j \in present : job'[j].summary = job[j].summary
    BY <1>0, <2>1
  <2>6. OneAtATime'
    <3>1. \A d \in Model!Enrichers : DOMAIN enricher[d].loaded \subseteq Listed
      BY EnricherHasRows DEF EnrichmentInv
    <3> QED BY <1>0, <2>1, <3>1 DEF EnrichmentInv, OneAtATime
  <2>7. LoadedIsKnown' /\ Model!AnswersAreAccounted'
    BY <1>0, <2>5 DEF EnrichmentInv, LoadedIsKnown, Model!AnswersAreAccounted, Model!Answers
  <2>8. Model!AnswersAreWhole'
    <3> SUFFICES ASSUME NEW j \in present
                 PROVE  /\ job'[j].clean = job'[j].summary
                        /\ job'[j].level \in {0, job'[j].summary} \/ j \in excused
                        /\ job'[j].embedding \in {0, job'[j].summary} \/ j \in twice
      BY <1>0 DEF Model!AnswersAreWhole
    <3>1. /\ job[j].clean = job[j].summary
          /\ job[j].level \in {0, job[j].summary} \/ j \in excused
          /\ job[j].embedding \in {0, job[j].summary} \/ j \in twice
      BY DEF EnrichmentInv, Model!AnswersAreWhole
    <3>2. j \in DOMAIN reading => reading[j] = job[j].summary \/ j \in twice
      BY DEF EnrichmentInv, ColumnsFollow
    <3> QED BY <1>0, <2>1, <3>1, <3>2
  <2>9. ObjectsAreSound' /\ (twice \subseteq excused)'
    BY <1>0 DEF EnrichmentInv, ObjectsAreSound
  <2> QED BY <2>3, <2>4, <2>6, <2>7, <2>8, <2>9 DEF EnrichmentInv
<1> QED BY <1>1, <1>2

LEMMA ClearKeepsInv ==
  ASSUME EnrichmentInv, Model!ClearJobs
  PROVE  EnrichmentInv'
<1>1. /\ present' = {} /\ UNCHANGED <<job, enricher, reading, calls, twice, excused>>
      /\ spent' = spent \cup ({job[j].summary : j \in present} \ {0})
  BY DEF Model!ClearJobs
<1>2. spent \subseteq spent' /\ \A j \in present : job[j].summary # 0 => job[j].summary \in spent'
  BY <1>1
<1>3. EnrichmentTypeOK' /\ ObjectsAreSound' /\ OneAtATime' /\ (twice \subseteq excused)'
  BY <1>1 DEF EnrichmentInv, EnrichmentTypeOK, ObjectsAreSound, OneAtATime
<1>4. ColumnsFollow' /\ Model!AnswersAreWhole'
  BY <1>1 DEF EnrichmentInv, ColumnsFollow, Model!AnswersAreWhole
<1>5. LoadedIsKnown'
  BY <1>1, <1>2 DEF EnrichmentInv, LoadedIsKnown
<1>6. Model!AnswersAreAccounted'
  BY <1>1, <1>2 DEF EnrichmentInv, Model!AnswersAreAccounted, Model!Answers
<1> QED BY <1>3, <1>4, <1>5, <1>6 DEF EnrichmentInv

LEMMA EnrichmentStep ==
  ASSUME PostingsAssumption, EnrichmentInv, [Model!EnrichmentNext]_(Model!enrichmentVars)
  PROVE  EnrichmentInv'
<1>1. CASE UNCHANGED Model!enrichmentVars
  BY <1>1 DEF EnrichmentInv, EnrichmentTypeOK, ObjectsAreSound, OneAtATime, ColumnsFollow,
     LoadedIsKnown, Model!AnswersAreWhole, Model!AnswersAreAccounted, Model!Answers,
     Model!enrichmentVars
<1>2. ASSUME NEW e \in Model!Enrichers, Model!StartBatch(e)
      PROVE  EnrichmentInv'
  <2>1. PICK J \in Model!Some(Model!Unenriched, BatchSize) : Model!Load(e, J)
    BY <1>2 DEF Model!StartBatch
  <2>2. J \subseteq present
    BY <2>1 DEF Model!Some, Model!Unenriched
  <2>3. e \notin Askers /\ Model!IsResting(e)
    BY <1>2 DEF Model!StartBatch, PostingsAssumption, Model!EnrichmentAssumption
  <2> QED BY <2>1, <2>2, <2>3, LoadKeepsInv
<1>3. ASSUME NEW e \in Model!Enrichers, NEW j \in Listed, Model!StartRequest(e, j)
      PROVE  EnrichmentInv'
  <2>1. {j} \subseteq present /\ Model!IsResting(e) /\ Model!Load(e, {j})
    BY <1>3 DEF Model!StartRequest
  <2> QED BY <2>1, LoadKeepsInv
<1>4. ASSUME NEW e \in Model!Enrichers, Model!Fail(e)
      PROVE  EnrichmentInv'
  <2>1. /\ Model!Rest(e) /\ spent' = spent \cup (Model!Answers(e) \ {0})
        /\ UNCHANGED <<job, present, reading, calls, twice, excused>>
    BY <1>4 DEF Model!Fail, Model!GiveUp
  <2>2. calls \in Nat
    BY DEF EnrichmentInv, EnrichmentTypeOK
  <2>3. \A a \in (calls + 1)..calls : FALSE
    BY <2>2
  <2> QED BY <2>1, <2>2, <2>3, RestKeepsInv
<1>5. ASSUME NEW e \in Model!Enrichers, NEW j \in Listed, Model!Answer(e, j)
      PROVE  EnrichmentInv'
  <2>1. PICK hasLevel \in BOOLEAN :
           enricher' = [enricher EXCEPT ![e] = Model!HavingAsked(enricher[e], j,
                            Model!WithAnswer(enricher[e].held[j], calls', hasLevel))]
    BY <1>5 DEF Model!Answer
  <2>2. /\ j \in enricher[e].todo /\ calls' = calls + 1 /\ calls \in Nat /\ calls' \in Nat
        /\ UNCHANGED <<job, present, reading, spent, twice, excused>>
    BY <1>5 DEF Model!Answer, EnrichmentInv, EnrichmentTypeOK
  <2>3. /\ Sound(enricher[e], calls) /\ enricher[e] \in EnricherTypes
        /\ enricher \in [Model!Enrichers -> EnricherTypes]
    BY DEF EnrichmentInv, ObjectsAreSound, EnrichmentTypeOK
  <2>4. /\ j \in DOMAIN enricher[e].held /\ enricher[e].held[j] \in Rows
        /\ enricher[e].held[j] = enricher[e].loaded[j] /\ enricher[e].held[j].summary <= calls
    BY <2>2, <2>3, EnricherHasRows DEF EnrichmentInv, Sound
  <2>5. enricher[e].held[j].summary < calls'
    <3>1. enricher[e].held[j].summary \in Nat
      BY <2>4 DEF Rows, Model!Columns
    <3> QED BY <2>2, <2>4, <3>1
  <2> DEFINE row == Model!WithAnswer(enricher[e].held[j], calls', hasLevel)
  <2>6. row \in Rows /\ row.summary = calls' /\ AnswersARow(enricher[e].held[j], row, calls')
    BY <2>2, <2>4, <2>5, AnsweredRow
  <2>8. enricher' = [enricher EXCEPT ![e] = Model!HavingAsked(enricher[e], j, row)]
    BY <2>1
  <2> HIDE DEF row
  <2> QED BY <2>2, <2>6, <2>8, AskKeepsInv
<1>6. ASSUME NEW e \in Model!Enrichers, NEW j \in Listed, Model!Unusable(e, j)
      PROVE  EnrichmentInv'
  <2>1. /\ j \in enricher[e].todo /\ calls' = calls + 1 /\ calls \in Nat
        /\ spent' = spent \cup {calls'}
        /\ UNCHANGED <<job, present, reading, twice, excused>>
    BY <1>6 DEF Model!Unusable, EnrichmentInv, EnrichmentTypeOK
  <2>2. Sound(enricher[e], calls) /\ enricher[e] \in EnricherTypes
    BY DEF EnrichmentInv, ObjectsAreSound, EnrichmentTypeOK
  <2>3. CASE e \in Askers
    <3>1. Model!Rest(e)
      BY <1>6, <2>3 DEF Model!Unusable, Model!Rest
    <3>2. Model!Answers(e) = {}
      <4>1. j \in DOMAIN enricher[e].held /\ \A k \in DOMAIN enricher[e].held : k = j
        BY <2>1, <2>2, <2>3 DEF EnrichmentInv, ObjectsAreSound, Sound
      <4> QED BY <2>1, <4>1 DEF Model!Answers
    <3>3. calls' \in Nat /\ calls <= calls' /\ \A a \in (calls + 1)..calls' : a \in spent'
      BY <2>1
    <3> QED BY <2>1, <3>1, <3>2, <3>3, RestKeepsInv
  <2>4. CASE e \notin Askers
    <3>1. enricher' = [enricher EXCEPT
                        ![e] = Model!HavingAsked(enricher[e], j, enricher[e].held[j])]
      BY <1>6, <2>4 DEF Model!Unusable, Model!Restored
    <3>2. enricher[e].held[j] \in Rows
      BY <2>1, <2>2, EnricherHasRows DEF EnrichmentInv, Sound
    <3> QED BY <2>1, <3>1, <3>2, AskKeepsInv
  <2> QED BY <2>3, <2>4
<1> QED BY <1>1, <1>2, <1>3, <1>4, <1>5, <1>6, WriteKeepsInv, EmbeddingKeepsInv, ClearKeepsInv
        DEF Model!EnrichmentNext

\* A job shows one answer, whole, with an embedding of it, unless two processes held it at
\* once or a request asked again; every answer is in a job, in the hands of a process or spent.
THEOREM AnswersAreShownWhole == Model!EnrichmentSpec => []EnrichmentExplained
<1>1. EnrichmentInv => EnrichmentExplained
  BY DEF EnrichmentInv, EnrichmentExplained, Model!EnrichmentExplained
<1> QED BY <1>1, PostingsAssumption, EnrichmentStarts, EnrichmentStep, PTL DEF Model!EnrichmentSpec

-----------------------------------------------------------------------------------
(* Alerts of saved searches *)

Entries == [search : Searches, stamp : Nat, jobs : SUBSET Postings, lost : SUBSET Postings,
            base : Nat]
Workings == [at : {"idle", "running", "done"}, left : SUBSET Searches, seen : [Searches -> Nat],
             hand : Searches \cup {NoHand}, stamp : Nat, staged : SUBSET Entries, base : Nat]
PostingRow == [state : {"none", "written", "stored"}, at : Nat, fits : SUBSET Searches]
SearchRow == [exists : BOOLEAN, enabled : BOOLEAN, readable : BOOLEAN, checked : Nat]
AlertShapes ==
    /\ now \in Nat /\ posting \in [Postings -> PostingRow]
    /\ search \in [Searches -> SearchRow] /\ worker \in [Workers -> Workings]
    /\ log \in Seq(SUBSET Entries)

There(p) == posting[p].state # "none"
PostingsInTime == \A p \in Postings : There(p) => posting[p].at >= 1 /\ posting[p].at <= now

\* A committed check has told the posting, or has passed over it.
Accounted(s, p) == \E i \in DOMAIN log : \E e \in log[i] : e.search = s /\ p \in e.jobs \cup e.lost
\* Between the i-th commit and the b-th the date of the search may have been set back.
SetBack(s, i, b) ==
    \E k \in (i + 1)..b : \E g \in log[k] : g.search = s /\ (g.stamp = None \/ g.base < i)

LogInTime ==
    \A i \in DOMAIN log : \A e \in log[i] :
        e.stamp <= now /\ e.base < i /\ \A p \in e.jobs : Visible(p)

\* A date accounts for what is older, and is no older than the checks that were committed
\* before, unless it was set back.
DateHolds(s, date, b) ==
    /\ date <= now
    /\ \A p \in Postings : There(p) /\ posting[p].at <= date => Accounted(s, p)
    /\ \A i \in 1..b : \A e \in log[i] : e.search = s => e.stamp <= date \/ SetBack(s, i, b)

\* What a worker has staged accounts for what is older than its stamp.
EntryHolds(k, f) ==
    /\ f.search \notin k.left /\ f.base = k.base /\ f.stamp <= now
    /\ \A p \in f.jobs : Visible(p)
    /\ \A p \in Postings : There(p) /\ posting[p].at <= f.stamp =>
           p \in f.jobs \cup f.lost \/ Accounted(f.search, p)
    /\ \A i \in 1..k.base : \A e \in log[i] :
           /\ e.stamp <= f.stamp
           /\ \A p \in e.jobs \cap f.jobs : e.search = f.search =>
                  posting[p].at > e.stamp \/ SetBack(f.search, i, k.base)

WorkerHolds(k) ==
    /\ k.base <= Len(log)
    /\ \A s \in Searches : DateHolds(s, k.seen[s], k.base)
    /\ k.hand # NoHand =>
           k.hand \in k.left /\ k.stamp <= now /\ \A i \in 1..k.base : \A e \in log[i] : e.stamp <= k.stamp
    /\ \A f \in k.staged : EntryHolds(k, f)
    /\ \A f, g \in k.staged : f.search = g.search => f = g

AlertInv ==
    /\ AlertShapes /\ PostingsInTime /\ LogInTime
    /\ \A s \in Searches : DateHolds(s, search[s].checked, Len(log))
    /\ \A w \in Workers : WorkerHolds(worker[w])
    /\ RepeatsExplained

\* Time goes on, commits are added, and postings are written and stored.
HistoryGrows ==
    /\ now' \in Nat /\ now <= now'
    /\ log' \in Seq(SUBSET Entries) /\ Len(log) <= Len(log')
    /\ \A i \in 1..Len(log) : log'[i] = log[i]
    /\ posting' \in [Postings -> PostingRow]
    /\ \A p \in Postings :
          \/ posting'[p] = posting[p]
          \/ ~There(p) /\ There(p)' /\ posting'[p].at > now
          \/ There(p) /\ There(p)' /\ posting'[p].at = posting[p].at /\ (Visible(p) => Visible(p)')

LEMMA AccountedStays ==
  ASSUME AlertShapes, HistoryGrows, NEW s, NEW p, Accounted(s, p)
  PROVE  Accounted(s, p)'
<1>1. PICK i \in 1..Len(log) : \E e \in log[i] : e.search = s /\ p \in e.jobs \cup e.lost
  BY DEF Accounted, AlertShapes
<1>2. i \in DOMAIN log' /\ log'[i] = log[i]
  BY DEF HistoryGrows, AlertShapes
<1> QED BY <1>1, <1>2 DEF Accounted

LEMMA SetBackStays ==
  ASSUME AlertShapes, HistoryGrows, NEW s, NEW i \in Nat, NEW b \in Nat, b <= Len(log),
         SetBack(s, i, b)
  PROVE  SetBack(s, i, b)'
<1>1. PICK k \in (i + 1)..b : \E g \in log[k] : g.search = s /\ (g.stamp = None \/ g.base < i)
  BY DEF SetBack
<1>2. k \in 1..Len(log) /\ log'[k] = log[k]
  BY DEF HistoryGrows, AlertShapes
<1> QED BY <1>1, <1>2 DEF SetBack

LEMMA PostingsMove ==
  ASSUME AlertShapes, PostingsInTime, HistoryGrows, NEW p \in Postings
  PROVE  /\ Visible(p) => Visible(p)' /\ posting'[p].at = posting[p].at
         /\ \A date \in Nat : date <= now /\ There(p)' /\ posting'[p].at <= date =>
                There(p) /\ posting[p].at = posting'[p].at
         /\ posting[p].at \in Nat /\ posting'[p].at \in Nat
         /\ Visible(p) => There(p)
<1>1. posting[p] \in PostingRow /\ posting'[p] \in PostingRow /\ now \in Nat
  BY DEF AlertShapes, HistoryGrows
<1>2. posting[p].at \in Nat /\ posting'[p].at \in Nat
  BY <1>1 DEF PostingRow
<1>3. Visible(p) => There(p)
  BY DEF Visible, There
<1>4. CASE posting'[p] = posting[p]
  BY <1>2, <1>3, <1>4 DEF There, Visible
<1>5. CASE ~There(p) /\ There(p)' /\ posting'[p].at > now
  BY <1>1, <1>2, <1>3, <1>5
<1>6. CASE There(p) /\ There(p)' /\ posting'[p].at = posting[p].at /\ (Visible(p) => Visible(p)')
  BY <1>2, <1>3, <1>6
<1> QED BY <1>4, <1>5, <1>6 DEF HistoryGrows

LEMMA DateStays ==
  ASSUME AlertShapes, PostingsInTime, HistoryGrows,
         NEW s, NEW date \in Nat, NEW b \in Nat, b <= Len(log), DateHolds(s, date, b)
  PROVE  DateHolds(s, date, b)'
<1>1. date <= now'
  BY DEF DateHolds, HistoryGrows, AlertShapes
<1>2. ASSUME NEW p \in Postings, There(p)', posting'[p].at <= date
      PROVE  Accounted(s, p)'
  BY <1>2, PostingsMove, AccountedStays DEF DateHolds
<1>3. ASSUME NEW i \in 1..b, NEW e \in log'[i], e.search = s
      PROVE  e.stamp <= date \/ SetBack(s, i, b)'
  <2>1. e \in log[i]
    BY <1>3 DEF HistoryGrows, AlertShapes
  <2> QED BY <2>1, <1>3, SetBackStays DEF DateHolds
<1> QED BY <1>1, <1>2, <1>3 DEF DateHolds

LEMMA EntryStays ==
  ASSUME AlertShapes, PostingsInTime, HistoryGrows,
         NEW k \in Workings, NEW f \in Entries, k.base <= Len(log), EntryHolds(k, f)
  PROVE  EntryHolds(k, f)'
<1>0. k.base \in Nat /\ f.stamp \in Nat /\ f.jobs \subseteq Postings
  BY DEF Workings, Entries
<1>1. f.search \notin k.left /\ f.base = k.base /\ f.stamp <= now'
  BY <1>0 DEF EntryHolds, HistoryGrows, AlertShapes
<1>2. ASSUME NEW p \in f.jobs PROVE Visible(p)'
  BY <1>0, <1>2, PostingsMove DEF EntryHolds
<1>3. ASSUME NEW p \in Postings, There(p)', posting'[p].at <= f.stamp
      PROVE  p \in f.jobs \cup f.lost \/ Accounted(f.search, p)'
  BY <1>0, <1>3, PostingsMove, AccountedStays DEF EntryHolds
<1>4. ASSUME NEW i \in 1..k.base, NEW e \in log'[i]
      PROVE  /\ e.stamp <= f.stamp
             /\ \A p \in e.jobs \cap f.jobs : e.search = f.search =>
                    posting'[p].at > e.stamp \/ SetBack(f.search, i, k.base)'
  <2>1. e \in log[i]
    BY <1>0, <1>4 DEF HistoryGrows, AlertShapes
  <2> QED BY <2>1, <1>0, <1>4, PostingsMove, SetBackStays DEF EntryHolds
<1> QED BY <1>1, <1>2, <1>3, <1>4 DEF EntryHolds

LEMMA WorkerStays ==
  ASSUME AlertShapes, PostingsInTime, HistoryGrows, NEW k \in Workings, WorkerHolds(k)
  PROVE  WorkerHolds(k)'
<1>0. /\ k.base \in Nat /\ k.stamp \in Nat /\ k.staged \subseteq Entries
      /\ \A s \in Searches : k.seen[s] \in Nat
  BY DEF Workings
<1>1. k.base <= Len(log) /\ k.base <= Len(log')
  BY <1>0 DEF WorkerHolds, HistoryGrows, AlertShapes
<1>2. \A s \in Searches : DateHolds(s, k.seen[s], k.base)'
  BY <1>0, <1>1, DateStays DEF WorkerHolds
<1>3. ASSUME k.hand # NoHand
      PROVE  k.hand \in k.left /\ k.stamp <= now' /\ \A i \in 1..k.base : \A e \in log'[i] : e.stamp <= k.stamp
  <2>1. /\ k.hand \in k.left /\ k.stamp <= now
        /\ \A i \in 1..k.base : \A e \in log[i] : e.stamp <= k.stamp
    BY <1>3 DEF WorkerHolds
  <2>2. \A i \in 1..k.base : log'[i] = log[i]
    BY <1>0, <1>1 DEF HistoryGrows, AlertShapes
  <2>3. now \in Nat /\ now' \in Nat /\ now <= now'
    BY DEF HistoryGrows, AlertShapes
  <2> QED BY <1>0, <2>1, <2>2, <2>3
<1>4. \A f \in k.staged : EntryHolds(k, f)'
  BY <1>0, <1>1, EntryStays DEF WorkerHolds
<1>5. \A f, g \in k.staged : f.search = g.search => f = g
  BY DEF WorkerHolds
<1> QED BY <1>1, <1>2, <1>3, <1>4, <1>5 DEF WorkerHolds

\* Only one worker moves.
LEMMA WorkersMove ==
  ASSUME AlertInv, HistoryGrows, NEW w \in Workers, NEW q \in Workings,
         worker' = [worker EXCEPT ![w] = q], WorkerHolds(q)'
  PROVE  worker' \in [Workers -> Workings] /\ \A v \in Workers : WorkerHolds(worker[v])'
<1>1. worker \in [Workers -> Workings]
  BY DEF AlertInv, AlertShapes
<1>2. worker' \in [Workers -> Workings]
  BY <1>1
<1>3. ASSUME NEW v \in Workers PROVE WorkerHolds(worker[v])'
  <2>1. CASE v = w
    <3>1. worker'[v] = q
      BY <1>1, <2>1
    <3> QED BY <3>1
  <2>2. CASE v # w
    <3>1. worker'[v] = worker[v] /\ worker[v] \in Workings /\ WorkerHolds(worker[v])
      BY <1>1, <2>2 DEF AlertInv
    <3>2. PICK k \in Workings : k = worker[v]
      BY <3>1
    <3>3. WorkerHolds(k)'
      BY <3>1, <3>2, WorkerStays DEF AlertInv
    <3> QED BY <3>1, <3>2, <3>3
  <2> QED BY <2>1, <2>2
<1> QED BY <1>2, <1>3

\* While nothing is committed, the log and the dates go on to hold.
LEMMA LogStays ==
  ASSUME AlertInv, HistoryGrows, log' = log
  PROVE  LogInTime' /\ RepeatsExplained'
<1>1. /\ \A i \in DOMAIN log : log[i] \subseteq Entries
      /\ \A e \in Entries : e.stamp \in Nat /\ e.jobs \subseteq Postings
  BY DEF AlertInv, AlertShapes, Entries
<1>2. ASSUME NEW i \in DOMAIN log, NEW e \in log[i], NEW p \in e.jobs
      PROVE  p \in Postings /\ Visible(p) /\ Visible(p)' /\ posting'[p].at = posting[p].at
  BY <1>1, <1>2, PostingsMove DEF AlertInv, LogInTime
<1>3. LogInTime'
  BY <1>1, <1>2 DEF AlertInv, AlertShapes, LogInTime, HistoryGrows
<1>4. RepeatsExplained'
  <2>1. SUFFICES ASSUME NEW j \in DOMAIN log, NEW i \in 1..(j - 1), NEW f \in log[j],
                        NEW e \in log[i], NEW p \in e.jobs \cap f.jobs, e.search = f.search
                 PROVE  \/ f.base < i \/ posting'[p].at > e.stamp
                        \/ \E k \in (i + 1)..f.base : \E g \in log[k] :
                               g.search = e.search /\ (g.stamp = None \/ g.base < i)
    BY DEF RepeatsExplained
  <2>2. posting'[p].at = posting[p].at
    BY <1>2
  <2> QED BY <2>1, <2>2 DEF AlertInv, RepeatsExplained
<1> QED BY <1>3, <1>4

LEMMA DatesStay ==
  ASSUME AlertInv, HistoryGrows, log' = log,
         \A s \in Searches : search'[s].checked = search[s].checked
  PROVE  \A s \in Searches : DateHolds(s, search[s].checked, Len(log))'
<1> SUFFICES ASSUME NEW s \in Searches PROVE DateHolds(s, search[s].checked, Len(log))'
  OBVIOUS
<1>1. PICK date \in Nat : date = search[s].checked
  BY DEF AlertInv, AlertShapes, SearchRow
<1>2. PICK b \in Nat : b = Len(log)
  BY DEF AlertInv, AlertShapes
<1>3. DateHolds(s, date, b)'
  BY <1>1, <1>2, DateStays DEF AlertInv
<1> QED BY <1>1, <1>2, <1>3

LEMMA WorkersStay ==
  ASSUME AlertInv, HistoryGrows, worker' = worker
  PROVE  worker' \in [Workers -> Workings] /\ \A v \in Workers : WorkerHolds(worker[v])'
<1>1. worker \in [Workers -> Workings]
  BY DEF AlertInv, AlertShapes
<1>2. ASSUME NEW v \in Workers PROVE WorkerHolds(worker[v])'
  <2>1. PICK k \in Workings : k = worker[v]
    BY <1>1
  <2>2. WorkerHolds(k)'
    BY <2>1, WorkerStays DEF AlertInv
  <2> QED BY <2>1, <2>2
<1> QED BY <1>1, <1>2

\* Who has done nothing yet, or has ended, holds nothing.
LEMMA RestingHolds ==
  ASSUME now \in Nat, posting \in [Postings -> PostingRow], log \in Seq(SUBSET Entries),
         PostingsInTime, NEW k \in {Resting, [Resting EXCEPT !.at = "done"]}
  PROVE  k \in Workings /\ WorkerHolds(k)
<1>1. /\ k.left = {} /\ k.seen = [s \in Searches |-> 0] /\ k.hand = NoHand /\ k.stamp = 0
      /\ k.staged = {} /\ k.base = 0 /\ k.at \in {"idle", "done"}
      /\ k = [at |-> k.at, left |-> k.left, seen |-> k.seen, hand |-> k.hand,
              stamp |-> k.stamp, staged |-> k.staged, base |-> k.base]
  BY DEF Resting, None
<1>2. k \in Workings
  BY <1>1 DEF Workings
<1>3. ASSUME NEW p \in Postings, There(p) PROVE posting[p].at \in Nat /\ posting[p].at > 0
  BY <1>3 DEF PostingsInTime, PostingRow
<1>4. ASSUME NEW s \in Searches PROVE DateHolds(s, k.seen[s], k.base)
  BY <1>1, <1>3 DEF DateHolds
<1>5. k.base <= Len(log)
  BY <1>1
<1> QED BY <1>1, <1>2, <1>4, <1>5 DEF WorkerHolds

LEMMA AlertsStart == SearchesInit => AlertInv
<1> SUFFICES ASSUME SearchesInit PROVE AlertInv
  OBVIOUS
<1>1. /\ now = 0 /\ posting = [p \in Postings |-> [state |-> "none", at |-> 0, fits |-> {}]]
      /\ worker = [w \in Workers |-> Resting] /\ log = <<>>
      /\ search \in [Searches -> [exists : {TRUE}, enabled : {TRUE}, readable : BOOLEAN,
                                  checked : {None}]]
  BY DEF SearchesInit
<1>2. now \in Nat /\ posting \in [Postings -> PostingRow] /\ log \in Seq(SUBSET Entries)
  BY <1>1 DEF PostingRow
<1>3. search \in [Searches -> SearchRow] /\ \A s \in Searches : search[s].checked = 0
  <2> DEFINE Fresh == [exists : {TRUE}, enabled : {TRUE}, readable : BOOLEAN, checked : {None}]
  <2>1. ASSUME NEW t \in Fresh PROVE t \in SearchRow /\ t.checked = 0
    <3>1. t = [exists |-> TRUE, enabled |-> TRUE, readable |-> t.readable, checked |-> 0]
      BY Zenon DEF None
    <3>2. t.readable \in BOOLEAN
      OBVIOUS
    <3>3. [exists |-> TRUE, enabled |-> TRUE, readable |-> t.readable, checked |-> 0] \in SearchRow
      BY <3>2 DEF SearchRow
    <3> QED BY <3>1, <3>3, Zenon DEF None
  <2>2. search \in [Searches -> Fresh]
    BY <1>1
  <2> HIDE DEF Fresh, SearchRow
  <2> QED BY <2>1, <2>2
<1>4. PostingsInTime /\ LogInTime /\ RepeatsExplained
  BY <1>1 DEF PostingsInTime, LogInTime, RepeatsExplained, There
<1>5. Resting \in Workings /\ WorkerHolds(Resting)
  BY <1>2, <1>4, RestingHolds
<1>6. \A s \in Searches : DateHolds(s, search[s].checked, Len(log))
  BY <1>1, <1>3 DEF DateHolds, There
<1>7. worker \in [Workers -> Workings] /\ \A w \in Workers : worker[w] = Resting
  BY <1>1, <1>5
<1> QED BY <1>2, <1>3, <1>4, <1>5, <1>6, <1>7 DEF AlertInv, AlertShapes

LEMMA NothingGrows ==
  ASSUME AlertInv, UNCHANGED <<now, posting, log>>
  PROVE  HistoryGrows /\ PostingsInTime'
BY DEF AlertInv, AlertShapes, HistoryGrows, PostingsInTime, There

LEMMA TimeGrows ==
  ASSUME AlertInv, now' = now + 1, UNCHANGED <<posting, log>>
  PROVE  HistoryGrows /\ PostingsInTime'
<1>1. \A p \in Postings : posting[p].at \in Nat
  BY DEF AlertInv, AlertShapes, PostingRow
<1> QED BY <1>1 DEF AlertInv, AlertShapes, HistoryGrows, PostingsInTime, There

\* A worker that ends.
LEMMA EndKeeps ==
  ASSUME AlertInv, HistoryGrows, NEW w \in Workers, End(w)
  PROVE  worker' \in [Workers -> Workings] /\ \A v \in Workers : WorkerHolds(worker[v])'
<1>1. PICK q : q = [Resting EXCEPT !.at = "done"]
  OBVIOUS
<1>2. q \in Workings /\ WorkerHolds(q)
  BY <1>1, RestingHolds DEF AlertInv, AlertShapes
<1>3. WorkerHolds(q)'
  BY <1>2, WorkerStays DEF AlertInv
<1> QED BY <1>1, <1>2, <1>3, WorkersMove DEF End

LEMMA LoadKeeps ==
  ASSUME AlertInv, NEW w \in Workers, NEW S \in SUBSET Searches, Load(w, S)
  PROVE  AlertInv'
<1> DEFINE at == IF S = {} THEN "done" ELSE "running"
           now0 == [s \in Searches |-> search[s].checked]
<1>1. PICK q : q = [Resting EXCEPT !.at = at, !.left = S, !.seen = now0, !.base = Len(log)]
  OBVIOUS
<1>2. worker' = [worker EXCEPT ![w] = q] /\ UNCHANGED <<now, posting, search, log, events>>
  BY <1>1 DEF Load
<1>3. q = [at |-> at, left |-> S, seen |-> now0, hand |-> NoHand, stamp |-> None,
           staged |-> {}, base |-> Len(log)]
  BY <1>1 DEF Resting
<1>4. \A s \in Searches : search[s].checked \in Nat /\ Len(log) \in Nat
  BY DEF AlertInv, AlertShapes, SearchRow
<1>5. /\ q.left = S /\ q.hand = NoHand /\ q.staged = {} /\ q.base = Len(log)
      /\ \A s \in Searches : q.seen[s] = search[s].checked
  BY <1>3
<1>6. q \in Workings
  <2>1. at \in {"idle", "running", "done"} /\ now0 \in [Searches -> Nat] /\ Len(log) \in Nat
    BY <1>4 DEF AlertInv, AlertShapes
  <2> HIDE DEF at, now0
  <2> QED BY <1>3, <2>1 DEF Workings, None
<1>7. WorkerHolds(q)
  BY <1>4, <1>5 DEF WorkerHolds, AlertInv, AlertShapes
<1>8. HistoryGrows /\ PostingsInTime'
  BY <1>2, NothingGrows
<1>9. WorkerHolds(q)'
  BY <1>6, <1>7, <1>8, WorkerStays DEF AlertInv
<1>10. worker' \in [Workers -> Workings] /\ \A v \in Workers : WorkerHolds(worker[v])'
  BY <1>2, <1>6, <1>8, <1>9, WorkersMove
<1>11. LogInTime' /\ RepeatsExplained' /\ \A s \in Searches : DateHolds(s, search[s].checked, Len(log))'
  BY <1>2, <1>8, LogStays, DatesStay
<1> QED BY <1>2, <1>8, <1>10, <1>11 DEF AlertInv, AlertShapes

LEMMA StampKeeps ==
  ASSUME AlertInv, NEW w \in Workers, NEW s \in Searches, Stamp(w, s)
  PROVE  AlertInv'
<1>1. PICK k : k = worker[w]
  OBVIOUS
<1>2. /\ s \in k.left /\ now' = now + 1 /\ UNCHANGED <<posting, search, log, events>>
      /\ worker' = [worker EXCEPT ![w] = [k EXCEPT !.hand = s, !.stamp = now']]
  BY <1>1 DEF Stamp, Tick
<1>3. PICK q : q = [k EXCEPT !.hand = s, !.stamp = now']
  OBVIOUS
<1>4. k \in Workings /\ WorkerHolds(k) /\ now \in Nat /\ now' \in Nat
  BY <1>1, <1>2 DEF AlertInv, AlertShapes
<1>5. q = [at |-> k.at, left |-> k.left, seen |-> k.seen, hand |-> s, stamp |-> now',
           staged |-> k.staged, base |-> k.base]
  BY <1>3, <1>4, Zenon DEF Workings
<1>6. /\ q.left = k.left /\ q.seen = k.seen /\ q.hand = s /\ q.stamp = now'
      /\ q.staged = k.staged /\ q.base = k.base
  BY <1>5
<1>7. q \in Workings
  BY <1>4, <1>5 DEF Workings
<1>8. HistoryGrows /\ PostingsInTime'
  BY <1>2, TimeGrows
<1>9. WorkerHolds(k)'
  BY <1>4, <1>8, WorkerStays DEF AlertInv
<1>10. WorkerHolds(q)'
  <2>1. \A i \in 1..k.base : \A e \in log[i] : e.stamp <= now
    <3>1. k.base \in Nat /\ k.base <= Len(log) /\ Len(log) \in Nat /\ DOMAIN log = 1..Len(log)
      BY <1>4 DEF WorkerHolds, Workings, AlertInv, AlertShapes
    <3> QED BY <3>1 DEF AlertInv, LogInTime
  <2>2. \A i \in 1..k.base : \A e \in log[i] : e.stamp <= now'
    <3>1. \A i \in 1..k.base : \A e \in log[i] : e.stamp \in Nat
      <4>1. k.base \in Nat /\ k.base <= Len(log) /\ log \in Seq(SUBSET Entries)
        BY <1>4 DEF WorkerHolds, Workings, AlertInv, AlertShapes
      <4>2. \A i \in 1..k.base : log[i] \subseteq Entries
        BY <4>1
      <4> QED BY <4>2 DEF Entries
    <3> QED BY <1>2, <1>4, <2>1, <3>1
  <2>3. \A f \in k.staged : EntryHolds(q, f)'
    BY <1>6, <1>9 DEF WorkerHolds, EntryHolds
  <2> QED BY <1>2, <1>4, <1>6, <1>9, <2>2, <2>3 DEF WorkerHolds
<1>11. worker' \in [Workers -> Workings] /\ \A v \in Workers : WorkerHolds(worker[v])'
  BY <1>2, <1>3, <1>7, <1>8, <1>10, WorkersMove
<1>12. /\ LogInTime' /\ RepeatsExplained'
       /\ \A t \in Searches : DateHolds(t, search[t].checked, Len(log))'
  BY <1>2, <1>8, LogStays, DatesStay
<1> QED BY <1>2, <1>4, <1>8, <1>11, <1>12 DEF AlertInv, AlertShapes

\* A check that is done with a search leaves an entry for the commit.
LEMMA StageKeeps ==
  ASSUME AlertInv, HistoryGrows, PostingsInTime', NEW w \in Workers, NEW f \in Entries,
         f.search \in worker[w].left, f.base = worker[w].base,
         Stage(w, f.search, f.stamp, f.jobs, f.lost), UNCHANGED <<search, log>>,
         f.stamp <= now', \A p \in f.jobs : Visible(p)',
         \A p \in Postings : There(p)' /\ posting'[p].at <= f.stamp =>
             p \in f.jobs \cup f.lost \/ Accounted(f.search, p)',
         \A i \in 1..f.base : \A e \in log[i] :
             /\ e.stamp <= f.stamp
             /\ \A p \in e.jobs \cap f.jobs : e.search = f.search =>
                    posting'[p].at > e.stamp \/ SetBack(f.search, i, f.base)'
  PROVE  AlertInv'
<1>1. PICK k : k = worker[w]
  OBVIOUS
<1>2. k \in Workings /\ WorkerHolds(k) /\ f.search \in k.left /\ f.base = k.base
  BY <1>1 DEF AlertInv, AlertShapes
<1>3. PICK q : q = [k EXCEPT !.hand = NoHand, !.left = k.left \ {f.search},
                             !.staged = k.staged \cup {f}]
  OBVIOUS
<1>4. f = Entry(f.search, f.stamp, f.jobs, f.lost, f.base)
  BY Zenon DEF Entries, Entry
<1>5. worker' = [worker EXCEPT ![w] = q]
  BY <1>1, <1>2, <1>3, <1>4 DEF Stage
<1>6. q = [at |-> k.at, left |-> k.left \ {f.search}, seen |-> k.seen, hand |-> NoHand,
           stamp |-> k.stamp, staged |-> k.staged \cup {f}, base |-> k.base]
  BY <1>2, <1>3, Zenon DEF Workings
<1>7. /\ q.left = k.left \ {f.search} /\ q.seen = k.seen /\ q.hand = NoHand
      /\ q.staged = k.staged \cup {f} /\ q.base = k.base
  BY <1>6
<1>8. q \in Workings
  <2>1. /\ k.left \ {f.search} \in SUBSET Searches /\ k.staged \cup {f} \in SUBSET Entries
        /\ k.at \in {"idle", "running", "done"} /\ k.seen \in [Searches -> Nat]
        /\ k.stamp \in Nat /\ k.base \in Nat
    BY <1>2 DEF Workings
  <2> HIDE DEF Entries
  <2> QED BY <1>6, <2>1 DEF Workings
<1>9. WorkerHolds(k)'
  BY <1>2, WorkerStays DEF AlertInv
<1>10. WorkerHolds(q)'
  <2>1. EntryHolds(q, f)'
    BY <1>2, <1>7 DEF EntryHolds
  <2>2. \A g \in k.staged : EntryHolds(q, g)'
    BY <1>7, <1>9 DEF WorkerHolds, EntryHolds
  <2>3. \A g \in k.staged : g.search # f.search
    BY <1>2 DEF WorkerHolds, EntryHolds
  <2> QED BY <1>7, <1>9, <2>1, <2>2, <2>3 DEF WorkerHolds
<1>11. worker' \in [Workers -> Workings] /\ \A v \in Workers : WorkerHolds(worker[v])'
  BY <1>5, <1>8, <1>10, WorkersMove
<1>12. /\ LogInTime' /\ RepeatsExplained'
       /\ \A t \in Searches : DateHolds(t, search[t].checked, Len(log))'
  BY LogStays, DatesStay
<1>13. search' \in [Searches -> SearchRow]
  BY DEF AlertInv, AlertShapes
<1> QED BY <1>11, <1>12, <1>13 DEF AlertInv, AlertShapes, HistoryGrows

LEMMA QueryKeeps ==
  ASSUME AlertInv, NEW w \in Workers, NEW s \in Searches, NEW J \in SUBSET Postings,
         Query(w, s, J)
  PROVE  AlertInv'
<1>1. PICK k : k = worker[w]
  OBVIOUS
<1>2. /\ k.hand = s /\ J \subseteq New(w, s) /\ Stage(w, s, k.stamp, J, Lost(w, s, k.stamp, J))
      /\ UNCHANGED <<now, posting, search, log, events>>
  BY <1>1 DEF Query, IsNewest
<1>3. k \in Workings /\ WorkerHolds(k) /\ k.base \in Nat /\ k.stamp \in Nat
  BY <1>1 DEF AlertInv, AlertShapes, Workings
<1>4. /\ s \in k.left /\ k.stamp <= now
      /\ \A i \in 1..k.base : \A e \in log[i] : e.stamp <= k.stamp
  <2>1. s # NoHand
    BY SearchesAssumption DEF SearchesAssumption
  <2> QED BY <1>2, <1>3, <2>1 DEF WorkerHolds
<1>5. DateHolds(s, k.seen[s], k.base) /\ k.seen[s] \in Nat
  BY <1>3 DEF WorkerHolds, Workings
<1>6. PICK f : f = Entry(s, k.stamp, J, Lost(w, s, k.stamp, J), k.base)
  OBVIOUS
<1>7. /\ f.search = s /\ f.stamp = k.stamp /\ f.jobs = J /\ f.base = k.base
      /\ f.lost = Lost(w, s, k.stamp, J)
  BY <1>6 DEF Entry
<1>8. f \in Entries
  <2>1. Lost(w, s, k.stamp, J) \in SUBSET Postings
    BY DEF Lost
  <2> QED BY <1>3, <1>6, <2>1 DEF Entry, Entries
<1>9. HistoryGrows /\ PostingsInTime'
  BY <1>2, NothingGrows
<1>10. ASSUME NEW p \in J PROVE p \in Postings /\ Visible(p) /\ posting[p].at > k.seen[s]
  BY <1>1, <1>2, <1>10 DEF New
<1>11. ASSUME NEW p \in Postings, There(p), posting[p].at <= k.stamp
       PROVE  p \in J \/ p \in f.lost \/ Accounted(s, p)
  <2>1. posting[p].at \in Nat /\ (posting[p].state = "written" \/ Visible(p))
    BY <1>11 DEF AlertInv, AlertShapes, PostingRow, There, Visible
  <2>2. CASE posting[p].state = "written"
    BY <1>7, <1>11, <2>2 DEF Lost
  <2>3. CASE Visible(p) /\ posting[p].at > k.seen[s]
    <3>1. CASE s \in posting[p].fits
      BY <1>1, <1>7, <1>11, <2>3, <3>1 DEF Lost, New
    <3>2. CASE s \notin posting[p].fits
      BY <1>1, <1>7, <1>11, <2>3, <3>2 DEF Lost
    <3> QED BY <3>1, <3>2
  <2>4. CASE posting[p].at <= k.seen[s]
    BY <1>5, <1>11, <2>4 DEF DateHolds
  <2> QED BY <1>5, <2>1, <2>2, <2>3, <2>4
<1>12. ASSUME NEW i \in 1..k.base, NEW e \in log[i], e.search = s, NEW p \in J
       PROVE  posting[p].at > e.stamp \/ SetBack(s, i, k.base)
  <2>1. e.stamp <= k.seen[s] \/ SetBack(s, i, k.base)
    BY <1>5, <1>12 DEF DateHolds
  <2>2. posting[p].at > k.seen[s] /\ posting[p].at \in Nat
    BY <1>10, <1>12 DEF AlertInv, AlertShapes, PostingRow
  <2>3. e.stamp \in Nat
    <3>1. i \in DOMAIN log
      BY <1>3 DEF WorkerHolds, AlertInv, AlertShapes
    <3> QED BY <3>1, <1>12 DEF AlertInv, AlertShapes, Entries
  <2> QED BY <1>5, <2>1, <2>2, <2>3
<1>13. /\ \A p \in Postings : Visible(p)' = Visible(p) /\ There(p)' = There(p)
       /\ \A p \in Postings : Accounted(s, p)' = Accounted(s, p)
       /\ \A i \in 1..k.base : SetBack(s, i, k.base)' = SetBack(s, i, k.base)
  BY <1>2 DEF Visible, There, Accounted, SetBack
<1>14. /\ f.stamp <= now' /\ \A p \in f.jobs : Visible(p)'
       /\ \A p \in Postings : There(p)' /\ posting'[p].at <= f.stamp =>
             p \in f.jobs \cup f.lost \/ Accounted(f.search, p)'
  BY <1>2, <1>4, <1>7, <1>10, <1>11, <1>13
<1>15. \A i \in 1..f.base : \A e \in log[i] :
             /\ e.stamp <= f.stamp
             /\ \A p \in e.jobs \cap f.jobs : e.search = f.search =>
                    posting'[p].at > e.stamp \/ SetBack(f.search, i, f.base)'
  BY <1>2, <1>4, <1>7, <1>12, <1>13
<1>16. f.search \in worker[w].left /\ f.base = worker[w].base
       /\ Stage(w, f.search, f.stamp, f.jobs, f.lost)
  BY <1>1, <1>2, <1>4, <1>7
<1> QED BY <1>2, <1>8, <1>9, <1>14, <1>15, <1>16, StageKeeps

\* A worker ends, and nothing else happens but that time may go on.
LEMMA EndAloneKeeps ==
  ASSUME AlertInv, HistoryGrows, PostingsInTime', NEW w \in Workers, End(w),
         UNCHANGED <<posting, search, log>>
  PROVE  AlertInv'
<1>1. worker' \in [Workers -> Workings] /\ \A v \in Workers : WorkerHolds(worker[v])'
  BY EndKeeps
<1>2. /\ LogInTime' /\ RepeatsExplained'
      /\ \A t \in Searches : DateHolds(t, search[t].checked, Len(log))'
  BY LogStays, DatesStay
<1> QED BY <1>1, <1>2 DEF AlertInv, AlertShapes, HistoryGrows

LEMMA FailSearchKeeps ==
  ASSUME AlertInv, NEW w \in Workers, NEW s \in Searches, FailSearch(w, s)
  PROVE  AlertInv'
<1>1. PICK k : k = worker[w]
  OBVIOUS
<1>2. /\ s \in k.left /\ now' = now + 1 /\ UNCHANGED <<posting, search, log, events>>
  BY <1>1 DEF FailSearch, Tick
<1>3. HistoryGrows /\ PostingsInTime'
  BY <1>2, TimeGrows
<1>4. CASE End(w)
  BY <1>2, <1>3, <1>4, EndAloneKeeps
<1>5. CASE w \in Passes
  <2> DEFINE all == {p \in Postings : posting[p].state # "none"}
  <2>1. Stage(w, s, now', {}, all)
    BY <1>5 DEF FailSearch
  <2>2. k \in Workings /\ WorkerHolds(k) /\ k.base \in Nat /\ now \in Nat /\ now' \in Nat
    BY <1>1, <1>2 DEF AlertInv, AlertShapes, Workings
  <2>3. PICK f : f = Entry(s, now', {}, all, k.base)
    OBVIOUS
  <2>4. f.search = s /\ f.stamp = now' /\ f.jobs = {} /\ f.base = k.base /\ f.lost = all
    BY <2>3 DEF Entry
  <2>5. f \in Entries
    BY <2>2, <2>3 DEF Entry, Entries
  <2>6. \A i \in 1..k.base : \A e \in log[i] : e.stamp <= now'
    <3>1. \A i \in 1..k.base : i \in DOMAIN log
      BY <2>2 DEF WorkerHolds, AlertInv, AlertShapes
    <3>2. \A i \in 1..k.base : \A e \in log[i] : e.stamp \in Nat /\ e.stamp <= now
      BY <3>1 DEF AlertInv, AlertShapes, LogInTime, Entries
    <3> QED BY <1>2, <2>2, <3>2
  <2>7. \A p \in Postings : There(p)' => p \in all
    BY <1>2 DEF There
  <2>8. /\ f.stamp <= now' /\ \A p \in f.jobs : Visible(p)'
        /\ \A p \in Postings : There(p)' /\ posting'[p].at <= f.stamp =>
             p \in f.jobs \cup f.lost \/ Accounted(f.search, p)'
    BY <2>2, <2>4, <2>7
  <2>9. \A i \in 1..f.base : \A e \in log[i] :
             /\ e.stamp <= f.stamp
             /\ \A p \in e.jobs \cap f.jobs : e.search = f.search =>
                    posting'[p].at > e.stamp \/ SetBack(f.search, i, f.base)'
    BY <2>4, <2>6
  <2>10. f.search \in worker[w].left /\ f.base = worker[w].base
         /\ Stage(w, f.search, f.stamp, f.jobs, f.lost)
    BY <1>1, <1>2, <2>1, <2>4
  <2> HIDE DEF all
  <2> QED BY <1>2, <1>3, <2>5, <2>8, <2>9, <2>10, StageKeeps
<1> QED BY <1>4, <1>5 DEF FailSearch

\* What a commit adds to the log.
LEMMA LogGrows ==
  ASSUME AlertInv, NEW E \in SUBSET Entries, log' = Append(log, E), UNCHANGED <<now, posting>>
  PROVE  /\ HistoryGrows /\ PostingsInTime'
         /\ Len(log) \in Nat /\ Len(log') = Len(log) + 1 /\ log'[Len(log) + 1] = E
         /\ DOMAIN log = 1..Len(log) /\ DOMAIN log' = 1..(Len(log) + 1)
<1>1. log \in Seq(SUBSET Entries)
  BY DEF AlertInv, AlertShapes
<1> HIDE DEF Entries
<1>2. /\ log' \in Seq(SUBSET Entries) /\ Len(log) \in Nat /\ Len(log') = Len(log) + 1
      /\ \A i \in 1..Len(log) : log'[i] = log[i]
      /\ log'[Len(log) + 1] = E
      /\ DOMAIN log = 1..Len(log) /\ DOMAIN log' = 1..(Len(log) + 1)
  BY <1>1, AppendProperties
<1>3. now \in Nat /\ posting \in [Postings -> PostingRow] /\ PostingsInTime
  BY DEF AlertInv, AlertShapes
<1> QED BY <1>2, <1>3 DEF HistoryGrows, PostingsInTime, There

\* What is committed keeps the log in time, and explains what it repeats.
LEMMA CommitKeepsLog ==
  ASSUME AlertInv, NEW E \in SUBSET Entries, log' = Append(log, E), UNCHANGED <<now, posting>>,
         \A f \in E : f.stamp <= now /\ f.base <= Len(log) /\ \A p \in f.jobs : Visible(p),
         \A f \in E : \A i \in 1..Len(log) : \A e \in log[i] : \A p \in e.jobs \cap f.jobs :
             e.search = f.search =>
                 f.base < i \/ posting[p].at > e.stamp \/ SetBack(f.search, i, f.base)
  PROVE  LogInTime' /\ RepeatsExplained'
<1>1. /\ Len(log) \in Nat /\ log'[Len(log) + 1] = E
      /\ DOMAIN log = 1..Len(log) /\ DOMAIN log' = 1..(Len(log) + 1)
      /\ \A i \in 1..Len(log) : log'[i] = log[i]
  BY LogGrows DEF HistoryGrows
<1>2. LogInTime'
  <2>1. ASSUME NEW i \in DOMAIN log', NEW e \in log'[i]
        PROVE  e.stamp <= now' /\ e.base < i /\ \A p \in e.jobs : Visible(p)'
    <3>1. CASE i \in 1..Len(log)
      BY <1>1, <2>1, <3>1 DEF AlertInv, LogInTime, Visible
    <3>2. CASE i = Len(log) + 1
      <4>1. e.base \in Nat
        BY <1>1, <2>1, <3>2 DEF Entries
      <4> QED BY <1>1, <2>1, <3>2, <4>1 DEF Visible
    <3> QED BY <1>1, <3>1, <3>2
  <2> QED BY <2>1 DEF LogInTime
<1>3. RepeatsExplained'
  <2>1. SUFFICES ASSUME NEW j \in DOMAIN log', NEW i \in 1..(j - 1), NEW f \in log'[j],
                        NEW e \in log'[i], NEW p \in e.jobs \cap f.jobs, e.search = f.search
                 PROVE  \/ f.base < i \/ posting'[p].at > e.stamp
                        \/ \E k \in (i + 1)..f.base : \E g \in log'[k] :
                               g.search = e.search /\ (g.stamp = None \/ g.base < i)
    BY DEF RepeatsExplained
  <2>2. i \in 1..Len(log) /\ e \in log[i]
    BY <1>1, <2>1
  <2>3. f.base \in Nat /\ f.base <= Len(log)
    <3>1. CASE j \in 1..Len(log)
      BY <1>1, <2>1, <3>1 DEF AlertInv, AlertShapes, LogInTime, Entries
    <3>2. CASE j = Len(log) + 1
      BY <1>1, <2>1, <3>2 DEF Entries
    <3> QED BY <1>1, <2>1, <3>1, <3>2
  <2>4. f.base < i \/ posting[p].at > e.stamp \/ SetBack(f.search, i, f.base)
    <3>1. CASE j \in 1..Len(log)
      BY <1>1, <2>1, <2>2, <3>1 DEF AlertInv, RepeatsExplained, SetBack
    <3>2. CASE j = Len(log) + 1
      BY <1>1, <2>1, <2>2, <3>2
    <3> QED BY <1>1, <2>1, <3>1, <3>2
  <2>5. \A k \in (i + 1)..f.base : log'[k] = log[k]
    BY <1>1, <2>2, <2>3
  <2> QED BY <2>1, <2>4, <2>5 DEF SetBack
<1> QED BY <1>2, <1>3

\* The date of a search that the commit does not concern.
LEMMA DateCarries ==
  ASSUME AlertInv, NEW E \in SUBSET Entries, log' = Append(log, E), UNCHANGED <<now, posting>>,
         NEW s \in Searches, search'[s].checked = search[s].checked, \A g \in E : g.search # s
  PROVE  DateHolds(s, search[s].checked, Len(log))'
<1>1. PICK date \in Nat : date = search[s].checked
  BY DEF AlertInv, AlertShapes, SearchRow
<1>2. PICK b \in Nat : b = Len(log)
  BY DEF AlertInv, AlertShapes
<1>3. /\ HistoryGrows /\ PostingsInTime' /\ Len(log') = b + 1 /\ log'[b + 1] = E
  BY <1>2, LogGrows
<1>4. DateHolds(s, date, b)'
  BY <1>1, <1>2, <1>3, DateStays DEF AlertInv
<1>5. ASSUME NEW i \in 1..(b + 1), NEW e \in log'[i], e.search = s
      PROVE  e.stamp <= date \/ SetBack(s, i, b + 1)'
  <2>1. i # b + 1
    BY <1>3, <1>5
  <2>2. i \in 1..b
    BY <1>2, <2>1
  <2>3. e.stamp <= date \/ SetBack(s, i, b)'
    BY <1>4, <1>5, <2>2 DEF DateHolds
  <2>4. SetBack(s, i, b)' => SetBack(s, i, b + 1)'
    BY <1>2, <2>2 DEF SetBack
  <2> QED BY <2>3, <2>4
<1> QED BY <1>1, <1>3, <1>4, <1>5 DEF DateHolds

LEMMA DisableKeeps ==
  ASSUME AlertInv, NEW s \in Searches, Disable(s)
  PROVE  AlertInv'
<1> DEFINE E == {Entry(s, None, {}, {}, Len(log))}
<1>1. /\ log' = Append(log, E) /\ UNCHANGED <<now, posting, worker>>
      /\ search' = [search EXCEPT ![s] = [@ EXCEPT !.enabled = FALSE, !.checked = None]]
  BY DEF Disable
<1>2. Len(log) \in Nat /\ search \in [Searches -> SearchRow]
  BY DEF AlertInv, AlertShapes
<1>3. E \in SUBSET Entries
  BY <1>2 DEF Entry, Entries, None
<1>4. \A e \in E : e.search = s /\ e.stamp = 0 /\ e.jobs = {} /\ e.base = Len(log)
  BY DEF Entry, None
<1>5. /\ search' \in [Searches -> SearchRow] /\ search'[s].checked = 0
      /\ \A t \in Searches \ {s} : search'[t] = search[t]
  <2>1. PICK r : r = [search[s] EXCEPT !.enabled = FALSE, !.checked = None]
    OBVIOUS
  <2>2. search[s] \in SearchRow
    BY <1>2
  <2>3. r = [exists |-> search[s].exists, enabled |-> FALSE, readable |-> search[s].readable,
             checked |-> 0]
    BY <2>1, <2>2, Zenon DEF SearchRow, None
  <2>4. search[s].exists \in BOOLEAN /\ search[s].readable \in BOOLEAN
    BY <2>2 DEF SearchRow
  <2>5. r \in SearchRow
    BY <2>3, <2>4 DEF SearchRow
  <2>6. r.checked = 0
    BY <2>3
  <2> HIDE DEF SearchRow
  <2> QED BY <1>1, <1>2, <2>1, <2>5, <2>6
<1> HIDE DEF E
<1>6. /\ HistoryGrows /\ PostingsInTime'
      /\ Len(log') = Len(log) + 1 /\ log'[Len(log) + 1] = E
      /\ DOMAIN log = 1..Len(log) /\ DOMAIN log' = 1..(Len(log) + 1)
      /\ \A i \in 1..Len(log) : log'[i] = log[i]
  BY <1>1, <1>3, LogGrows DEF HistoryGrows
<1>7. worker' \in [Workers -> Workings] /\ \A v \in Workers : WorkerHolds(worker[v])'
  BY <1>1, <1>6, WorkersStay
<1>8. LogInTime' /\ RepeatsExplained'
  <2>1. \A f \in E : f.stamp <= now /\ f.base <= Len(log) /\ \A p \in f.jobs : Visible(p)
    BY <1>2, <1>4 DEF AlertInv, AlertShapes
  <2> QED BY <1>1, <1>3, <1>4, <2>1, CommitKeepsLog
<1>9. ASSUME NEW t \in Searches PROVE DateHolds(t, search[t].checked, Len(log))'
  <2>1. CASE t # s
    BY <1>1, <1>3, <1>4, <1>5, <2>1, DateCarries
  <2>2. CASE t = s
    <3>0. PICK n \in Nat : n = Len(log) + 1
      BY <1>2
    <3>1. \A p \in Postings : There(p)' => ~(posting'[p].at <= 0)
      BY <1>1 DEF AlertInv, AlertShapes, PostingsInTime, There, PostingRow
    <3>2. ASSUME NEW i \in 1..n, NEW e \in log'[i], e.search = s
          PROVE  e.stamp <= 0 \/ SetBack(s, i, n)'
      <4>1. CASE i = n
        BY <1>4, <1>6, <3>0, <3>2, <4>1
      <4>2. CASE i # n
        <5>1. n \in (i + 1)..n
          BY <3>0, <4>2
        <5>2. \E g \in E : g.search = s /\ g.stamp = None
          BY DEF E, Entry
        <5> QED BY <1>6, <3>0, <5>1, <5>2 DEF SetBack
      <4> QED BY <4>1, <4>2
    <3>3. 0 <= now'
      BY <1>1 DEF AlertInv, AlertShapes
    <3>4. DateHolds(s, 0, n)'
      BY <3>1, <3>2, <3>3 DEF DateHolds
    <3>5. search'[t].checked = 0 /\ Len(log') = n /\ t = s
      BY <1>5, <1>6, <2>2, <3>0
    <3> QED BY <3>4, <3>5
  <2> QED BY <2>1, <2>2
<1> QED BY <1>5, <1>6, <1>7, <1>8, <1>9 DEF AlertInv, AlertShapes, HistoryGrows

LEMMA CommitKeeps ==
  ASSUME AlertInv, NEW w \in Workers, Commit(w)
  PROVE  AlertInv'
<1>1. PICK k : k = worker[w]
  OBVIOUS
<1>2. /\ log' = Append(log, k.staged) /\ End(w) /\ UNCHANGED <<now, posting, events>>
      /\ search' = [s \in Searches |->
            [search[s] EXCEPT !.checked = IF \E e \in k.staged : e.search = s
               THEN (CHOOSE e \in k.staged : e.search = s).stamp ELSE search[s].checked]]
  BY <1>1, Zenon DEF Commit
<1>3. /\ k \in Workings /\ WorkerHolds(k) /\ k.staged \in SUBSET Entries
      /\ k.base \in Nat /\ k.base <= Len(log)
  BY <1>1 DEF AlertInv, AlertShapes, Workings, WorkerHolds
<1>4. /\ HistoryGrows /\ PostingsInTime' /\ Len(log) \in Nat
      /\ Len(log') = Len(log) + 1 /\ log'[Len(log) + 1] = k.staged
      /\ DOMAIN log = 1..Len(log) /\ DOMAIN log' = 1..(Len(log) + 1)
      /\ \A i \in 1..Len(log) : log'[i] = log[i]
  BY <1>2, <1>3, LogGrows DEF HistoryGrows
<1>5. worker' \in [Workers -> Workings] /\ \A v \in Workers : WorkerHolds(worker[v])'
  BY <1>2, <1>4, EndKeeps
<1>6. \A f \in k.staged : EntryHolds(k, f) /\ f \in Entries
  BY <1>3 DEF WorkerHolds
<1>7. LogInTime' /\ RepeatsExplained'
  <2>1. \A f \in k.staged : f.stamp <= now /\ f.base <= Len(log) /\ \A p \in f.jobs : Visible(p)
    BY <1>3, <1>6 DEF EntryHolds
  <2>2. ASSUME NEW f \in k.staged, NEW i \in 1..Len(log), NEW e \in log[i],
               NEW p \in e.jobs \cap f.jobs, e.search = f.search
        PROVE  f.base < i \/ posting[p].at > e.stamp \/ SetBack(f.search, i, f.base)
    BY <1>3, <1>4, <1>6, <2>2 DEF EntryHolds
  <2> QED BY <1>2, <1>3, <2>1, <2>2, CommitKeepsLog
<1>8. search' \in [Searches -> SearchRow]
  <2>1. ASSUME NEW s \in Searches, NEW d \in Nat, NEW r, r = [search[s] EXCEPT !.checked = d]
        PROVE  r \in SearchRow
    <3>1. search[s] \in SearchRow
      BY DEF AlertInv, AlertShapes
    <3>2. r = [exists |-> search[s].exists, enabled |-> search[s].enabled,
               readable |-> search[s].readable, checked |-> d]
      BY <2>1, <3>1, Zenon DEF SearchRow
    <3>3. /\ search[s].exists \in BOOLEAN /\ search[s].enabled \in BOOLEAN
          /\ search[s].readable \in BOOLEAN
      BY <3>1 DEF SearchRow
    <3> QED BY <3>2, <3>3 DEF SearchRow
  <2>2. ASSUME NEW s \in Searches
        PROVE  (IF \E e \in k.staged : e.search = s
                THEN (CHOOSE e \in k.staged : e.search = s).stamp ELSE search[s].checked) \in Nat
    <3>1. search[s].checked \in Nat
      BY DEF AlertInv, AlertShapes, SearchRow
    <3>2. \A e \in k.staged : e.stamp \in Nat
      BY <1>6 DEF Entries
    <3> QED BY <3>1, <3>2
  <2> HIDE DEF SearchRow
  <2> QED BY <1>2, <2>1, <2>2
<1>9. ASSUME NEW s \in Searches PROVE DateHolds(s, search[s].checked, Len(log))'
  <2>0. search[s] \in SearchRow
    BY DEF AlertInv, AlertShapes
  <2>1. CASE ~\E e \in k.staged : e.search = s
    <3>1. search'[s] = [search[s] EXCEPT !.checked = search[s].checked]
      BY <1>2, <2>1
    <3>2. search'[s].checked = search[s].checked
      BY <2>0, <3>1 DEF SearchRow
    <3> QED BY <1>2, <1>3, <2>1, <3>2, DateCarries
  <2>2. CASE \E e \in k.staged : e.search = s
    <3>1. PICK g \in k.staged : g.search = s /\ g = CHOOSE e \in k.staged : e.search = s
      BY <2>2
    <3>2. search'[s] = [search[s] EXCEPT !.checked = g.stamp]
      BY <1>2, <2>2, <3>1
    <3>3. search'[s].checked = g.stamp
      BY <2>0, <3>2 DEF SearchRow
    <3>4. PICK n \in Nat : n = Len(log) + 1
      BY <1>4
    <3>5. EntryHolds(k, g) /\ g \in Entries /\ g.base = k.base /\ g.stamp \in Nat
      BY <1>6, <3>1 DEF EntryHolds, Entries
    <3>6. g.stamp <= now'
      BY <1>2, <3>5 DEF EntryHolds
    <3>7. ASSUME NEW p \in Postings, There(p)', posting'[p].at <= g.stamp
          PROVE  Accounted(s, p)'
      <4>1. There(p) /\ posting[p].at <= g.stamp
        BY <1>2, <3>7 DEF There
      <4>2. CASE p \in g.jobs \cup g.lost
        <5>1. n \in DOMAIN log' /\ g \in log'[n]
          BY <1>4, <3>1, <3>4
        <5> QED BY <3>1, <4>2, <5>1 DEF Accounted
      <4>3. CASE Accounted(s, p)
        BY <1>4, <4>3, AccountedStays DEF AlertInv
      <4> QED BY <3>1, <3>5, <4>1, <4>2, <4>3 DEF EntryHolds
    <3>8. ASSUME NEW i \in 1..n, NEW e \in log'[i], e.search = s
          PROVE  e.stamp <= g.stamp \/ SetBack(s, i, n)'
      <4>1. CASE i = n
        <5>1. e \in k.staged
          BY <1>4, <3>4, <3>8, <4>1
        <5>2. e = g
          BY <1>3, <3>1, <3>8, <5>1 DEF WorkerHolds
        <5> QED BY <3>5, <5>2
      <4>2. CASE i \in 1..k.base
        BY <1>3, <1>4, <3>5, <3>8, <4>2 DEF EntryHolds
      <4>3. CASE i # n /\ i > k.base
        <5>1. n \in (i + 1)..n
          BY <3>4, <4>3
        <5>2. g \in log'[n] /\ g.search = s /\ g.base < i
          BY <1>4, <3>1, <3>4, <3>5, <4>3
        <5> QED BY <5>1, <5>2 DEF SetBack
      <4> QED BY <1>3, <4>1, <4>2, <4>3
    <3>9. DateHolds(s, g.stamp, n)'
      BY <3>6, <3>7, <3>8 DEF DateHolds
    <3>10. search'[s].checked = g.stamp /\ Len(log') = n
      BY <1>4, <3>3, <3>4
    <3> QED BY <3>9, <3>10
  <2> QED BY <2>1, <2>2
<1> QED BY <1>4, <1>5, <1>7, <1>8, <1>9 DEF AlertInv, AlertShapes, HistoryGrows

LEMMA PostingKeeps ==
  ASSUME AlertInv, NEW p \in Postings, NEW F \in SUBSET Searches,
         Write(p, F) \/ Store(p) \/ Change(p, F)
  PROVE  AlertInv'
<1>0. now \in Nat /\ posting \in [Postings -> PostingRow]
  BY DEF AlertInv, AlertShapes
<1>1. HistoryGrows /\ PostingsInTime' /\ UNCHANGED <<search, worker, log>>
  <2>1. CASE Write(p, F)
    <3>1. PICK r : r = [state |-> "written", at |-> now + 1, fits |-> F]
      OBVIOUS
    <3>2. /\ ~There(p) /\ now' = now + 1 /\ UNCHANGED <<search, worker, log>>
          /\ posting' = [posting EXCEPT ![p] = r]
      BY <2>1, <3>1 DEF Write, Tick, There
    <3>3. r \in PostingRow /\ r.at = now + 1 /\ r.state = "written"
      BY <1>0, <3>1 DEF PostingRow
    <3>4. /\ posting' \in [Postings -> PostingRow] /\ posting'[p] = r
          /\ \A u \in Postings \ {p} : posting'[u] = posting[u]
      BY <1>0, <3>2, <3>3
    <3>5. HistoryGrows
      BY <1>0, <3>2, <3>3, <3>4 DEF AlertInv, AlertShapes, HistoryGrows, There
    <3>6. \A u \in Postings : posting[u].at \in Nat
      BY <1>0 DEF PostingRow
    <3>7. PostingsInTime'
      BY <1>0, <3>2, <3>3, <3>4, <3>6 DEF AlertInv, PostingsInTime, There
    <3> QED BY <3>2, <3>5, <3>7
  <2>2. CASE Store(p)
    <3>1. PICK r : r = [posting[p] EXCEPT !.state = "stored"]
      OBVIOUS
    <3>2. /\ posting[p].state = "written" /\ UNCHANGED <<now, search, worker, log>>
          /\ posting' = [posting EXCEPT ![p] = r]
      BY <2>2, <3>1 DEF Store
    <3>3. r \in PostingRow /\ r.at = posting[p].at /\ r.state = "stored"
      BY <1>0, <3>1 DEF PostingRow
    <3>4. /\ posting' \in [Postings -> PostingRow] /\ posting'[p] = r
          /\ \A u \in Postings \ {p} : posting'[u] = posting[u]
      BY <1>0, <3>2, <3>3
    <3>5. HistoryGrows
      BY <1>0, <3>2, <3>3, <3>4 DEF AlertInv, AlertShapes, HistoryGrows, There, Visible
    <3>6. PostingsInTime'
      BY <1>0, <3>2, <3>3, <3>4 DEF AlertInv, PostingsInTime, There
    <3> QED BY <3>2, <3>5, <3>6
  <2>3. CASE Change(p, F)
    <3>1. PICK r : r = [posting[p] EXCEPT !.fits = F]
      OBVIOUS
    <3>2. /\ posting[p].state = "stored" /\ UNCHANGED <<now, search, worker, log>>
          /\ posting' = [posting EXCEPT ![p] = r]
      BY <2>3, <3>1 DEF Change
    <3>3. r \in PostingRow /\ r.at = posting[p].at /\ r.state = "stored"
      BY <1>0, <3>1, <3>2 DEF PostingRow
    <3>4. /\ posting' \in [Postings -> PostingRow] /\ posting'[p] = r
          /\ \A u \in Postings \ {p} : posting'[u] = posting[u]
      BY <1>0, <3>2, <3>3
    <3>5. HistoryGrows
      BY <1>0, <3>2, <3>3, <3>4 DEF AlertInv, AlertShapes, HistoryGrows, There, Visible
    <3>6. PostingsInTime'
      BY <1>0, <3>2, <3>3, <3>4 DEF AlertInv, PostingsInTime, There
    <3> QED BY <3>2, <3>5, <3>6
  <2> QED BY <2>1, <2>2, <2>3
<1>2. worker' \in [Workers -> Workings] /\ \A v \in Workers : WorkerHolds(worker[v])'
  BY <1>1, WorkersStay
<1>3. /\ LogInTime' /\ RepeatsExplained'
      /\ \A t \in Searches : DateHolds(t, search[t].checked, Len(log))'
  BY <1>1, LogStays, DatesStay
<1> QED BY <1>1, <1>2, <1>3 DEF AlertInv, AlertShapes, HistoryGrows

\* The user switches a search on, or deletes it.
LEMMA SearchKeeps ==
  ASSUME AlertInv, NEW s \in Searches, Enable(s) \/ DeleteSearch(s)
  PROVE  AlertInv'
<1>0. search \in [Searches -> SearchRow]
  BY DEF AlertInv, AlertShapes
<1>1. PICK r : /\ r \in {[search[s] EXCEPT !.enabled = TRUE], [search[s] EXCEPT !.exists = FALSE]}
               /\ search' = [search EXCEPT ![s] = r]
  BY DEF Enable, DeleteSearch
<1>2. UNCHANGED <<now, posting, worker, log>>
  BY DEF Enable, DeleteSearch
<1>3. r \in SearchRow /\ r.checked = search[s].checked
  BY <1>0, <1>1 DEF SearchRow
<1>4. /\ search' \in [Searches -> SearchRow]
      /\ \A t \in Searches : search'[t].checked = search[t].checked
  <2> HIDE DEF SearchRow
  <2> QED BY <1>0, <1>1, <1>3
<1>5. HistoryGrows /\ PostingsInTime'
  BY <1>2, NothingGrows
<1>6. worker' \in [Workers -> Workings] /\ \A v \in Workers : WorkerHolds(worker[v])'
  BY <1>2, <1>5, WorkersStay
<1>7. /\ LogInTime' /\ RepeatsExplained'
      /\ \A t \in Searches : DateHolds(t, search[t].checked, Len(log))'
  BY <1>2, <1>4, <1>5, LogStays, DatesStay
<1> QED BY <1>4, <1>5, <1>6, <1>7 DEF AlertInv, AlertShapes, HistoryGrows

LEMMA AlertStep == AlertInv /\ [SearchesNext]_searchVars => AlertInv'
<1> SUFFICES ASSUME AlertInv, [SearchesNext]_searchVars PROVE AlertInv'
  OBVIOUS
<1>1. CASE UNCHANGED searchVars
  <2>1. UNCHANGED <<now, posting, search, worker, log>>
    BY <1>1 DEF searchVars
  <2>2. HistoryGrows /\ PostingsInTime'
    BY <2>1, NothingGrows
  <2>3. worker' \in [Workers -> Workings] /\ \A v \in Workers : WorkerHolds(worker[v])'
    BY <2>1, <2>2, WorkersStay
  <2>4. /\ LogInTime' /\ RepeatsExplained'
        /\ \A t \in Searches : DateHolds(t, search[t].checked, Len(log))'
    BY <2>1, <2>2, LogStays, DatesStay
  <2> QED BY <2>1, <2>2, <2>3, <2>4 DEF AlertInv, AlertShapes
<1>2. ASSUME NEW w \in Workers, BeginPass(w)
      PROVE  AlertInv'
  <2>1. {s \in Searches : search[s].exists /\ search[s].enabled} \in SUBSET Searches
    OBVIOUS
  <2> QED BY <1>2, <2>1, LoadKeeps DEF BeginPass
<1>3. ASSUME NEW w \in Workers, FlushFails(w) \/ DieChecking(w)
      PROVE  AlertInv'
  <2>1. End(w) /\ UNCHANGED <<now, posting, search, log>>
    BY <1>3 DEF FlushFails, DieChecking
  <2> QED BY <2>1, NothingGrows, EndAloneKeeps
<1>4. ASSUME NEW w \in Workers, NEW s \in Searches, BeginCheck(w, s)
      PROVE  AlertInv'
  BY <1>4, LoadKeeps DEF BeginCheck
<1> QED BY <1>1, <1>2, <1>3, <1>4, CommitKeeps, StampKeeps, FailSearchKeeps, QueryKeeps,
           PostingKeeps, DisableKeeps, SearchKeeps DEF SearchesNext

\* No crash, overlap, deletion or reset loses an alert or repeats one, but for what the
\* property names: postings that were still open, beyond the limit or no match when a committed
\* check looked, and dates set back by overlapping checks or by the user.
THEOREM AlertsAreExplained == SearchesSpec => []AlertsExplained
<1>1. AlertInv => AlertsExplained
  <2> SUFFICES ASSUME AlertInv PROVE AlertsAccountedFor
    BY DEF AlertInv, AlertsExplained
  <2>1. ASSUME NEW s \in Searches, NEW p \in Postings, Visible(p), posting[p].at <= search[s].checked
        PROVE  \E e \in Committed(s) : p \in e.jobs \cup e.lost
    <3>1. Accounted(s, p)
      BY <2>1 DEF AlertInv, DateHolds, There, Visible
    <3>0. PICK i \in DOMAIN log : \E e \in log[i] : e.search = s /\ p \in e.jobs \cup e.lost
      BY <3>1 DEF Accounted
    <3>2. PICK e \in log[i] : e.search = s /\ p \in e.jobs \cup e.lost
      BY <3>0
    <3>3. e \in Committed(s)
      BY <3>2 DEF Committed
    <3> QED BY <3>2, <3>3
  <2> QED BY <2>1 DEF AlertsAccountedFor
<1> QED BY <1>1, AlertsStart, AlertStep, PTL DEF SearchesSpec

-----------------------------------------------------------------------------------
(* The crawl of a career page *)

\* LEMMA: the members of a finite set of numbers stand in places from 1 on, one in each.
LEMMA NumbersStand ==
  ASSUME NEW T \in SUBSET Nat, IsFiniteSet(T)
  PROVE  LET c == Cardinality(T)
             place(n) == CHOOSE i \in T : Cardinality({k \in T : k < i}) = n - 1
         IN /\ c \in Nat
            /\ \A n \in 1..c : place(n) \in T
            /\ \A n, m \in 1..c : place(n) = place(m) => n = m
            /\ \A i \in T : \E n \in 1..c : place(n) = i
            /\ T # {} => \E i \in T : \A k \in T : i <= k
<1> DEFINE c == Cardinality(T)
           place(n) == CHOOSE i \in T : Cardinality({k \in T : k < i}) = n - 1
<1>1. c \in Nat
  BY FS_CardinalityType
<1>2. PICK below : below = [i \in T |-> {k \in T : k < i}]
  OBVIOUS
<1>3. \A i \in T : below[i] = {k \in T : k < i} /\ i \in Nat
  BY <1>2
<1>4. ASSUME NEW i \in T
      PROVE  IsFiniteSet(below[i]) /\ Cardinality(below[i]) \in Nat /\ Cardinality(below[i]) < c
  <2>1. IsFiniteSet(T \ {i}) /\ Cardinality(T \ {i}) = c - 1
    BY FS_RemoveElement
  <2>2. below[i] \in SUBSET (T \ {i})
    <3>1. \A k \in T : k < i => k # i
      BY <1>3
    <3>2. \A k \in below[i] : k \in T /\ k < i
      BY <1>3, Zenon
    <3> QED BY <3>1, <3>2, Zenon
  <2>3. IsFiniteSet(below[i]) /\ Cardinality(below[i]) <= Cardinality(T \ {i})
    BY <2>1, <2>2, FS_Subset, Zenon
  <2>4. Cardinality(below[i]) \in Nat
    BY <2>3, FS_CardinalityType
  <2> QED BY <1>1, <2>1, <2>3, <2>4
<1>5. ASSUME NEW i \in T, NEW j \in T, i < j
      PROVE  Cardinality(below[i]) < Cardinality(below[j])
  <2>1. i \in below[j]
    BY <1>3, <1>5, Zenon
  <2>2. IsFiniteSet(below[j] \ {i}) /\ Cardinality(below[j] \ {i}) = Cardinality(below[j]) - 1
    BY <1>4, <2>1, FS_RemoveElement
  <2>3. below[i] \in SUBSET (below[j] \ {i})
    <3> SUFFICES ASSUME NEW k \in below[i] PROVE k \in below[j] /\ k # i
      OBVIOUS
    <3>1. k \in T /\ k < i /\ k \in Nat /\ i \in Nat /\ j \in Nat
      BY <1>3
    <3> QED BY <1>3, <1>5, <3>1
  <2>4. Cardinality(below[i]) <= Cardinality(below[j] \ {i})
    BY <2>2, <2>3, FS_Subset, Zenon
  <2> QED BY <1>4, <2>2, <2>4
<1>6. PICK rank : rank = [i \in T |-> Cardinality(below[i])]
  OBVIOUS
<1>7. \A i \in T : rank[i] = Cardinality(below[i]) /\ rank[i] \in Nat /\ rank[i] < c
  BY <1>4, <1>6
<1>8. \A i, j \in T : i # j => rank[i] # rank[j]
  <2> SUFFICES ASSUME NEW i \in T, NEW j \in T, i # j PROVE rank[i] # rank[j]
    OBVIOUS
  <2>1. CASE i < j
    BY <1>5, <1>7, <2>1
  <2>2. CASE j < i
    BY <1>5, <1>7, <2>2
  <2>3. i \in Nat /\ j \in Nat
    BY <1>3
  <2>4. i < j \/ j < i
    BY <2>3
  <2> QED BY <2>1, <2>2, <2>4
<1> DEFINE ranks == 0..(c - 1)
<1>9. IsFiniteSet(ranks) /\ Cardinality(ranks) = c
  <2>1. 0 \in Int /\ c - 1 \in Int
    BY <1>1
  <2>2. /\ IsFiniteSet(0..(c - 1))
        /\ Cardinality(0..(c - 1)) = IF 0 > c - 1 THEN 0 ELSE (c - 1) - 0 + 1
    BY <2>1, FS_Interval, Zenon
  <2> QED BY <1>1, <2>2
<1>10. \A m \in ranks : \E i \in T : rank[i] = m
  <2>1. rank \in [T -> ranks]
    BY <1>1, <1>6, <1>7
  <2> HIDE DEF ranks, c
  <2>2. rank \in Injection(T, ranks)
    BY <1>8, <2>1 DEF Injection, IsInjective
  <2>3. Cardinality(T) = Cardinality(ranks)
    BY <1>9 DEF c
  <2>4. rank \in Surjection(T, ranks)
    BY <1>9, <2>2, <2>3, FS_Injection
  <2> QED BY <2>4 DEF Surjection
<1> HIDE DEF c
<1>11. \A n \in 1..c : place(n) \in T /\ rank[place(n)] = n - 1
  <2> SUFFICES ASSUME NEW n \in 1..c PROVE place(n) \in T /\ rank[place(n)] = n - 1
    OBVIOUS
  <2>1. n - 1 \in ranks
    BY <1>1
  <2>2. PICK i \in T : rank[i] = n - 1
    BY <1>10, <2>1
  <2>3. Cardinality({k \in T : k < i}) = n - 1
    BY <1>3, <1>7, <2>2
  <2>4. place(n) \in T /\ Cardinality({k \in T : k < place(n)}) = n - 1
    BY <2>3, Zenon
  <2> HIDE DEF place
  <2> QED BY <1>3, <1>7, <2>4
<1> HIDE DEF place
<1>12. \A n, m \in 1..c : place(n) = place(m) => n = m
  BY <1>1, <1>11
<1>13. ASSUME NEW i \in T PROVE \E n \in 1..c : place(n) = i
  <2>1. PICK n : n = rank[i] + 1
    OBVIOUS
  <2>2. n \in 1..c /\ n - 1 = rank[i]
    BY <1>1, <1>7, <2>1
  <2>3. place(n) \in T /\ rank[place(n)] = rank[i]
    BY <1>11, <2>2
  <2> QED BY <1>8, <2>2, <2>3
<1>14. ASSUME T # {} PROVE \E i \in T : \A k \in T : i <= k
  <2>1. c # 0
    BY <1>14, FS_EmptySet DEF c
  <2>2. 0 \in ranks
    BY <1>1, <2>1
  <2>3. PICK i \in T : rank[i] = 0
    BY <1>10, <2>2
  <2>4. below[i] = {}
    BY <1>4, <1>7, <2>3, FS_EmptySet
  <2>5. ASSUME NEW k \in T PROVE i <= k
    <3>1. ~(k < i)
      BY <1>3, <2>4
    <3>2. i \in Nat /\ k \in Nat
      OBVIOUS
    <3> QED BY <3>1, <3>2
  <2> QED BY <2>5
<1> QED BY <1>1, <1>11, <1>12, <1>13, <1>14 DEF c, place

\* LEMMA: without repetitions a list has the same members, each once.
LEMMA NoneTwice ==
  ASSUME NEW S, NEW s \in Seq(S)
  PROVE  /\ Page!NoTwice(s) \in Seq(S)
         /\ \A i \in DOMAIN s : \E n \in DOMAIN Page!NoTwice(s) : Page!NoTwice(s)[n] = s[i]
         /\ \A n, m \in DOMAIN Page!NoTwice(s) : Page!NoTwice(s)[n] = Page!NoTwice(s)[m] => n = m
<1>1. PICK len \in Nat : len = Len(s) /\ DOMAIN s = 1..len
  OBVIOUS
<1>2. PICK T : T = {i \in DOMAIN s : \A k \in DOMAIN s : k < i => s[k] # s[i]}
  OBVIOUS
<1>3. IsFiniteSet(1..len)
  BY FS_Interval
<1>4. T \in SUBSET (1..len) /\ T \in SUBSET Nat /\ T \subseteq DOMAIN s
  BY <1>1, <1>2
<1>5. IsFiniteSet(T)
  BY <1>3, <1>4, FS_Subset
<1> DEFINE c == Cardinality(T)
           place(n) == CHOOSE i \in T : Cardinality({k \in T : k < i}) = n - 1
<1>6. /\ c \in Nat
      /\ \A n \in 1..c : place(n) \in T
      /\ \A n, m \in 1..c : place(n) = place(m) => n = m
      /\ \A i \in T : \E n \in 1..c : place(n) = i
  BY <1>4, <1>5, NumbersStand
<1>7. PICK f : f = Page!NoTwice(s)
  OBVIOUS
<1>8. f = [n \in 1..c |-> s[place(n)]]
  BY <1>2, <1>7 DEF Page!NoTwice, Page!Cardinality, Cardinality
<1> HIDE DEF c, place
<1>9. f \in [1..c -> S]
  <2>1. \A i \in T : s[i] \in S
    BY <1>1, <1>4
  <2>2. \A n \in 1..c : s[place(n)] \in S
    BY <1>6, <2>1
  <2> QED BY <1>8, <2>2
<1>10. f \in Seq(S) /\ DOMAIN f = 1..c
  BY <1>6, <1>9
<1>11. ASSUME NEW i \in DOMAIN s PROVE \E n \in DOMAIN f : f[n] = s[i]
  <2> DEFINE K == {k \in DOMAIN s : s[k] = s[i]}
  <2>1. K \in SUBSET (1..len) /\ K \in SUBSET Nat /\ i \in K
    BY <1>1
  <2>2. IsFiniteSet(K)
    BY <1>3, <2>1, FS_Subset
  <2>3. PICK j \in K : \A k \in K : j <= k
    BY <2>1, <2>2, NumbersStand
  <2>4. j \in T /\ s[j] = s[i]
    <3>1. j \in DOMAIN s /\ s[j] = s[i]
      OBVIOUS
    <3>2. ASSUME NEW k \in DOMAIN s, k < j PROVE s[k] # s[j]
      <4>1. k \in Nat /\ j \in Nat
        BY <1>1, <3>1
      <4>2. k \notin K
        BY <2>3, <3>2, <4>1
      <4> QED BY <3>1, <4>2
    <3> QED BY <1>2, <3>1, <3>2
  <2>5. PICK n \in 1..c : place(n) = j
    BY <1>6, <2>4
  <2> QED BY <1>8, <1>10, <2>4, <2>5
<1>12. ASSUME NEW n \in DOMAIN f, NEW m \in DOMAIN f, f[n] = f[m] PROVE n = m
  <2>1. n \in 1..c /\ m \in 1..c
    BY <1>10
  <2>2. s[place(n)] = s[place(m)] /\ place(n) \in T /\ place(m) \in T
    BY <1>6, <1>8, <1>12, <2>1
  <2>3. PICK i, j : i = place(n) /\ j = place(m)
    OBVIOUS
  <2>4. i \in DOMAIN s /\ j \in DOMAIN s /\ i \in Nat /\ j \in Nat /\ ~(i < j) /\ ~(j < i)
    BY <1>1, <1>2, <1>4, <2>2, <2>3
  <2> QED BY <1>6, <2>1, <2>3, <2>4
<1> QED BY <1>7, <1>10, <1>11, <1>12

\* A URL is a record; a page that was read is one of the site's.
IsUrl(u) == u = [path |-> u.path, page |-> u.page, spelling |-> u.spelling]
Found == UNION {{Page!Extract(p)[i] : i \in DOMAIN Page!Extract(p)} : p \in Pages}
IsPage(p) ==
    /\ p = [url |-> p.url, html |-> p.html] /\ IsUrl(p.url) /\ p.html \in Pages
    /\ Page!Normal(p.url) \in visited

CrawlTypes ==
    /\ crawler = [at |-> crawler.at, url |-> crawler.url, html |-> crawler.html, next |-> crawler.next]
    /\ crawler.at \in {"page", "fetching", "done", "fallback", "failed"}
    /\ IsUrl(crawler.url) /\ crawler.html \in Pages /\ first \in Pages
    /\ jobs \in Seq(Found)
    /\ \A p \in parsed : IsPage(p)

\* Pages are read once, and the count says how many; the page at hand, or the one to be
\* fetched, is a new one, and there is room for it.
ReadOnce ==
    /\ IsFiniteSet(visited) /\ pagesCrawled = Cardinality(visited) /\ pagesCrawled <= MaxPages
    /\ crawler.at = "page" => pagesCrawled < MaxPages /\ Page!Normal(crawler.url) \notin visited
    /\ crawler.at = "fetching" => /\ pagesCrawled < MaxPages /\ IsUrl(crawler.next)
                                  /\ Page!Normal(crawler.next) \notin visited
    /\ \A p, q \in parsed : Page!Normal(p.url) = Page!Normal(q.url) => p = q

\* What a page lists is among the postings; as long as there was no error every page that was
\* visited has been read.
AllFound ==
    \A p \in parsed : \A i \in DOMAIN Page!Extract(p.html) :
        \E n \in DOMAIN jobs : jobs[n] = Page!Extract(p.html)[i]
NoneSkipped ==
    reason = "no_more_pages" =>
        /\ IsFiniteSet(parsed) /\ Cardinality(parsed) = pagesCrawled
        /\ \A v \in visited : \E p \in parsed : Page!Normal(p.url) = v
EndsRightly ==
    crawler.at = "done" =>
        /\ result = Page!NormalJobs(jobs)
        /\ reason = "no_more_pages" =>
               LET following == Page!DetectNext(crawler.html, crawler.url)
               IN  following = Page!Nowhere \/ (IsUrl(following) /\ Page!Normal(following) \in visited)

CrawlInv == CrawlTypes /\ ReadOnce /\ AllFound /\ NoneSkipped /\ EndsRightly

\* LEMMA: spelling apart, URLs are told by their path and page.
LEMMA UrlsCompared ==
  ASSUME NEW u, NEW v, IsUrl(u), IsUrl(v)
  PROVE  Page!Normal(u) = Page!Normal(v) <=> Page!SamePage(u, v)
<1>1. /\ Page!Normal(u) = [path |-> u.path, page |-> u.page, spelling |-> 0]
      /\ Page!Normal(v) = [path |-> v.path, page |-> v.page, spelling |-> 0]
  BY DEF IsUrl, Page!Normal
<1>2. [path |-> u.path, page |-> u.page, spelling |-> 0] = [path |-> v.path, page |-> v.page, spelling |-> 0]
         <=> u.path = v.path /\ u.page = v.page
  OBVIOUS
<1> QED BY <1>1, <1>2 DEF Page!SamePage

\* LEMMA: what a page leads to is a URL or nothing, and what it lists is a list.
LEMMA PagesLead ==
  ASSUME NEW html \in Pages, NEW u, IsUrl(u)
  PROVE  /\ Page!DetectNext(html, u) = Page!Nowhere \/ IsUrl(Page!DetectNext(html, u))
         /\ Page!Extract(html) \in Seq(Found)
<1>1. /\ {html.rel, html.text, html.aria} \subseteq PageUrls \cup {Page!Nowhere}
      /\ Page!Extract(html) \in Seq({Page!Extract(html)[i] : i \in DOMAIN Page!Extract(html)})
      /\ \A v \in PageUrls : IsUrl(v)
  BY PostingsAssumption DEF Page!CrawlAssumption, Page!ToSet, IsUrl
<1>2. Page!CountUp(u) = Page!Nowhere \/ IsUrl(Page!CountUp(u))
  <2>1. CASE u.page # <<>> /\ u.page[1] <= 1
    <3>1. Page!CountUp(u) = [path |-> u.path, page |-> <<u.page[1] + 1>>, spelling |-> u.spelling]
      BY <2>1 DEF IsUrl, Page!CountUp
    <3> QED BY <3>1 DEF IsUrl
  <2>2. CASE ~(u.page # <<>> /\ u.page[1] <= 1)
    BY <2>2 DEF Page!CountUp
  <2> QED BY <2>1, <2>2
<1>3. Page!DetectNext(html, u) = Page!Nowhere \/ IsUrl(Page!DetectNext(html, u))
  BY <1>1, <1>2 DEF Page!DetectNext
<1>4. {Page!Extract(html)[i] : i \in DOMAIN Page!Extract(html)} \subseteq Found
  BY DEF Found
<1>5. PICK q : q = Page!Extract(html)
  OBVIOUS
<1>6. q \in Seq({q[i] : i \in DOMAIN q}) /\ {q[i] : i \in DOMAIN q} \subseteq Found
  BY <1>1, <1>4, <1>5
<1>7. q \in Seq(Found)
  <2>1. PICK S : S = {q[i] : i \in DOMAIN q}
    OBVIOUS
  <2>2. Len(q) \in Nat /\ q \in [1..Len(q) -> S] /\ S \subseteq Found
    BY <1>6, <2>1
  <2>3. q \in [1..Len(q) -> Found]
    BY <2>2
  <2> QED BY <2>2, <2>3
<1> QED BY <1>3, <1>5, <1>7

LEMMA CrawlStart == Page!CrawlInit => CrawlInv
<1> SUFFICES ASSUME Page!CrawlInit PROVE CrawlInv
  OBVIOUS
<1>1. /\ first \in Pages /\ visited = {} /\ pagesCrawled = 0 /\ jobs = <<>> /\ parsed = {}
      /\ crawler = [at |-> "page", url |-> StartUrl, html |-> first, next |-> Page!Nowhere]
      /\ reason = "no_more_pages"
  BY DEF Page!CrawlInit
<1>2. IsUrl(StartUrl) /\ MaxPages \in Nat \ {0}
  BY PostingsAssumption DEF Page!CrawlAssumption, IsUrl
<1>3. IsFiniteSet({}) /\ Cardinality({}) = 0
  BY FS_EmptySet
<1>4. CrawlTypes
  BY <1>1, <1>2 DEF CrawlTypes
<1>5. ReadOnce
  BY <1>1, <1>2, <1>3 DEF ReadOnce
<1>6. AllFound /\ NoneSkipped /\ EndsRightly
  BY <1>1, <1>3 DEF AllFound, NoneSkipped, EndsRightly
<1> QED BY <1>4, <1>5, <1>6 DEF CrawlInv

\* LEMMA: a page that is read, or fails to be, is visited once, and what it lists is kept.
LEMMA CrawlPageKeeps ==
  ASSUME CrawlInv, NEW raises \in BOOLEAN, Page!CrawlPage(raises)
  PROVE  CrawlInv'
<1>1. PICK url, html, list : url = crawler.url /\ html = crawler.html
                           /\ list = IF raises THEN <<>> ELSE Page!Extract(html)
  OBVIOUS
<1>2. PICK following : following = Page!DetectNext(html, url)
  OBVIOUS
<1>3. PICK ends : ends = (\/ Len(jobs \o list) >= MaxJobs \/ pagesCrawled + 1 >= MaxPages
                          \/ following = Page!Nowhere
                          \/ Page!Normal(following) \in visited \cup {Page!Normal(url)})
  OBVIOUS
<1>4. /\ crawler.at = "page"
      /\ visited' = visited \cup {Page!Normal(url)} /\ pagesCrawled' = pagesCrawled + 1
      /\ jobs' = jobs \o list
      /\ reason' = IF Len(jobs \o list) >= MaxJobs THEN "max_jobs"
                   ELSE IF pagesCrawled + 1 >= MaxPages THEN "max_pages"
                   ELSE IF raises THEN "error" ELSE reason
      /\ parsed' = IF raises THEN parsed ELSE parsed \cup {[url |-> url, html |-> html]}
      /\ crawler' = [at |-> IF ends THEN "done" ELSE "fetching", url |-> url, html |-> html,
                     next |-> IF ends THEN Page!Nowhere ELSE following]
      /\ result' = IF ends THEN Page!NormalJobs(jobs \o list) ELSE <<>>
      /\ first' = first
  BY <1>1, <1>2, <1>3 DEF Page!CrawlPage
<1>5. /\ CrawlTypes /\ ReadOnce /\ AllFound /\ NoneSkipped
      /\ IsUrl(url) /\ html \in Pages /\ jobs \in Seq(Found) /\ IsFiniteSet(visited)
      /\ pagesCrawled = Cardinality(visited) /\ pagesCrawled < MaxPages /\ Page!Normal(url) \notin visited
      /\ MaxPages \in Nat
  BY <1>1, <1>4, PostingsAssumption DEF CrawlInv, CrawlTypes, ReadOnce, Page!CrawlAssumption
<1>6. pagesCrawled \in Nat /\ list \in Seq(Found)
      /\ (following = Page!Nowhere \/ IsUrl(following))
  BY <1>1, <1>2, <1>5, PagesLead, FS_CardinalityType
<1>8. jobs' \in Seq(Found) /\ (\A n \in DOMAIN jobs : n \in DOMAIN jobs' /\ jobs'[n] = jobs[n])
      /\ \A i \in DOMAIN list : \E n \in DOMAIN jobs' : jobs'[n] = list[i]
  <2>1. PICK q : q = jobs
    OBVIOUS
  <2>2. q \in Seq(Found) /\ jobs' = q \o list
    BY <1>4, <1>5, <2>1
  <2>3. q \o list \in Seq(Found) /\ \A n \in DOMAIN q : n \in DOMAIN (q \o list) /\ (q \o list)[n] = q[n]
    BY <1>6, <2>2
  <2>4. ASSUME NEW i \in DOMAIN list PROVE \E n \in DOMAIN (q \o list) : (q \o list)[n] = list[i]
    <3>1. Len(q) + i \in DOMAIN (q \o list) /\ (q \o list)[Len(q) + i] = list[i]
      BY <1>6, <2>2
    <3> QED BY <3>1
  <2> QED BY <2>1, <2>2, <2>3, <2>4
<1>9. /\ IsFiniteSet(visited') /\ pagesCrawled' = Cardinality(visited') /\ pagesCrawled' <= MaxPages
  BY <1>4, <1>5, <1>6, FS_AddElement
<1>10. ASSUME NEW p \in parsed' PROVE p \in parsed \/ (~raises /\ p = [url |-> url, html |-> html])
  BY <1>4, <1>10
<1>11. \A p \in parsed : IsPage(p)
  BY <1>5 DEF CrawlTypes
<1>12. CrawlTypes'
  <2>1. ASSUME NEW p \in parsed' PROVE IsPage(p)'
    <3>1. CASE p \in parsed
      BY <1>4, <1>11, <3>1 DEF IsPage
    <3>2. CASE p = [url |-> url, html |-> html]
      BY <1>4, <1>5, <3>2 DEF IsPage
    <3> QED BY <1>10, <3>1, <3>2
  <2>2. first' \in Pages
    BY <1>4, <1>5 DEF CrawlTypes
  <2> QED BY <1>4, <1>5, <1>8, <2>1, <2>2 DEF CrawlTypes
<1>13. ReadOnce'
  <2>1. ASSUME NEW p \in parsed', NEW q \in parsed', Page!Normal(p.url) = Page!Normal(q.url) PROVE p = q
    <3>1. \A o \in parsed : Page!Normal(o.url) \in visited /\ Page!Normal(o.url) # Page!Normal(url)
      BY <1>5, <1>11 DEF IsPage
    <3>2. CASE p \in parsed /\ q \in parsed
      BY <1>5, <2>1, <3>2 DEF ReadOnce
    <3>3. CASE p \notin parsed \/ q \notin parsed
      BY <1>10, <2>1, <3>1, <3>3
    <3> QED BY <3>2, <3>3
  <2>2. crawler'.at = "fetching" => /\ pagesCrawled' < MaxPages /\ IsUrl(crawler'.next)
                                    /\ Page!Normal(crawler'.next) \notin visited'
    <3> SUFFICES ASSUME crawler'.at = "fetching"
                 PROVE  /\ pagesCrawled' < MaxPages /\ IsUrl(crawler'.next)
                        /\ Page!Normal(crawler'.next) \notin visited'
      OBVIOUS
    <3>1. ~ends
      BY <1>4
    <3>2. crawler'.next = following
      BY <1>4, <3>1
    <3> QED BY <1>3, <1>4, <1>5, <1>6, <3>1, <3>2
  <2>3. crawler'.at # "page"
    BY <1>4
  <2> QED BY <1>9, <2>1, <2>2, <2>3 DEF ReadOnce
<1>14. AllFound'
  <2> SUFFICES ASSUME NEW p \in parsed', NEW i \in DOMAIN Page!Extract(p.html)
               PROVE  \E n \in DOMAIN jobs' : jobs'[n] = Page!Extract(p.html)[i]
    BY DEF AllFound
  <2>1. CASE p \in parsed
    <3>1. PICK n \in DOMAIN jobs : jobs[n] = Page!Extract(p.html)[i]
      BY <1>5, <2>1 DEF AllFound
    <3> QED BY <1>8, <3>1
  <2>2. CASE ~raises /\ p = [url |-> url, html |-> html]
    <3>1. Page!Extract(p.html) = list
      BY <1>1, <2>2
    <3> QED BY <1>8, <3>1
  <2> QED BY <1>10, <2>1, <2>2
<1>15. NoneSkipped'
  <2> SUFFICES ASSUME reason' = "no_more_pages"
               PROVE  /\ IsFiniteSet(parsed') /\ Cardinality(parsed') = pagesCrawled'
                      /\ \A v \in visited' : \E p \in parsed' : Page!Normal(p.url) = v
    BY DEF NoneSkipped
  <2>1. ~raises /\ reason = "no_more_pages"
    BY <1>4
  <2>2. /\ IsFiniteSet(parsed) /\ Cardinality(parsed) = pagesCrawled
        /\ \A v \in visited : \E p \in parsed : Page!Normal(p.url) = v
    BY <1>5, <2>1 DEF NoneSkipped
  <2>3. PICK p : p = [url |-> url, html |-> html]
    OBVIOUS
  <2>4. p.url = url /\ parsed' = parsed \cup {p}
    BY <1>4, <2>1, <2>3
  <2>5. p \notin parsed
    BY <1>5, <1>11, <2>4 DEF IsPage
  <2>6. IsFiniteSet(parsed') /\ Cardinality(parsed') = pagesCrawled'
    <3>1. PICK S : S = parsed
      OBVIOUS
    <3>2. IsFiniteSet(S \cup {p}) /\ Cardinality(S \cup {p}) = Cardinality(S) + 1
      BY <2>2, <2>5, <3>1, FS_AddElement
    <3> QED BY <1>4, <2>2, <2>4, <3>1, <3>2
  <2>7. \A v \in visited' : \E o \in parsed' : Page!Normal(o.url) = v
    BY <1>4, <2>2, <2>4
  <2> QED BY <2>6, <2>7
<1>16. EndsRightly'
  <2> SUFFICES ASSUME crawler'.at = "done"
               PROVE  /\ result' = Page!NormalJobs(jobs')
                      /\ reason' = "no_more_pages" =>
                           \/ Page!DetectNext(crawler'.html, crawler'.url) = Page!Nowhere
                           \/ /\ IsUrl(Page!DetectNext(crawler'.html, crawler'.url))
                              /\ Page!Normal(Page!DetectNext(crawler'.html, crawler'.url)) \in visited'
    BY DEF EndsRightly
  <2>1. ends
    BY <1>4
  <2>2. result' = Page!NormalJobs(jobs')
    BY <1>4, <2>1
  <2>3. Page!DetectNext(crawler'.html, crawler'.url) = following
    BY <1>2, <1>4
  <2>4. reason' = "no_more_pages" => following = Page!Nowhere \/ Page!Normal(following) \in visited'
    BY <1>3, <1>4, <2>1
  <2> QED BY <1>6, <2>2, <2>3, <2>4
<1> QED BY <1>12, <1>13, <1>14, <1>15, <1>16 DEF CrawlInv
\* LEMMA: the postings of the result are those that were found, each once.
LEMMA ResultHolds ==
  ASSUME jobs \in Seq(Found)
  PROVE  /\ \A n \in DOMAIN jobs : Page!Holds(Page!NormalJobs(jobs), jobs[n])
         /\ \A i, j \in DOMAIN Page!NormalJobs(jobs) :
                Page!NormalJobs(jobs)[i] = Page!NormalJobs(jobs)[j] => i = j
<1>1. PICK q : q = [i \in DOMAIN jobs |-> Page!Keyed(jobs[i])]
  OBVIOUS
<1>2. q \in Seq({q[i] : i \in DOMAIN q}) /\ DOMAIN q = DOMAIN jobs
  <2>1. Len(jobs) \in Nat /\ DOMAIN jobs = 1..Len(jobs)
    OBVIOUS
  <2>2. DOMAIN q = 1..Len(jobs)
    BY <1>1, <2>1
  <2>3. q \in [1..Len(jobs) -> {q[i] : i \in DOMAIN q}]
    BY <1>1, <2>2
  <2> QED BY <2>1, <2>2, <2>3
<1>3. PICK r : r = Page!NoTwice(q)
  OBVIOUS
<1>4. r = Page!NormalJobs(jobs)
  BY <1>1, <1>3 DEF Page!NormalJobs
<1>5. /\ \A i \in DOMAIN q : \E n \in DOMAIN r : r[n] = q[i]
      /\ \A n, m \in DOMAIN r : r[n] = r[m] => n = m
  BY <1>2, <1>3, NoneTwice, Zenon
<1>6. ASSUME NEW n \in DOMAIN jobs PROVE Page!Holds(r, jobs[n])
  <2>1. q[n] = Page!Keyed(jobs[n]) /\ n \in DOMAIN q
    BY <1>1, <1>2
  <2> QED BY <1>5, <2>1 DEF Page!Holds
<1> QED BY <1>4, <1>5, <1>6

\* LEMMA: a page that is fetched is a new one.
LEMMA CrawlFetchKeeps ==
  ASSUME CrawlInv, NEW html \in Pages, Page!Fetch(html)
  PROVE  CrawlInv'
<1>1. /\ crawler.at = "fetching"
      /\ crawler' = [at |-> "page", url |-> crawler.next, html |-> html, next |-> Page!Nowhere]
      /\ UNCHANGED <<first, visited, pagesCrawled, jobs, reason, result, parsed>>
  BY DEF Page!Fetch
<1>2. /\ pagesCrawled < MaxPages /\ IsUrl(crawler.next) /\ Page!Normal(crawler.next) \notin visited
      /\ CrawlTypes /\ ReadOnce /\ AllFound /\ NoneSkipped
  BY <1>1 DEF CrawlInv, ReadOnce
<1>3. CrawlTypes'
  BY <1>1, <1>2 DEF CrawlTypes, IsPage
<1>4. ReadOnce'
  BY <1>1, <1>2 DEF ReadOnce
<1>5. AllFound' /\ NoneSkipped' /\ EndsRightly'
  BY <1>1, <1>2 DEF AllFound, NoneSkipped, EndsRightly
<1> QED BY <1>3, <1>4, <1>5 DEF CrawlInv

\* LEMMA: a crawl that is ended from outside keeps what it has read.
LEMMA CrawlEndKeeps ==
  ASSUME CrawlInv, Page!FetchFails \/ \E raises \in BOOLEAN : Page!TimeOut(raises)
  PROVE  CrawlInv'
<1>1. PICK at : /\ at \in {"done", "fallback", "failed"}
                /\ crawler' = [crawler EXCEPT !.at = at]
                /\ at = "done" => reason' = "error" /\ result' = Page!NormalJobs(jobs)
                /\ reason' \in {reason, "error"}
                /\ UNCHANGED <<first, visited, pagesCrawled, jobs, parsed>>
  <2>1. CASE Page!FetchFails
    BY <2>1 DEF Page!FetchFails
  <2>2. ASSUME NEW raises \in BOOLEAN, Page!TimeOut(raises)
        PROVE  /\ crawler' = [crawler EXCEPT !.at = IF raises THEN "failed" ELSE "fallback"]
               /\ reason' = reason
               /\ UNCHANGED <<first, visited, pagesCrawled, jobs, parsed>>
    BY <2>2 DEF Page!TimeOut
  <2>3. CASE \E raises \in BOOLEAN : Page!TimeOut(raises)
    <3>1. PICK raises \in BOOLEAN : Page!TimeOut(raises)
      BY <2>3
    <3>2. PICK to : to = IF raises THEN "failed" ELSE "fallback"
      OBVIOUS
    <3>3. /\ crawler' = [crawler EXCEPT !.at = to] /\ reason' = reason
          /\ UNCHANGED <<first, visited, pagesCrawled, jobs, parsed>>
      BY <2>2, <3>1, <3>2
    <3> QED BY <3>2, <3>3
  <2> QED BY <2>1, <2>3
<1>2. CrawlTypes /\ ReadOnce /\ AllFound /\ NoneSkipped
  BY DEF CrawlInv
<1>3. crawler' = [at |-> at, url |-> crawler.url, html |-> crawler.html, next |-> crawler.next]
  <2>1. crawler = [at |-> crawler.at, url |-> crawler.url, html |-> crawler.html, next |-> crawler.next]
    BY <1>2 DEF CrawlTypes
  <2> QED BY <1>1, <2>1
<1>4. CrawlTypes'
  BY <1>1, <1>2, <1>3 DEF CrawlTypes, IsPage
<1>5. ReadOnce'
  BY <1>1, <1>2, <1>3 DEF ReadOnce
<1>6. AllFound' /\ NoneSkipped'
  BY <1>1, <1>2 DEF AllFound, NoneSkipped
<1>7. EndsRightly'
  BY <1>1, <1>3 DEF EndsRightly
<1> QED BY <1>4, <1>5, <1>6, <1>7 DEF CrawlInv

LEMMA CrawlStep ==
  ASSUME CrawlInv, [Page!CrawlNext]_(Page!crawlVars)
  PROVE  CrawlInv'
<1>1. CASE Page!CrawlNext
  <2>1. \/ \E raises \in BOOLEAN : Page!CrawlPage(raises)
        \/ Page!FetchFails \/ \E raises \in BOOLEAN : Page!TimeOut(raises)
        \/ \E html \in Pages : Page!Fetch(html)
    BY <1>1 DEF Page!CrawlNext
  <2> QED BY <2>1, CrawlPageKeeps, CrawlFetchKeeps, CrawlEndKeeps
<1>2. CASE UNCHANGED Page!crawlVars
  BY <1>2 DEF Page!crawlVars, CrawlInv, CrawlTypes, IsPage, ReadOnce, AllFound, NoneSkipped,
                EndsRightly
<1> QED BY <1>1, <1>2

\* LEMMA: the invariant says that a crawl is complete.
LEMMA InvIsComplete == CrawlInv => Page!CrawlIsComplete
<1> SUFFICES ASSUME CrawlInv PROVE Page!CrawlIsComplete
  OBVIOUS
<1>1. /\ CrawlTypes /\ ReadOnce /\ AllFound /\ NoneSkipped /\ EndsRightly
      /\ jobs \in Seq(Found) /\ \A p \in parsed : IsPage(p)
  BY DEF CrawlInv, CrawlTypes
<1>2. pagesCrawled = Page!Cardinality(visited) /\ pagesCrawled <= MaxPages
  BY <1>1 DEF ReadOnce, Cardinality, Page!Cardinality
<1>3. ASSUME NEW p \in parsed, NEW q \in parsed, Page!SamePage(p.url, q.url) PROVE p = q
  <2>1. IsUrl(p.url) /\ IsUrl(q.url)
    BY <1>1 DEF IsPage
  <2>2. Page!Normal(p.url) = Page!Normal(q.url)
    BY <1>3, <2>1, UrlsCompared
  <2> QED BY <1>1, <2>2 DEF ReadOnce
<1>4. ASSUME crawler.at = "done"
      PROVE  /\ \A p \in parsed : \A i \in DOMAIN Page!Extract(p.html) :
                    Page!Holds(result, Page!Extract(p.html)[i])
             /\ \A i, j \in DOMAIN result : result[i] = result[j] => i = j
  <2>1. result = Page!NormalJobs(jobs)
    BY <1>1, <1>4 DEF EndsRightly
  <2>2. /\ \A n \in DOMAIN jobs : Page!Holds(result, jobs[n])
        /\ \A i, j \in DOMAIN result : result[i] = result[j] => i = j
    BY <1>1, <2>1, ResultHolds
  <2>3. ASSUME NEW p \in parsed, NEW i \in DOMAIN Page!Extract(p.html)
        PROVE  Page!Holds(result, Page!Extract(p.html)[i])
    <3>1. PICK n \in DOMAIN jobs : jobs[n] = Page!Extract(p.html)[i]
      BY <1>1 DEF AllFound
    <3> QED BY <2>2, <3>1
  <2> QED BY <2>2, <2>3
<1>5. PICK following : following = Page!DetectNext(crawler.html, crawler.url)
  OBVIOUS
<1>6. ASSUME crawler.at = "done", reason = "no_more_pages"
      PROVE  /\ Page!Cardinality(parsed) = pagesCrawled
             /\ following = Page!Nowhere \/ \E p \in parsed : Page!SamePage(p.url, following)
  <2>1. Page!Cardinality(parsed) = pagesCrawled
    BY <1>1, <1>6 DEF NoneSkipped, Cardinality, Page!Cardinality
  <2>2. \A v \in visited : \E p \in parsed : Page!Normal(p.url) = v
    BY <1>1, <1>6 DEF NoneSkipped
  <2>3. following = Page!Nowhere \/ (IsUrl(following) /\ Page!Normal(following) \in visited)
    BY <1>1, <1>5, <1>6 DEF EndsRightly
  <2>4. ASSUME IsUrl(following), Page!Normal(following) \in visited
        PROVE  \E p \in parsed : Page!SamePage(p.url, following)
    <3>1. PICK p \in parsed : Page!Normal(p.url) = Page!Normal(following)
      BY <2>2, <2>4
    <3>2. IsUrl(p.url)
      BY <1>1 DEF IsPage
    <3> QED BY <2>4, <3>1, <3>2, UrlsCompared
  <2> QED BY <2>1, <2>3, <2>4
<1> QED BY <1>2, <1>3, <1>4, <1>5, <1>6 DEF Page!CrawlIsComplete, Page!Over

\* THEOREM: whatever a site links, a crawl reads each page once and no more than its limit; when
\* it is over its result has every posting of the pages it read, each once; and one that says
\* there are no more pages has read the page its last one leads to, and skipped none
\* (page_crawler.py, and _normalize_target_jobs in scraping/service.py).
THEOREM CrawlIsAlwaysComplete == Page!CrawlSpec => []CrawlIsComplete
<1>1. Page!CrawlInit => CrawlInv
  BY CrawlStart
<1>2. CrawlInv /\ [Page!CrawlNext]_(Page!crawlVars) => CrawlInv'
  BY CrawlStep
<1>3. CrawlInv => CrawlIsComplete
  BY InvIsComplete DEF CrawlIsComplete
<1> QED BY <1>1, <1>2, <1>3, PTL DEF Page!CrawlSpec

-----------------------------------------------------------------------------------
(* The parts together *)

\* What runs in all parts is, of each part, what its module says.
LEMMA PartsRun ==
  MCSpec => SearchesSpec /\ Page!CrawlSpec /\ Batch!DedupSpec /\ Review!ReviewSpec
            /\ Daily!DigestSpec /\ Model!EnrichmentSpec
<1>1. MCInit => SearchesInit /\ Page!CrawlInit /\ Batch!DedupInit /\ Review!ReviewInit
                /\ Daily!DigestInit /\ Model!EnrichmentInit
  BY DEF MCInit
<1>2. ASSUME [MCNext]_mcVars
      PROVE  /\ [SearchesNext]_searchVars /\ [Page!CrawlNext]_(Page!crawlVars)
             /\ [Batch!DedupNext]_(Batch!dedupVars)
             /\ [Review!ReviewNext]_(Review!reviewVars) /\ [Daily!DigestNext]_(Daily!digestVars)
             /\ [Model!EnrichmentNext]_(Model!enrichmentVars)
  <2> USE DEF pageVars, batchVars, reviewVars, dailyVars, modelVars, Page!crawlVars,
              Batch!dedupVars, Review!reviewVars, Daily!digestVars, Model!enrichmentVars
  <2>1. CASE UNCHANGED mcVars
    BY <2>1 DEF mcVars
  <2>2. CASE InSearch(SearchesNext)
    BY <2>2 DEF InSearch
  <2>3. CASE InPage(Page!CrawlNext)
    BY <2>3 DEF InPage
  <2>4. CASE InBatch(Batch!DedupNext)
    BY <2>4 DEF InBatch
  <2>5. CASE InReview(Review!ReviewNext)
    BY <2>5 DEF InReview
  <2>6. CASE InDaily(Daily!DigestNext)
    BY <2>6 DEF InDaily
  <2>7. CASE InModel(Model!EnrichmentNext)
    BY <2>7 DEF InModel
  <2> QED BY <1>2, <2>1, <2>2, <2>3, <2>4, <2>5, <2>6, <2>7 DEF MCNext
<1> QED BY <1>1, <1>2, PTL DEF MCSpec, SearchesSpec, Page!CrawlSpec, Batch!DedupSpec,
                               Review!ReviewSpec, Daily!DigestSpec, Model!EnrichmentSpec

\* THEOREM: from the page it is found on to the alert, the digest and the answer of the model: nothing of
\* a posting is lost, but for the causes named.
THEOREM LossesOnTheWayAreNamed ==
  MCSpec => [](AlertsExplained /\ CrawlIsComplete /\ DuplicatesExplained /\ AllOrNobody
              /\ EnrichmentExplained)
BY PartsRun, AlertsAreExplained, CrawlIsAlwaysComplete, DuplicatesAreExplained,
   DigestsGoToAllOrNobody, AnswersAreShownWhole, PTL
===================================================================================
