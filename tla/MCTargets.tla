------------------------------ MODULE MCTargets ------------------------------
(* The batches of scrape targets, the gate before the sources a general scrape   *)
(* goes through, and the list of targets as its user changes it.  They are       *)
(* separate questions, so each behaviour is of one of them.                      *)
EXTENDS TargetBatch, SourceGate, TLC

CONSTANTS u1, u2, u3, Users, Vendor, Lists, StartTiers

VARIABLES part, checks, rows, ids, clock, req, tried

Book == INSTANCE TargetBook WITH Tiers <- StartTiers

bookVars == <<checks, rows, ids, clock, req, tried>>

MCInit == /\ Init /\ GateInit /\ Book!BookInit
          \* What a part starts with is chosen in its own behaviours only.
          /\ \/ part = "targets" /\ ~checks
             \/ part = "gate" /\ checked /\ ~checks
             \/ part = "book" /\ checked
          /\ part # "book" => rows[1].url.page = "p"
MCNext == /\ \/ part = "targets" /\ Next /\ UNCHANGED <<gateVars, bookVars>>
             \/ part = "gate" /\ GateNext /\ UNCHANGED <<vars, bookVars>>
             \/ part = "book" /\ Book!BookNext /\ UNCHANGED <<vars, gateVars>>
          /\ UNCHANGED part
MCSpec == MCInit /\ [][MCNext]_<<vars, gateVars, bookVars, part>>

Symmetry == Permutations(Users)

\* An ATS board and a career page.
MCStartTier == [t \in Targets |-> 1]
MCMaxTier == [t \in Targets |-> 2]
\* Two pages of nobody's, and a board.
MCVendor == [page \in {"p", "q", "g"} |-> IF page = "g" THEN "greenhouse" ELSE ""]
\* A list that names a page twice, and one with an unusual spelling, a vendor given
\* against the URL, and a board.
MCLists ==
  LET Item(page, spelled, vendor) == [url |-> [page |-> page, spelled |-> spelled], vendor |-> vendor]
  IN {<<Item("q", FALSE, ""), Item("q", FALSE, "")>>,
      <<Item("p", TRUE, "lever"), Item("g", FALSE, "")>>}

\* Pages are targets twice, and classes differ from their URLs, only for the causes the
\* module names.
TargetsExplained == Book!TargetsExplained
=============================================================================
