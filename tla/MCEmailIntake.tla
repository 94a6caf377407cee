---------------------------- MODULE MCEmailIntake ----------------------------
(***************************************************************************)
(* Two mails about one application: an invitation from the employer's own   *)
(* domain, of which Gmail syncs are not sure enough (0.80), and a rejection *)
(* through a provider, which names the employer (0.90); and a newsletter    *)
(* without a signal, one mail more than a page holds.                       *)
(*                                                                         *)
(* What is made of them is what EmailParser reads out of a mail             *)
(* (email/parser.py), and what of that decides about an application         *)
(* (email/service.py).  A mail is                                           *)
(*   signals  the actions of which a pattern occurs in subject or body      *)
(*   host     the labels of the sender's domain but the last, e.g.          *)
(*            <<"us", "greenhouse-mail">>; <<>> without an address           *)
(*   top      the last label                                               *)
(*   at       the words after "at" that read like a company, or <<>>        *)
(* A name is a sequence of words.                                           *)
(***************************************************************************)
EXTENDS EmailIntake, SequencesExt

\* The lists of patterns in the order they are tried, with their base confidence in percent.
Signals ==
  << [action |-> "offer", base |-> 90], [action |-> "interview", base |-> 80],
     [action |-> "rejection", base |-> 85], [action |-> "outreach", base |-> 70] >>
Found(mail) == SelectSeq(Signals, LAMBDA s : s.action \in mail.signals)

ATS_DOMAINS ==
  {<<"greenhouse", "io">>, <<"greenhouse-mail", "io">>, <<"lever", "co">>,
   <<"myworkdayjobs", "com">>, <<"myworkday", "com">>, <<"icims", "com">>}
FromAts(mail) == mail.host # <<>> /\ <<Last(mail.host), mail.top>> \in ATS_DOMAINS

ActionOf(mail) == IF Found(mail) = <<>> THEN "none" ELSE Found(mail)[1].action
Confidence(mail) ==
  LET c == Found(mail)[1].base + (IF FromAts(mail) THEN 5 ELSE 0)
  IN IF c > 100 THEN 100 ELSE c
IsSure(mail, least) == Found(mail) # <<>> /\ Confidence(mail) >= least

\* The whole of the domain is compared: a subdomain of a provider counts as a company.
skip_domains ==
  {"gmail", "yahoo", "outlook", "hotmail", "greenhouse", "greenhouse-mail", "lever", "icims",
   "myworkdayjobs", "myworkday", "noreply", "no-reply", "notifications"}
Company(mail) ==
  IF mail.host = <<>> \/ (Len(mail.host) = 1 /\ mail.host[1] \in skip_domains)
  THEN mail.at ELSE mail.host

\* Either name contains the other.
Concerns(mail, name) ==
  /\ Company(mail) # <<>> /\ name # <<>>
  /\ name \in SubSeqs(Company(mail)) \/ Company(mail) \in SubSeqs(name)

-----------------------------------------------------------------------------
(* The mails *)

Mail(signals, host, top, at) == [signals |-> signals, host |-> host, top |-> top, at |-> at]
\* The invitation also praises the "exciting role".
MCMail ==
  [interview |-> Mail({"interview", "outreach"}, <<"mail", "acme">>, "com", <<>>),
   rejection |-> Mail({"rejection"}, <<"greenhouse">>, "io", <<"acme", "inc">>),
   newsletter |-> Mail({}, <<"weekly">>, "dev", <<>>)]
MCName == [a |-> <<"acme">>]

MCAction == [m \in Messages |-> ActionOf(MCMail[m])]
MCSure == {m \in Messages : IsSure(MCMail[m], 85)}
MCAbout == [m \in Messages |-> {a \in Apps : Concerns(MCMail[m], MCName[a])}]

ASSUME ParserAssumption ==
  /\ MCSure = {"rejection"} /\ MCAction["newsletter"] = "none" /\ MCAbout["newsletter"] = {}
  /\ \A m \in Messages \ {"newsletter"} : MCAction[m] = m /\ MCAbout[m] = Apps

-----------------------------------------------------------------------------
VARIABLE part

\* Mail that moves applications, with one sync; two syncs of mail about no application;
\* or one sync of more such mail than its page holds.
Grown(m, n) == {<<>>, <<m>>, <<m, n>>}
MCInit == Init /\ part \in {"moves", "syncs", "page"}
MCNext ==
  /\ Next /\ UNCHANGED part
  /\ part \in {"syncs", "page"} => pc'["w"] = "idle" /\ UNCHANGED pipelineVars
  /\ part \in {"moves", "page"} => pc'["r"] = "idle" /\ faults' <= 1
  /\ part = "moves" => mailbox' \in Grown("rejection", "interview") /\ ~Age
  /\ part = "syncs" => mailbox' \in Grown("newsletter", "rejection") /\ ~Age
MCSpec == MCInit /\ [][MCNext]_<<vars, part>> /\ Fairness
=============================================================================
