-------------------------- MODULE MCAgentExchange --------------------------
(***************************************************************************)
(* Small instances of AgentExchange: drafts, their confirmation and the    *)
(* watcher with no reports to receive, or two threads that exchange the    *)
(* messages of one draft and of the reports of a feed.                     *)
(***************************************************************************)
EXTENDS AgentExchange, TLC

CONSTANTS d1, d2, d3,  \* drafts
          g1, g2,      \* reports
          pat, rex,    \* people
          x, y,        \* texts
          month, nextMonth,   \* reporting periods
          t1, t2,      \* threads
          watcher, none

OneDraft == {d1}
ThreeDrafts == {d1, d2, d3}
NoReport == {}
OneReport == {g1}
TwoReports == {g1, g2}
NoFeed == <<>>
FirstReport == <<g1>>
BothReports == <<g1, g2>>
TwoPeople == {pat, rex}
TwoTexts == {x, y}
OneText == {x}
OnePeriod == [b \in {x, y} |-> month]
TwoPeriods == (x :> month) @@ (y :> nextMonth)
\* Which draft and which text it is makes no difference to the safety of drafts.
InterchangeableDrafts == Permutations(ThreeDrafts)
InterchangeableTexts == Permutations(TwoTexts)
OneThread == {t1}
TwoThreads == {t1, t2}

\* pat prepares and rex confirms.
FourEyes == [fourEyes |-> TRUE, preparers |-> {pat}]
\* Everybody may do everything.
TwoEyes == [fourEyes |-> FALSE, preparers |-> {}]
\* The accounts are exchanged.
Exchanged == [fourEyes |-> TRUE, preparers |-> {rex}]

AlwaysFourEyes == {FourEyes}
ChangingConfigs == {FourEyes, TwoEyes, Exchanged}
============================================================================
