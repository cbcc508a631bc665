---------------------------- MODULE QuoteService ----------------------------
(***************************************************************************)
(* What page, BFF and Middleware promise together to whoever submits the    *)
(* form, without saying how: one submission at a time is worked on, one    *)
(* verdict is reached on it and is what the page shows, and when a fault    *)
(* cuts it off the page shows nothing that could be taken for a verdict.   *)
(*                                                                         *)
(* There are no deadlines, messages or layers in here. Journey shows that   *)
(* its budgets, timers and rewritings add up to this.                       *)
(***************************************************************************)
CONSTANTS
  Submissions,
  Verdicts,     \* the views that only a verdict may lead to, and its banners
  Faults        \* the views of a submission that was cut off

VARIABLES
  page,     \* of each submission: "unsent", "waiting" or "ended"
  shown,    \* its view, once it has ended
  verdict,  \* what was decided on it, or Undecided
  working,  \* submissions somebody is at work for
  broken,   \* submissions a connection of which broke, and both its ends know
  silent    \* submissions a connection of which delivers nothing any more

svars == <<page, shown, verdict, working, broken, silent>>

cut == broken \cup silent

Undecided == [kind |-> "undecided", code |-> ""]

Init ==
  /\ page = [s \in Submissions |-> "unsent"]
  /\ shown = [s \in Submissions |-> [kind |-> "nothing", code |-> ""]]
  /\ verdict = [s \in Submissions |-> Undecided]
  /\ working = {} /\ broken = {} /\ silent = {}

\* Nobody asks twice at once, nor again after "not entitled".
MayAsk(s) ==
  /\ page[s] = "unsent"
  /\ \A r \in Submissions : page[r] # "waiting" /\ shown[r].kind # "notEntitled"

\* Nothing is at work when work begins, but behind a broken connection.
Ask(s) ==
  /\ MayAsk(s) /\ working \subseteq broken
  /\ page' = [page EXCEPT ![s] = "waiting"]
  /\ working' = working \cup {s}
  /\ UNCHANGED <<shown, verdict, broken, silent>>

Show(s, view) ==
  /\ page' = [page EXCEPT ![s] = "ended"]
  /\ shown' = [shown EXCEPT ![s] = view]

\* Nobody is there to ask.
AskInVain(s) ==
  /\ MayAsk(s)
  /\ \E view \in Faults : Show(s, view)
  /\ UNCHANGED <<verdict, working, broken, silent>>

\* Once for each submission, and whether or not anybody still listens.
Decide(s) ==
  /\ s \in working /\ verdict[s] = Undecided
  /\ \E view \in Verdicts : verdict' = [verdict EXCEPT ![s] = view]
  /\ working' = working \ {s}
  /\ UNCHANGED <<page, shown, broken, silent>>

\* Work is given up only for a submission that was cut off.
Abandon(s) ==
  /\ s \in working \cap cut
  /\ working' = working \ {s}
  /\ UNCHANGED <<page, shown, verdict, broken, silent>>

Tell(s) ==
  /\ page[s] = "waiting" /\ verdict[s] # Undecided
  /\ Show(s, verdict[s])
  /\ UNCHANGED <<verdict, working, broken, silent>>

\* A connection fails, of which a page that still waits may learn at once.
Breaks(s) ==
  /\ page[s] # "unsent"
  /\ broken' = broken \cup {s}
  /\ \/ UNCHANGED <<page, shown>>
     \/ page[s] = "waiting" /\ \E view \in Faults : Show(s, view)
  /\ UNCHANGED <<verdict, working, silent>>

FallsSilent(s) ==
  /\ page[s] # "unsent"
  /\ silent' = silent \cup {s}
  /\ UNCHANGED <<page, shown, verdict, working, broken>>

\* Whoever was cut off is told so some time later, and not while the work goes
\* on behind a connection that has not broken.
TellFault(s) ==
  /\ page[s] = "waiting" /\ s \in cut
  /\ s \in working => s \in broken
  /\ \E view \in Faults : Show(s, view)
  /\ UNCHANGED <<verdict, working, broken, silent>>

Next ==
  \E s \in Submissions :
    \/ Ask(s) \/ AskInVain(s) \/ Decide(s) \/ Abandon(s)
    \/ Tell(s) \/ Breaks(s) \/ FallsSilent(s) \/ TellFault(s)

Spec == Init /\ [][Next]_svars
=============================================================================
