----------------------------- MODULE ReportBoard -----------------------------
(***************************************************************************)
(* What the health monitors of the CMC and the VMC application promise: a  *)
(* board that shows, once a second, the latest report of each kind that    *)
(* was accepted.  A report is a number.                                    *)
(***************************************************************************)
EXTENDS Naturals

CONSTANTS Kinds, Reports

VARIABLES
    latest,   \* the report of each kind accepted last
    shown     \* what the board shows

vars == <<latest, shown>>

NoReport == 0

Init == latest = [k \in Kinds |-> NoReport] /\ shown = [k \in Kinds |-> NoReport]

\* a worker accepts a report
Accept(k, r) ==
    /\ latest' = [latest EXCEPT ![k] = r]
    /\ UNCHANGED shown

\* the dashboard brings some kinds up to date
Show(some) ==
    /\ shown' = [k \in Kinds |-> IF k \in some THEN latest[k] ELSE shown[k]]
    /\ UNCHANGED latest

Next ==
    \/ \E k \in Kinds, r \in Reports : Accept(k, r)
    \/ \E some \in SUBSET Kinds : Show(some)

\* No kind is forgotten for ever: weak fairness of Show for each kind, with its
\* enabling condition, shown[k] # latest[k], written out.
UpToDate(k) == shown[k] = latest[k]
ShowsNew(k) == \E some \in SUBSET Kinds : Show(some) /\ shown'[k] # shown[k]

Fairness == \A k \in Kinds : []<>UpToDate(k) \/ []<><<ShowsNew(k)>>_vars

Spec == Init /\ [][Next]_vars /\ Fairness
=============================================================================
