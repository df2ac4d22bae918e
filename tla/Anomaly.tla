------------------------------ MODULE Anomaly ------------------------------
(***************************************************************************)
(* anomaly.py: how what the Isolation Forest says of an event becomes a    *)
(* score between 0 and 1.  The forest is scikit-learn's: its decision      *)
(* function is an integer here, in hundredths, low for an event that       *)
(* stands out.  A score is a fraction whose denominator is Span.           *)
(*                                                                         *)
(* fit: the lowest and the highest decision over the training events, one  *)
(* of Trained, or EmptyCorpus.                                             *)
(***************************************************************************)
EXTENDS Integers

EmptyCorpus == <<>>

Trained == {fit \in Int \X Int : fit[1] =< fit[2]}

One == 100

Bottom(fit) == fit[1]

\* fit: training events that all look alike get a range of 1.0.
Top(fit) == IF fit[2] - fit[1] < 1 THEN fit[1] + One ELSE fit[2]

Span(fit) == Top(fit) - Bottom(fit)

Clamp(n, low, high) == IF n < low THEN low ELSE IF n > high THEN high ELSE n

-----------------------------------------------------------------------------
(* Plausible mistakes in the code; nothing else uses them.                 *)

\* The decision function is scaled and not turned round.
NormUninverted(fit, df) == Clamp(df - Bottom(fit), 0, Span(fit))

-----------------------------------------------------------------------------

\* 1 - (df - min) / (max - min), within [0, 1].
Norm(fit, df) == Clamp(Span(fit) - (df - Bottom(fit)), 0, Span(fit))

IsAnomaly(fit, df, percent) == 100 * Norm(fit, df) >= percent * Span(fit)

\* What that amounts to: the decision is as far below the highest one of the
\* training events as the threshold says.  A threshold of zero or below flags
\* every event and one above 1 none.
StandsOut(fit, df, percent) ==
    \/ percent =< 0
    \/ percent =< 100 /\ 100 * (Top(fit) - df) >= percent * Span(fit)
============================================================================
