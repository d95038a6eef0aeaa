------------------------------ MODULE MCMarket ------------------------------
(***************************************************************************)
(* Two bars of an hour and one of four on a small clock; the window of the *)
(* short bars holds one, so that it moves.                                 *)
(***************************************************************************)
EXTENDS Market

CONSTANTS h1, h2, f1, c1

MCIntervalOf == h1 :> "1h" @@ h2 :> "1h" @@ f1 :> "4h"
MCOpensAt  == h1 :> 0 @@ h2 :> 1 @@ f1 :> 0
MCClosesAt == h1 :> 1 @@ h2 :> 2 @@ f1 :> 2
MCLookback == "1h" :> 1 @@ "4h" :> 1
Idle(R) == \A r \in R : pc[r] = "idle"
Once(B) == \A b \in B : arrived[b] <= 1

\* Bounds while there is a reader: the writer is neither stopping nor racing;
\* the export, whose only common ground with live is the table, runs when no
\* call does, and only it sees a bar, h1, come twice; with two calls the bars
\* of one interval come.
Scenario ==
  \/ Idle(Readers)
  \/ /\ stop = "no" /\ ~raced
     /\ \/ Idle(Calls) /\ Once(Bars \ {h1})
        \/ Once(Bars) /\ \E c \in Calls : Idle(Readers \ {c})
        \/ Idle({Export}) /\ Once(Bars) /\ arrived[f1] = 0

Symmetric == Permutations(Calls)
=============================================================================
