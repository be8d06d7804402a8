------------------------------ MODULE MCFetcher ------------------------------
(***************************************************************************)
(* Small instances for the fetcher and its rate limiter.                    *)
(***************************************************************************)
EXTENDS Fetcher, TLC

CONSTANTS u, v, x, h1

OneHost == [y \in URLs |-> h1]
DelayOne == [h \in Hosts |-> 1]

\* u asks to come back later or redirects to v; v answers, or redirects back to u
\* or on to x.
LoopAnswers == (u :> {v, "429"}) @@ (v :> {"page", u, x}) @@ (x :> {"page"})

\* u redirects to v, which asks to come back later.
BusyTarget == (u :> {v}) @@ (v :> {"page", "429"})
=============================================================================
