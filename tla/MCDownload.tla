----------------------------- MODULE MCDownload -----------------------------
(* Instances of Download for TLC. *)
EXTENDS Download, TLC

\* two URLs of one document, and the content they may answer with: always the
\* same, or one of two
MCDocOf == (1 :> 1) @@ (2 :> 1)
MCServed == (1 :> {"h1"}) @@ (2 :> {"h1"})
MCServedTwo == (1 :> {"h1", "h2"}) @@ (2 :> {"h1"})

\* processes are interchangeable: used by the runs without liveness
RunSymmetry == Permutations(Runs)
=============================================================================
