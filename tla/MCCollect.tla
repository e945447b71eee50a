----------------------------- MODULE MCCollect -----------------------------
(* Instances of Collect for TLC. *)
EXTENDS Collect, TLC

Cand(u, d, i, s, e) == [url |-> u, doi |-> d, isbn |-> i, source |-> s, evidence |-> e]

\* the four ways a candidate meets the catalogue: a first document, another that
\* shares its ISBN or nothing, one with the identifiers of both, a known URL again
MCCandidates ==
    {Cand("u1", "d1", None, "a", {"e1"}),
     Cand("u2", "d2", "i1", "a", {"e2"}),
     Cand("u3", "d1", "i1", "b", {}),
     Cand("u1", None, None, "b", {"e2"})}

\* processes are interchangeable: used by the runs without liveness
CollectorSymmetry == Permutations(Collectors)
=============================================================================
