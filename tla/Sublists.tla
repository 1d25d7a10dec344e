------------------------------ MODULE Sublists ------------------------------
(* What is left of a sequence when only the members of a set are kept, in    *)
(* their order: std::remove_if followed by erase.  (SelectSeq says the same, *)
(* but has no definition a prover could expand.)                             *)
EXTENDS SequencesExt, Naturals

Only(q, S) ==
  LET only[i \in 0 .. Len(q)] ==
        IF i = 0 THEN <<>>
        ELSE IF q[i] \in S THEN Append(only[i - 1], q[i]) ELSE only[i - 1]
  IN only[Len(q)]
=============================================================================
