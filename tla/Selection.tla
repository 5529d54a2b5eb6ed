------------------------------ MODULE Selection ------------------------------
(* Entries selected from a list of the code, in their order: SelectSeq with a *)
(* set for its test, as a function that proofs can take apart.                *)
EXTENDS Integers, Sequences

Selected(s, T) ==
    LET sel[n \in 0 .. Len(s)] ==
            IF n = 0 THEN <<>>
            ELSE IF s[n] \in T THEN Append(sel[n - 1], s[n]) ELSE sel[n - 1]
    IN sel[Len(s)]
=============================================================================
