---------------------------- MODULE Subsequences -----------------------------
(***************************************************************************)
(* What a loop that appends the elements it keeps to a list ends up with.  *)
(***************************************************************************)
EXTENDS Naturals, Sequences

\* The members of q that are in S, in the order of q.
Among(q, S) ==
    LET upTo[i \in 0..Len(q)] ==
          IF i = 0 THEN <<>>
          ELSE IF q[i] \in S THEN Append(upTo[i - 1], q[i]) ELSE upTo[i - 1]
    IN  upTo[Len(q)]
=============================================================================
