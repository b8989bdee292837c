----------------------------- MODULE Selection -----------------------------
(***************************************************************************)
(* The retain and filter of the source's sequences: what a set keeps of a  *)
(* sequence, in its order.                                                 *)
(***************************************************************************)
EXTENDS Naturals, Sequences

Only(s, T) ==
    LET kept[i \in 0..Len(s)] ==
          IF i = 0 THEN <<>>
          ELSE IF s[i] \in T THEN Append(kept[i - 1], s[i]) ELSE kept[i - 1]
    IN  kept[Len(s)]
=============================================================================
