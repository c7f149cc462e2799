------------------------------ MODULE ArrayFilter ------------------------------
(* filter of a JavaScript array, in which the code keeps its lists.           *)
EXTENDS Integers, Sequences

\* The entries of a list that are among these, in their order
Kept(list, these) ==
  LET f[n \in 0..Len(list)] == IF n = 0 THEN <<>>
                               ELSE IF list[n] \in these THEN Append(f[n - 1], list[n]) ELSE f[n - 1]
  IN  f[Len(list)]
=============================================================================
