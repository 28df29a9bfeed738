------------------------------ MODULE SeqFilter ------------------------------
(* Removal of entries from the doubly linked lists of the code.            *)
EXTENDS Naturals, Sequences

(* The entries of s that are not members of gone, in their order: a loop   *)
(* over the list that unlinks some of its entries.                         *)
Excluding(s, gone) ==
  LET kept[i \in 0 .. Len(s)] ==
        IF i = 0 THEN <<>>
        ELSE IF s[i] \in gone THEN kept[i - 1]
        ELSE Append(kept[i - 1], s[i])
  IN  kept[Len(s)]

=============================================================================
