--------------------------- MODULE MCMemoryBatch ---------------------------
(* A small archive for MemoryBatch: one owner, one chat, one day, passages    *)
(* named by numbers, one token each.                                          *)
EXTENDS MemoryBatch

CONSTANTS u1, c1, d1

OneUser       == {u1}
OneChat       == {c1}
OneDay        == {d1}
Owner         == [c \in Chats |-> u1]
ChatOfDay     == [d \in Days |-> c1]
DayOfPassage  == [p \in Passages |-> d1]
UnitTokens    == [p \in Passages |-> 1]
=============================================================================
