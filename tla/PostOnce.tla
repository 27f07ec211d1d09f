------------------------------ MODULE PostOnce ------------------------------
(***************************************************************************)
(* What saving and publishing a post promises, without rows, claims or     *)
(* requests: the first text saved under an identifier is the text of the   *)
(* post, it appears in Telegram at most once, and the owner is told that   *)
(* it was published only after it appeared.                                *)
(***************************************************************************)
EXTENDS Naturals

CONSTANTS Drafts, Contents, NoContent

VARIABLES text, posted, told

postVars == <<text, posted, told>>

InitPosts ==
    /\ text = [d \in Drafts |-> NoContent]
    /\ posted = [d \in Drafts |-> 0]
    /\ told = {}

Keep(d, c) ==
    /\ text[d] = NoContent
    /\ text' = [text EXCEPT ![d] = c]
    /\ UNCHANGED <<posted, told>>

Appear(d) ==
    /\ text[d] # NoContent /\ posted[d] = 0
    /\ posted' = [posted EXCEPT ![d] = 1]
    /\ UNCHANGED <<text, told>>

Tell(d) ==
    /\ posted[d] = 1
    /\ told' = told \cup {d}
    /\ UNCHANGED <<text, posted>>

NextPosts == \E d \in Drafts : \/ \E c \in Contents : Keep(d, c)
                               \/ Appear(d)
                               \/ Tell(d)

PostSpec == InitPosts /\ [][NextPosts]_postVars
=============================================================================
