------------------------------ MODULE MCArchive ------------------------------
(* Instances of Archive.                                                     *)
EXTENDS Archive

\* f gives the events and how often each may happen, n how many in all.
Of(f, n) == [e \in Events \cup {"all"} |->
  IF e = "all" THEN n ELSE IF e \in DOMAIN f THEN f[e] ELSE 0]

Everything == Of([post |-> 3, edit |-> 2, delete |-> 1, select |-> 2, start |-> 2, fail |-> 1,
                  miss |-> 1, overlap |-> 1], 6)
Reselection == Of([post |-> 2, select |-> 2, start |-> 1, overlap |-> 2], 6)
=============================================================================
