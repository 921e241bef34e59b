------------------------------- MODULE MCListing ------------------------------
(* Three tasks and three labels on pages of two; one title is not there yet. *)
EXTENDS Listing

MCInitTasks == 1 .. 3
MCMapped == {2, 3}
MCWanted == {"subject", "extra"}
MCObsolete == {"edupage"}
MCHuman == {"human"}
MCInitTitle == [l \in LabelId |->
  CASE l = 1 -> "edupage" [] l = 2 -> "human" [] l = 3 -> "extra" [] OTHER -> NoTitle]
===============================================================================
