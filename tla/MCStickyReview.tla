--------------------------- MODULE MCStickyReview ---------------------------
(***************************************************************************)
(* Two jobs on a thread of at most four comments: enough for one to finish,*)
(* fail or overlap the other, and for a deletion to hide a comment from a  *)
(* job that is between two pages.                                          *)
(***************************************************************************)
EXTENDS StickyReview

MCJobs == 1..2
=============================================================================
