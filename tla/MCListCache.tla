----------------------------- MODULE MCListCache -----------------------------
(* Two pages, two requests that overlap, rows created and updated. *)
EXTENDS PagedList
=============================================================================
