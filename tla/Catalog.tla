------------------------------ MODULE Catalog -------------------------------
(***************************************************************************)
(* The talks of all corpora and the video files they are sampled from.     *)
(***************************************************************************)

CONSTANTS
  Talks,    \* talks of all corpora
  Movies,   \* physical video files
  MovieOf   \* MovieOf[t]: the file of the talk's source; its chapters share it

ASSUME MovieAssumption == MovieOf \in [Talks -> Movies]
=============================================================================
