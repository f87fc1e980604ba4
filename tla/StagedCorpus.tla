----------------------------- MODULE StagedCorpus -----------------------------
(***************************************************************************)
(* fetch_video and ingest.cli_all on one machine: the files the driver's   *)
(* visual gate looks for, and frames are sampled from, are those that      *)
(* fetch_video puts there and the operator removes, at any moment of the   *)
(* driver's run.                                                           *)
(***************************************************************************)
EXTENDS VideoFetch, CorpusState

driverVars ==
  <<pc, corpus, todo, failed, gate, code, status, queue, chunked, embedded, runs>>

vars == <<fetchVars, driverVars>>

\* What path.exists() tells the driver.
Staged == {m \in Movies : Exists(m)}

Driver == INSTANCE CorpusDriver WITH staged <- Staged

ASSUME ListedAssumption == Listings = {TalksOf(c) : c \in Corpora}

Init == FetchInit /\ Driver!Init

Next ==
  \/ FetchNext /\ UNCHANGED driverVars
  \/ /\ UNCHANGED fetchVars
     /\ Driver!Step \/ \E c \in Corpora : Driver!Start(c)

Spec == Init /\ [][Next]_vars

-----------------------------------------------------------------------------
\* Each step of the two programs is one of the driver's, or one with which the
\* operator stages or removes one file: what is checked of CorpusDriver alone
\* holds with files that come and go as fetch_video makes them.
ImplementsDriver == Driver!Spec

\* A file for which fetch_video exited with 0 is there, and of the accepted
\* height if that run fetched it, until somebody removes it or has it fetched
\* again.  Hazard: files are looked for when the run is planned, not when their
\* turn comes, one failure of several counts, and the process may die.
ZeroMeansFetched ==
  \A m \in Movies :
    /\ vouched[m] # "no" => Exists(m)
    /\ vouched[m] = "tall" => file[m].tall

\* A file is never replaced by one that is too short for a chapter of its
\* source, whichever of the chapters the run was asked for.
WholeSource ==
  [][\A t \in Talks :
       file'[MovieOf[t]] \notin {file[MovieOf[t]], NoFile}
       => file'[MovieOf[t]].until >= Needs(t)]_vars
=============================================================================
