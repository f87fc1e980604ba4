------------------------------ MODULE VideoFetch ------------------------------
(***************************************************************************)
(* scripts/fetch_video.py: plans one yt-dlp command per video file, with   *)
(* the files that are there at that moment, runs the commands one after    *)
(* the other, checks the height of each download, and exits with a code.   *)
(* A talk is a video of its own or a chapter of a longer one; chapters of  *)
(* one source share its file.  The process may die at any time, and the    *)
(* operator removes files.                                                 *)
(***************************************************************************)
EXTENDS Catalog, Integers, Sequences, FiniteSets, FiniteSetsExt

CONSTANTS
  Chapters,                \* talks with a source_video_id
  EndOf,                   \* EndOf[t]: source_end_sec of a chapter
  Listings,                \* the talks.yaml of each corpus
  PathOrder,               \* PathOrder[m]: where m's path comes among all paths
  SAFETY_PAD_SEC,
  Whole,                   \* more seconds than any source has
  MaxFetches               \* bound: runs of the script

ASSUME ListingAssumption == Chapters \subseteq Talks /\ Listings \subseteq SUBSET Talks
\* A file's path has its corpus in it.
ASSUME PathAssumption ==
  /\ PathOrder \in [Movies -> Nat]
  /\ \A m, n \in Movies : PathOrder[m] = PathOrder[n] => m = n
  /\ \A listing \in Listings, t, u \in Talks :
       t \in listing /\ MovieOf[t] = MovieOf[u] => u \in listing
\* No talk is the whole of a video another talk is a chapter of.
ASSUME SourceAssumption ==
  \A t, u \in Talks : MovieOf[t] = MovieOf[u] => (t \in Chapters <=> u \in Chapters)
ASSUME EndAssumption ==
  /\ SAFETY_PAD_SEC \in Nat /\ Whole \in Nat /\ EndOf \in [Chapters -> 0..Whole]

VARIABLES
  file,      \* what is under videos/: NoFile, or its seconds and its height
  plan,      \* commands of the run that are yet to come
  failures,  \* whether one has failed
  fetch,     \* how the last run ended, "running" or "none"
  fetches,   \* runs started
  planned,   \* all commands of the run
  gone,      \* files the operator removed since it started
  vouched    \* files a run exited with 0 for, "tall" if it fetched them and
             \* "there" if not, that nobody removed or had fetched again since

script == <<plan, failures, fetch, fetches, planned>>
fetchVars == <<file, script, gone, vouched>>

NoFile == [until |-> 0, tall |-> FALSE]
Exists(m) == file[m] # NoFile

\* The seconds of its source a talk needs.
Needs(t) == IF t \in Chapters THEN EndOf[t] ELSE Whole

\* Files that earlier runs may have left, for one of the talks.
Leftovers(m) ==
  {NoFile} \cup {[until |-> Needs(t), tall |-> b] :
                   t \in {u \in Talks : MovieOf[u] = m}, b \in BOOLEAN}

FetchInit ==
  /\ file \in {f \in [Movies -> UNION {Leftovers(m) : m \in Movies}] :
                 \A m \in Movies : f[m] \in Leftovers(m)}
  /\ plan = {} /\ failures = FALSE /\ fetch = "none" /\ fetches = 0
  /\ planned = {} /\ gone = {} /\ vouched = [m \in Movies |-> "no"]

-----------------------------------------------------------------------------
\* build_commands.

\* Bug: the run takes the one talk only.
SiblingsAlone(listing, t) == {t}

\* The talks of a run: the listing, or those that share one talk's file.
Siblings(listing, t) == {u \in listing : MovieOf[u] = MovieOf[t]}

Relevant(listing) == {listing} \cup {Siblings(listing, t) : t \in listing}

Until(members) ==
  LET sliced == members \cap Chapters IN
  IF sliced = {} THEN Whole ELSE Max({EndOf[t] : t \in sliced}) + SAFETY_PAD_SEC

\* Files that are there are skipped without --force.
Command(m, talks, force) ==
  [movie |-> m, skip |-> Exists(m) /\ ~force,
   until |-> Until({t \in talks : MovieOf[t] = m})]

BuildCommands(talks, force) ==
  {Command(m, talks, force) : m \in {MovieOf[t] : t \in talks}}

Fetched(commands) == {c.movie : c \in {d \in commands : ~d.skip}}

\* Bug: --force first removes the files it is going to replace.
FetchStartClearing(talks, force) ==
  /\ fetch # "running" /\ fetches < MaxFetches
  /\ plan' = BuildCommands(talks, force)
  /\ planned' = plan'
  /\ fetch' = "running" /\ failures' = FALSE /\ fetches' = fetches + 1
  /\ gone' = {}
  /\ vouched' = [m \in Movies |-> IF m \in Fetched(planned') THEN "no" ELSE vouched[m]]
  /\ file' = [m \in Movies |-> IF m \in Fetched(planned') THEN NoFile ELSE file[m]]

FetchStart(talks, force) ==
  /\ fetch # "running" /\ fetches < MaxFetches
  /\ plan' = BuildCommands(talks, force)
  /\ planned' = plan'
  /\ fetch' = "running" /\ failures' = FALSE /\ fetches' = fetches + 1
  /\ gone' = {}
  /\ vouched' = [m \in Movies |-> IF m \in Fetched(planned') THEN "no" ELSE vouched[m]]
  /\ UNCHANGED file

-----------------------------------------------------------------------------
\* run.

\* The commands run in the order of their paths.
IsNext(c) == c \in plan /\ \A d \in plan : PathOrder[c.movie] <= PathOrder[d.movie]

Popped(c) == plan' = plan \ {c} /\ UNCHANGED <<fetch, fetches, planned, gone, vouched>>

SkipCommand(c) ==
  /\ IsNext(c) /\ c.skip
  /\ Popped(c) /\ UNCHANGED <<file, failures>>

\* Bug: a low file is reported and forgotten.
DownloadUnchecked(c) ==
  /\ IsNext(c) /\ ~c.skip
  /\ \E f \in {[until |-> c.until, tall |-> b] : b \in BOOLEAN}
              \cup ({file[c.movie]} \ {NoFile}) :
       file' = [file EXCEPT ![c.movie] = f]
  /\ UNCHANGED failures
  /\ Popped(c)

\* yt-dlp wrote the file, low or tall, or kept the one it found; then the
\* height is checked, and a low file stays where it is.
Download(c) ==
  /\ IsNext(c) /\ ~c.skip
  /\ \E f \in {[until |-> c.until, tall |-> b] : b \in BOOLEAN}
              \cup ({file[c.movie]} \ {NoFile}) :
       /\ file' = [file EXCEPT ![c.movie] = f]
       /\ failures' = (failures \/ ~f.tall)
  /\ Popped(c)

\* yt-dlp returns an error, having replaced or removed the file or not, or it
\* wrote one and ffprobe returns the error.
DownloadFails(c) ==
  /\ IsNext(c) /\ ~c.skip
  /\ \E f \in {[until |-> c.until, tall |-> b] : b \in BOOLEAN} \cup {file[c.movie], NoFile} :
       file' = [file EXCEPT ![c.movie] = f]
  /\ failures' = TRUE
  /\ Popped(c)

FetchEnds ==
  /\ fetch = "running" /\ plan = {}
  /\ fetch' = IF failures THEN "one" ELSE "zero"
  /\ vouched' = [m \in Movies |->
       IF failures \/ m \in gone THEN vouched[m]
       ELSE IF m \in Fetched(planned) THEN "tall"
       ELSE IF \E c \in planned : c.movie = m /\ vouched[m] = "no" THEN "there"
       ELSE vouched[m]]
  /\ UNCHANGED <<file, plan, failures, fetches, planned, gone>>

FetchDies ==
  /\ fetch = "running"
  /\ fetch' = "dead" /\ plan' = {}
  /\ UNCHANGED <<file, failures, fetches, planned, gone, vouched>>

-----------------------------------------------------------------------------
RemoveFile(m) ==
  /\ Exists(m)
  /\ file' = [file EXCEPT ![m] = NoFile]
  /\ gone' = gone \cup {m}
  /\ vouched' = [vouched EXCEPT ![m] = "no"]
  /\ UNCHANGED script

FetchNext ==
  \/ \E listing \in Listings, force \in BOOLEAN :
       \E talks \in Relevant(listing) : FetchStart(talks, force)
  \/ \E c \in plan : SkipCommand(c) \/ Download(c) \/ DownloadFails(c)
  \/ FetchEnds \/ FetchDies
  \/ \E m \in Movies : RemoveFile(m)
=============================================================================
