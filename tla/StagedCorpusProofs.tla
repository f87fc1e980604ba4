-------------------------- MODULE StagedCorpusProofs --------------------------
(***************************************************************************)
(* Theorems about StagedCorpus, for all corpora, chapters and files left   *)
(* by earlier runs, proved with TLAPS: what fetch_video's exit code is     *)
(* worth, and that a machine where it runs beside the driver is one that   *)
(* CorpusDriver describes; and those about CorpusDriver, for any number of *)
(* runs, and whatever is staged and removed meanwhile.                     *)
(***************************************************************************)
EXTENDS StagedCorpus, FiniteSetTheorems, TLAPS

Contents == [until : Nat, tall : BOOLEAN]
Commands == [movie : Movies, skip : BOOLEAN, until : Nat]

FetchTypeOK ==
  /\ file \in [Movies -> Contents]
  /\ plan \subseteq Commands /\ planned \subseteq Commands /\ plan \subseteq planned
  /\ failures \in BOOLEAN /\ fetch \in {"none", "running", "zero", "one", "dead"}
  /\ fetches \in Nat /\ gone \subseteq Movies
  /\ vouched \in [Movies -> {"no", "there", "tall"}]

\* A run has one command per file, and asks for enough of each source.
Plans ==
  /\ \A c, d \in planned : c.movie = d.movie => c = d
  /\ \A c \in plan, t \in Talks : MovieOf[t] = c.movie => c.until >= Needs(t)
  /\ fetch # "running" => plan = {}

\* What a run in progress has got done: nobody vouches for the files it fetches,
\* those it fetched are tall unless a failure was counted, and those it skips
\* are there, unless the operator removed them meanwhile.
Progress ==
  fetch = "running" =>
    /\ \A m \in Fetched(planned) :
         /\ vouched[m] = "no"
         /\ ~failures => m \in gone \/ m \in Fetched(plan) \/ file[m].tall
    /\ \A c \in planned : c.skip => c.movie \in gone \/ Exists(c.movie)

IInv == FetchTypeOK /\ Plans /\ Progress /\ ZeroMeansFetched

-----------------------------------------------------------------------------
\* What a command asks for.

\* A finite set of integers has a greatest element: a smallest subset without
\* one would lose the property with any of its elements.
LEMMA Greatest ==
  ASSUME NEW S \in SUBSET Int, IsFiniteSet(S), S # {}
  PROVE  Max(S) \in S /\ \A x \in S : Max(S) >= x
<1> DEFINE Bad == {T \in SUBSET S : T # {} /\ ~\E m \in T : \A x \in T : m >= x}
           Smaller == StrictSubsetOrdering(S)
<1>1. \E m \in S : \A x \in S : m >= x
  <2> SUFFICES ASSUME Bad # {}  PROVE FALSE
    OBVIOUS
  <2>1. IsWellFoundedOn(Smaller, SUBSET S)
    BY ONLY IsFiniteSet(S), FS_StrictSubsetOrderingWellFounded, FS_FiniteSubsetsOfFinite
  <2>2. Bad \subseteq SUBSET S
    OBVIOUS
  <2> HIDE DEF Smaller
  <2>3. PICK T \in Bad : \A U \in Bad : ~(<<U, T>> \in Smaller)
    <3> HIDE DEF Bad
    <3> QED
      BY ONLY <2>1, <2>2, Bad # {}, WFMin
  <2>4. PICK c \in T : TRUE
    BY <2>3
  <2>5. T \in SUBSET Int /\ c \in Int
    BY <2>3, <2>4
  <2>6. T \ {c} # {}
    BY <2>3, <2>4, <2>5
  <2>7. <<T \ {c}, T>> \in Smaller
    BY <2>3, <2>4 DEF Smaller, StrictSubsetOrdering
  <2>8. PICK f \in T \ {c} : \A x \in T \ {c} : f >= x
    BY <2>3, <2>6, <2>7
  <2>9. CASE f >= c
    <3>1. \A x \in T : f >= x
      BY <2>8, <2>9
    <3> QED
      BY <2>3, <2>8, <3>1
  <2>10. CASE ~(f >= c)
    <3>1. \A x \in T : c >= x
      BY <2>5, <2>8, <2>10
    <3> QED
      BY <2>3, <2>4, <3>1
  <2> QED
    BY <2>9, <2>10
<1> QED
  BY <1>1 DEF Max

\* Whichever chapters the run was asked for, the command covers every talk that
\* shares the file (build_commands groups the siblings of a source).
LEMMA CommandCovers ==
  ASSUME NEW listing \in Listings, NEW talks \in Relevant(listing), NEW u \in talks,
         NEW t \in Talks, MovieOf[t] = MovieOf[u]
  PROVE  /\ Until({v \in talks : MovieOf[v] = MovieOf[u]}) \in Nat
         /\ Until({v \in talks : MovieOf[v] = MovieOf[u]}) >= Needs(t)
<1> DEFINE members == {v \in talks : MovieOf[v] = MovieOf[u]}
           sliced == members \cap Chapters
           ends == {EndOf[v] : v \in sliced}
<1>1. listing \subseteq Talks /\ talks \subseteq listing /\ u \in members
  BY ListingAssumption DEF Relevant, Siblings
<1>2. t \in listing /\ t \in talks
  BY <1>1, PathAssumption DEF Relevant, Siblings
<1>3. t \in members
  BY <1>2
<1>4. \A v \in sliced : EndOf[v] \in 0 .. Whole
  BY EndAssumption
<1>5. Whole \in Nat /\ SAFETY_PAD_SEC \in Nat
  BY EndAssumption
<1>6. CASE sliced = {}
  <2>1. Until(members) = Whole
    BY <1>6 DEF Until
  <2>2. t \notin Chapters
    BY <1>3, <1>6
  <2> QED
    BY <1>5, <2>1, <2>2 DEF Needs
<1>7. CASE sliced # {}
  <2>1. ends \in SUBSET (0 .. Whole) /\ ends # {}
    BY <1>4, <1>7
  <2>2. IsFiniteSet(0 .. Whole)
    BY <1>5, FS_Interval
  <2>3. IsFiniteSet(ends) /\ ends \in SUBSET Int
    <3> HIDE DEF ends
    <3>1. IsFiniteSet(ends)
      BY <2>1, <2>2, FS_Subset
    <3>2. \A x \in 0 .. Whole : x \in Int
      OBVIOUS
    <3>3. \A x \in ends : x \in Int
      BY ONLY <2>1, <3>2
    <3> QED
      BY ONLY <3>1, <3>3
  <2>4. Max(ends) \in ends /\ \A x \in ends : Max(ends) >= x
    <3> HIDE DEF ends
    <3> QED
      BY <2>1, <2>3, Greatest
  <2>5. Until(members) = Max(ends) + SAFETY_PAD_SEC
    BY <1>7 DEF Until
  <2>6. Max(ends) \in Nat /\ Until(members) \in Nat /\ Until(members) >= Max(ends)
    BY <1>5, <2>1, <2>4, <2>5
  <2>7. PICK v \in sliced : TRUE
    BY <1>7
  <2>8. t \in Chapters
    <3>1. v \in Talks /\ MovieOf[v] = MovieOf[t] /\ v \in Chapters
      BY <1>1, <2>7
    <3> QED
      BY <3>1, SourceAssumption
  <2>9. EndOf[t] \in ends /\ Needs(t) = EndOf[t]
    BY <1>3, <2>8 DEF Needs
  <2>10. Max(ends) >= Needs(t) /\ Needs(t) \in Int
    BY <2>1, <2>4, <2>9
  <2> QED
    BY <2>6, <2>10
<1> QED
  BY <1>6, <1>7

-----------------------------------------------------------------------------
\* The steps of fetch_video and of the operator.

\* A run is planned with the files that are there.
LEMMA FetchStartKeeps ==
  ASSUME IInv, NEW listing \in Listings, NEW talks \in Relevant(listing),
         NEW force \in BOOLEAN, FetchStart(talks, force)
  PROVE  IInv' /\ file' = file
<1>1. /\ plan' = BuildCommands(talks, force) /\ planned' = plan'
      /\ fetch' = "running" /\ failures' = FALSE /\ fetches' = fetches + 1 /\ gone' = {}
      /\ vouched' = [m \in Movies |-> IF m \in Fetched(planned') THEN "no" ELSE vouched[m]]
      /\ file' = file
  BY DEF FetchStart
<1>2. talks \subseteq Talks
  BY ListingAssumption DEF Relevant, Siblings
<1>3. ASSUME NEW c \in plan'
      PROVE  /\ c \in Commands /\ (c.skip => Exists(c.movie))
             /\ \A t \in Talks : MovieOf[t] = c.movie => c.until >= Needs(t)
             /\ c = Command(c.movie, talks, force)
  <2>1. PICK u \in talks : c = Command(MovieOf[u], talks, force)
    BY <1>1, <1>3 DEF BuildCommands
  <2>2. MovieOf[u] \in Movies
    BY <1>2, MovieAssumption
  <2>3. /\ c.movie = MovieOf[u] /\ c.skip = (Exists(MovieOf[u]) /\ ~force)
        /\ c.until = Until({v \in talks : MovieOf[v] = MovieOf[u]})
    BY <2>1 DEF Command
  <2>4. c.until \in Nat /\ \A t \in Talks : MovieOf[t] = c.movie => c.until >= Needs(t)
    BY <1>2, <2>3, CommandCovers
  <2>5. c \in Commands
    <3>1. c = [movie |-> MovieOf[u], skip |-> (Exists(MovieOf[u]) /\ ~force),
               until |-> Until({v \in talks : MovieOf[v] = MovieOf[u]})]
      BY <2>1 DEF Command
    <3>2. (Exists(MovieOf[u]) /\ ~force) \in BOOLEAN
      OBVIOUS
    <3>3. Until({v \in talks : MovieOf[v] = MovieOf[u]}) \in Nat
      BY <2>3, <2>4
    <3> QED
      BY ONLY <2>2, <3>1, <3>2, <3>3 DEF Commands
  <2> QED
    BY <2>1, <2>3, <2>4, <2>5
<1>4. FetchTypeOK'
  <2>1. FetchTypeOK
    BY DEF IInv
  <2>2. plan' \subseteq Commands /\ planned' \subseteq Commands
    BY <1>1, <1>3
  <2>3. \A m \in Movies : vouched'[m] \in {"no", "tall", "there"}
    BY <1>1, <2>1 DEF FetchTypeOK
  <2>4. vouched' \in [Movies -> {"no", "tall", "there"}]
    BY <1>1, <2>3
  <2>5. fetches' \in Nat /\ gone' \subseteq Movies /\ file' \in [Movies -> Contents]
    BY <1>1, <2>1 DEF FetchTypeOK
  <2> QED
    BY <1>1, <2>2, <2>4, <2>5 DEF FetchTypeOK
<1>5. Plans'
  <2>1. \A c, d \in planned' : c.movie = d.movie => c = d
    BY <1>1, <1>3
  <2> QED
    BY <1>1, <1>3, <2>1 DEF Plans, Needs
<1>6. \A m \in Movies : vouched'[m] = IF m \in Fetched(planned') THEN "no" ELSE vouched[m]
  BY <1>1
<1>7. Progress'
  <2>1. ASSUME NEW m \in Fetched(planned')
        PROVE  vouched'[m] = "no" /\ m \in Fetched(plan')
    <3>1. m \in Movies
      BY <1>1, <1>3 DEF Fetched, Commands
    <3> QED
      BY <1>1, <1>6, <3>1
  <2>2. \A c \in planned' : c.skip => Exists(c.movie)'
    BY <1>1, <1>3 DEF Exists
  <2> QED
    BY <2>1, <2>2 DEF Progress, Fetched
<1>8. ZeroMeansFetched'
  BY <1>1, <1>6 DEF IInv, ZeroMeansFetched, Exists
<1> QED
  BY <1>1, <1>4, <1>5, <1>7, <1>8 DEF IInv

\* A skipped file is there already.
LEMMA SkipCommandKeeps ==
  ASSUME IInv, NEW c \in plan, SkipCommand(c)
  PROVE  IInv' /\ file' = file
<1>1. /\ c.skip /\ plan' = plan \ {c}
      /\ UNCHANGED <<fetch, fetches, planned, gone, vouched, file, failures>>
  BY DEF SkipCommand, Popped
<1>2. FetchTypeOK' /\ Plans' /\ ZeroMeansFetched'
  BY <1>1 DEF IInv, FetchTypeOK, Plans, ZeroMeansFetched, Exists, Needs
<1>3. Fetched(plan') = Fetched(plan)
  BY <1>1 DEF Fetched
<1>4. Progress'
  BY <1>1, <1>3 DEF IInv, Progress, Exists, Fetched
<1> QED
  BY <1>1, <1>2, <1>4 DEF IInv

\* A command that runs changes one file, and counts what is wrong with it.
LEMMA CommandKeeps ==
  ASSUME IInv, NEW c \in plan, Download(c) \/ DownloadFails(c)
  PROVE  /\ IInv' /\ c \in Commands
         /\ \E f \in Contents :
              /\ file' = [file EXCEPT ![c.movie] = f]
              /\ f \in {file[c.movie], NoFile} \/ f.until = c.until
<1>1. c \in Commands /\ c \in planned /\ fetch = "running"
  BY DEF IInv, FetchTypeOK, Plans
<1>2. /\ ~c.skip /\ plan' = plan \ {c} /\ UNCHANGED <<fetch, fetches, planned, gone, vouched>>
  BY DEF Download, DownloadFails, Popped
<1>3. c.movie \in Movies /\ c.until \in Nat /\ file[c.movie] \in Contents /\ NoFile \in Contents
  BY <1>1 DEF Commands, IInv, FetchTypeOK, NoFile, Contents
<1>4. \E f \in Contents :
        /\ file' = [file EXCEPT ![c.movie] = f]
        /\ f \in {file[c.movie], NoFile} \/ f.until = c.until
        /\ failures' \in BOOLEAN /\ (~failures' => f.tall /\ ~failures)
  <2>1. CASE Download(c)
    <3>1. PICK f \in {[until |-> c.until, tall |-> b] : b \in BOOLEAN}
                     \cup ({file[c.movie]} \ {NoFile}) :
            /\ file' = [file EXCEPT ![c.movie] = f]
            /\ failures' = (failures \/ ~f.tall)
      BY <2>1 DEF Download
    <3>2. CASE f = file[c.movie]
      <4>1. f \in Contents /\ f.tall \in BOOLEAN
        BY <1>3, <3>2 DEF Contents
      <4> QED
        BY <3>1, <3>2, <4>1 DEF IInv, FetchTypeOK
    <3>3. CASE \E b \in BOOLEAN : f = [until |-> c.until, tall |-> b]
      <4>1. f \in Contents /\ f.tall \in BOOLEAN /\ f.until = c.until
        BY <1>3, <3>3 DEF Contents
      <4> QED
        BY <3>1, <4>1 DEF IInv, FetchTypeOK
    <3> QED
      BY <3>1, <3>2, <3>3
  <2>2. CASE DownloadFails(c)
    <3>1. failures' = TRUE
      BY <2>2 DEF DownloadFails
    <3>2. PICK f \in {[until |-> c.until, tall |-> b] : b \in BOOLEAN}
                     \cup {file[c.movie], NoFile} :
            file' = [file EXCEPT ![c.movie] = f]
      BY <2>2 DEF DownloadFails
    <3>3. CASE f \in {file[c.movie], NoFile}
      <4>1. f \in Contents
        BY <1>3, <3>3
      <4> QED
        BY <3>1, <3>2, <3>3, <4>1
    <3>4. CASE \E b \in BOOLEAN : f = [until |-> c.until, tall |-> b]
      <4>1. f \in Contents /\ f.until = c.until
        BY <1>3, <3>4 DEF Contents
      <4> QED
        BY <3>1, <3>2, <4>1
    <3> QED
      BY <3>2, <3>3, <3>4
  <2> QED
    BY <2>1, <2>2
<1>5. PICK f \in Contents :
        /\ file' = [file EXCEPT ![c.movie] = f]
        /\ f \in {file[c.movie], NoFile} \/ f.until = c.until
        /\ failures' \in BOOLEAN /\ (~failures' => f.tall /\ ~failures)
  BY <1>4
<1>6. file'[c.movie] = f /\ \A m \in Movies \ {c.movie} : file'[m] = file[m]
  BY <1>3, <1>5 DEF IInv, FetchTypeOK
<1>7. FetchTypeOK'
  BY <1>2, <1>5 DEF IInv, FetchTypeOK
<1>8. Plans'
  BY <1>1, <1>2 DEF IInv, Plans, Needs
<1>9. c.movie \in Fetched(planned) /\ vouched[c.movie] = "no"
  BY <1>1, <1>2 DEF Fetched, IInv, Progress
<1>10. ZeroMeansFetched'
  <2>1. ASSUME NEW m \in Movies
        PROVE  (vouched'[m] # "no" => Exists(m)') /\ (vouched'[m] = "tall" => file'[m].tall)
    <3>1. CASE m = c.movie
      BY <1>2, <1>9, <3>1
    <3>2. CASE m # c.movie
      BY <1>2, <1>6, <3>2 DEF IInv, ZeroMeansFetched, Exists
    <3> QED
      BY <3>1, <3>2
  <2> QED
    BY <2>1 DEF ZeroMeansFetched
<1>11. Progress'
  <2>1. ASSUME NEW m \in Fetched(planned)
        PROVE  /\ vouched'[m] = "no"
               /\ ~failures' => m \in gone' \/ m \in Fetched(plan') \/ file'[m].tall
    <3>1. vouched[m] = "no" /\ (~failures => m \in gone \/ m \in Fetched(plan) \/ file[m].tall)
      BY <1>1 DEF IInv, Progress
    <3>2. m \in Movies
      BY DEF Fetched, IInv, FetchTypeOK, Commands
    <3>3. CASE m = c.movie
      BY <1>2, <1>5, <1>6, <3>1, <3>3
    <3>4. CASE m # c.movie
      <4>1. m \in Fetched(plan) => m \in Fetched(plan')
        BY <1>2, <3>4 DEF Fetched
      <4> QED
        BY <1>2, <1>5, <1>6, <3>1, <3>2, <3>4, <4>1
    <3> QED
      BY <3>3, <3>4
  <2>2. ASSUME NEW d \in planned, d.skip  PROVE d.movie \in gone' \/ Exists(d.movie)'
    <3>1. d.movie # c.movie
      BY <1>1, <1>2, <2>2 DEF IInv, Plans
    <3>2. d.movie \in Movies
      BY DEF IInv, FetchTypeOK, Commands
    <3>3. d.movie \in gone \/ Exists(d.movie)
      BY <1>1, <2>2 DEF IInv, Progress
    <3> QED
      BY <1>2, <1>6, <3>1, <3>2, <3>3 DEF Exists
  <2>3. Fetched(planned') = Fetched(planned) /\ planned' = planned
    BY <1>2
  <2> QED
    BY <2>1, <2>2, <2>3 DEF Progress, Fetched
<1> QED
  BY <1>1, <1>5, <1>7, <1>8, <1>10, <1>11 DEF IInv

\* The exit code vouches for the files.
LEMMA FetchEndsKeeps ==
  ASSUME IInv, FetchEnds
  PROVE  IInv' /\ file' = file
<1>1. /\ fetch = "running" /\ plan = {}
      /\ fetch' = (IF failures THEN "one" ELSE "zero")
      /\ vouched' = [m \in Movies |->
           IF failures \/ m \in gone THEN vouched[m]
           ELSE IF m \in Fetched(planned) THEN "tall"
           ELSE IF \E c \in planned : c.movie = m /\ vouched[m] = "no" THEN "there"
           ELSE vouched[m]]
      /\ UNCHANGED <<file, plan, failures, fetches, planned, gone>>
  BY DEF FetchEnds
<1>2. FetchTypeOK' /\ Plans' /\ Progress'
  BY <1>1 DEF IInv, FetchTypeOK, Plans, Progress, Needs
<1>3. ASSUME NEW m \in Movies
      PROVE  (vouched'[m] # "no" => Exists(m)) /\ (vouched'[m] = "tall" => file[m].tall)
  <2>1. (vouched[m] # "no" => Exists(m)) /\ (vouched[m] = "tall" => file[m].tall)
    BY DEF IInv, ZeroMeansFetched
  <2>2. CASE failures \/ m \in gone
    BY <1>1, <2>1, <2>2
  <2>3. CASE ~failures /\ m \notin gone /\ m \in Fetched(planned)
    <3>1. m \notin Fetched(plan)
      BY <1>1 DEF Fetched
    <3>2. file[m].tall
      BY <1>1, <2>3, <3>1 DEF IInv, Progress
    <3>3. Exists(m)
      BY <3>2 DEF Exists, NoFile
    <3> QED
      BY <3>2, <3>3
  <2>4. CASE ~failures /\ m \notin gone /\ m \notin Fetched(planned)
    <3>1. CASE \E c \in planned : c.movie = m /\ vouched[m] = "no"
      <4>1. PICK c \in planned : c.movie = m
        BY <3>1
      <4>2. c.skip
        BY <2>4, <4>1 DEF Fetched
      <4>3. Exists(m)
        BY <1>1, <2>4, <4>1, <4>2 DEF IInv, Progress
      <4>4. vouched'[m] = "there"
        BY <1>1, <2>4, <3>1
      <4> QED
        BY <4>3, <4>4
    <3>2. CASE ~\E c \in planned : c.movie = m /\ vouched[m] = "no"
      BY <1>1, <2>1, <2>4, <3>2
    <3> QED
      BY <3>1, <3>2
  <2> QED
    BY <2>2, <2>3, <2>4
<1>4. ZeroMeansFetched'
  BY <1>1, <1>3 DEF ZeroMeansFetched, Exists
<1> QED
  BY <1>1, <1>2, <1>4 DEF IInv

\* A run that dies has only lost what it had yet to do.
LEMMA FetchDiesKeeps ==
  ASSUME IInv, FetchDies
  PROVE  IInv' /\ file' = file
<1>1. fetch' = "dead" /\ plan' = {} /\ UNCHANGED <<file, failures, fetches, planned, gone, vouched>>
  BY DEF FetchDies
<1> QED
  BY <1>1 DEF IInv, FetchTypeOK, Plans, Progress, ZeroMeansFetched, Exists, Needs

\* What the operator removes is no longer vouched for.
LEMMA RemoveFileKeeps ==
  ASSUME IInv, NEW m \in Movies, RemoveFile(m)
  PROVE  IInv' /\ file' = [file EXCEPT ![m] = NoFile]
<1>1. /\ file' = [file EXCEPT ![m] = NoFile] /\ gone' = gone \cup {m}
      /\ vouched' = [vouched EXCEPT ![m] = "no"]
      /\ UNCHANGED <<plan, failures, fetch, fetches, planned>>
  BY DEF RemoveFile, script
<1>2. FetchTypeOK'
  BY <1>1 DEF IInv, FetchTypeOK, NoFile, Contents
<1>3. /\ vouched'[m] = "no" /\ m \in gone' /\ gone \subseteq gone'
      /\ \A n \in Movies \ {m} : file'[n] = file[n] /\ vouched'[n] = vouched[n]
  BY <1>1 DEF IInv, FetchTypeOK
<1>4. Plans'
  BY <1>1 DEF IInv, Plans, Needs
<1>5. ZeroMeansFetched'
  BY <1>3 DEF IInv, ZeroMeansFetched, Exists
<1>6. Progress'
  <2>1. \A c \in planned : c.movie \in Movies
    BY DEF IInv, FetchTypeOK, Commands
  <2>2. Fetched(planned) \subseteq Movies
    BY <2>1 DEF Fetched
  <2>3. Fetched(planned') = Fetched(planned) /\ Fetched(plan') = Fetched(plan)
    BY <1>1
  <2>4. fetch = "running" => \A n \in Fetched(planned) :
          /\ vouched'[n] = "no"
          /\ ~failures' => n \in gone' \/ n \in Fetched(plan') \/ file'[n].tall
    BY <1>1, <1>3, <2>2, <2>3 DEF IInv, Progress
  <2>5. fetch = "running" => \A c \in planned : c.skip => c.movie \in gone' \/ Exists(c.movie)'
    BY <1>3, <2>1 DEF IInv, Progress, Exists
  <2> QED
    BY <1>1, <2>3, <2>4, <2>5 DEF Progress, Fetched
<1> QED
  BY <1>1, <1>2, <1>4, <1>5, <1>6 DEF IInv

\* A step of fetch_video or of the operator changes one file at most, and
\* replaces it only by one its run asked for.
LEMMA FetchNextKeeps ==
  ASSUME IInv, FetchNext
  PROVE  /\ IInv'
         /\ \/ file' = file
            \/ \E m \in Movies, f \in Contents :
                 /\ file' = [file EXCEPT ![m] = f]
                 /\ \/ f \in {file[m], NoFile}
                    \/ \A t \in Talks : MovieOf[t] = m => f.until >= Needs(t)
<1>1. ASSUME NEW listing \in Listings, NEW force \in BOOLEAN, NEW talks \in Relevant(listing),
             FetchStart(talks, force)
      PROVE  IInv' /\ file' = file
  BY <1>1, FetchStartKeeps
<1>2. ASSUME NEW c \in plan, Download(c) \/ DownloadFails(c)
      PROVE  /\ IInv'
             /\ \E m \in Movies, f \in Contents :
                  /\ file' = [file EXCEPT ![m] = f]
                  /\ \/ f \in {file[m], NoFile}
                     \/ \A t \in Talks : MovieOf[t] = m => f.until >= Needs(t)
  <2>1. /\ IInv' /\ c \in Commands
        /\ \E f \in Contents :
             /\ file' = [file EXCEPT ![c.movie] = f]
             /\ f \in {file[c.movie], NoFile} \/ f.until = c.until
    BY <1>2, CommandKeeps
  <2>2. c.movie \in Movies
    BY <2>1 DEF Commands
  <2>3. \A t \in Talks : MovieOf[t] = c.movie => c.until >= Needs(t)
    BY DEF IInv, Plans
  <2> QED
    BY <2>1, <2>2, <2>3
<1>3. ASSUME NEW m \in Movies, RemoveFile(m)
      PROVE  IInv' /\ file' = [file EXCEPT ![m] = NoFile] /\ NoFile \in Contents
  BY <1>3, RemoveFileKeeps DEF NoFile, Contents
<1> QED
  BY <1>1, <1>2, <1>3, SkipCommandKeeps, FetchEndsKeeps, FetchDiesKeeps DEF FetchNext

-----------------------------------------------------------------------------
\* The invariant.

\* Whatever earlier runs left of the movies satisfies the invariant.
LEMMA InitIInv == Init => IInv
<1> SUFFICES ASSUME Init  PROVE IInv
  OBVIOUS
<1>1. FetchInit
  BY DEF Init
<1>2. \A t \in Talks : Needs(t) \in Nat
  BY EndAssumption DEF Needs
<1>3. file \in [Movies -> Contents]
  <2>1. file \in [Movies -> UNION {Leftovers(m) : m \in Movies}]
    BY <1>1 DEF FetchInit
  <2>2. ASSUME NEW m \in Movies, NEW f \in Leftovers(m)
        PROVE  f \in Contents
    <3>1. CASE f = NoFile
      BY <3>1 DEF Contents, NoFile
    <3>2. CASE \E t \in {u \in Talks : MovieOf[u] = m}, b \in BOOLEAN :
                  f = [until |-> Needs(t), tall |-> b]
      <4>1. PICK t \in Talks, b \in BOOLEAN : f = [until |-> Needs(t), tall |-> b]
        BY <3>2
      <4> QED
        BY <1>2, <4>1 DEF Contents
    <3> QED
      BY <2>2, <3>1, <3>2 DEF Leftovers
  <2> QED
    BY <2>1, <2>2
<1>4. FetchTypeOK
  BY <1>1, <1>3 DEF FetchInit, FetchTypeOK
<1>5. Plans /\ Progress /\ ZeroMeansFetched
  BY <1>1 DEF FetchInit, Plans, Progress, ZeroMeansFetched
<1> QED
  BY <1>4, <1>5 DEF IInv

\* Every step of fetch_video or of the driver keeps the invariant.
LEMMA NextIInv == IInv /\ [Next]_vars => IInv'
<1> SUFFICES ASSUME IInv, [Next]_vars  PROVE IInv'
  OBVIOUS
<1>1. CASE FetchNext
  BY <1>1, FetchNextKeeps
<1>2. CASE UNCHANGED fetchVars
  BY <1>2 DEF fetchVars, script, IInv, FetchTypeOK, Plans, Progress, ZeroMeansFetched, Exists,
     Needs, Fetched
<1> QED
  BY <1>1, <1>2 DEF Next, vars

\* The invariant holds throughout.
LEMMA AlwaysIInv == Spec => []IInv
<1> QED
  BY InitIInv, NextIInv, PTL DEF Spec

\* A file that fetch_video exited with 0 for is there and, if that run fetched
\* it, of the accepted height (run, _assert_min_height).
THEOREM ZeroIsFetched == Spec => []ZeroMeansFetched
<1>1. IInv => ZeroMeansFetched
  BY DEF IInv
<1> QED
  BY <1>1, AlwaysIInv, PTL

\* A file is never replaced by one too short for a chapter of its source.
THEOREM SourcesStayWhole == Spec => WholeSource
<1>1. IInv /\ [Next]_vars =>
        [\A t \in Talks :
           file'[MovieOf[t]] \notin {file[MovieOf[t]], NoFile}
           => file'[MovieOf[t]].until >= Needs(t)]_vars
  <2> SUFFICES ASSUME IInv, [Next]_vars, NEW t \in Talks,
                      file'[MovieOf[t]] \notin {file[MovieOf[t]], NoFile}
               PROVE  file'[MovieOf[t]].until >= Needs(t)
    OBVIOUS
  <2>1. MovieOf[t] \in Movies
    BY MovieAssumption
  <2>2. file' # file
    OBVIOUS
  <2>3. FetchNext
    BY <2>2 DEF Next, vars, fetchVars
  <2>4. PICK m \in Movies, f \in Contents :
          /\ file' = [file EXCEPT ![m] = f]
          /\ \/ f \in {file[m], NoFile}
             \/ \A u \in Talks : MovieOf[u] = m => f.until >= Needs(u)
    BY <2>2, <2>3, FetchNextKeeps
  <2>5. m = MovieOf[t] /\ file'[m] = f
    BY <2>1, <2>4 DEF IInv, FetchTypeOK
  <2> QED
    BY <2>4, <2>5
<1> QED
  BY <1>1, AlwaysIInv, PTL DEF Spec, WholeSource

-----------------------------------------------------------------------------
\* Refinement of CorpusDriver.

\* A step of fetch_video is, for the driver, one file that comes or goes, or
\* nothing at all.
LEMMA FetchImplements ==
  ASSUME IInv, FetchNext, UNCHANGED driverVars
  PROVE  [Driver!Next]_(Driver!vars)
<1>1. UNCHANGED <<pc, corpus, todo, failed, gate, code, status, queue, chunked, embedded, runs>>
  BY DEF driverVars
<1>2. Staged' = Staged \/ \E m \in Movies :
        Staged' = IF m \in Staged THEN Staged \ {m} ELSE Staged \cup {m}
  <2>1. CASE file' = file
    BY <2>1 DEF Staged, Exists
  <2>2. CASE file' # file
    <3>1. PICK m \in Movies, f \in Contents : file' = [file EXCEPT ![m] = f]
      BY <2>2, FetchNextKeeps
    <3>2. \A n \in Movies \ {m} : Exists(n)' <=> Exists(n)
      BY <3>1 DEF Exists, IInv, FetchTypeOK
    <3>3. Staged \subseteq Movies /\ \A n \in Movies : n \in Staged <=> Exists(n)
      BY DEF Staged
    <3>4. Staged' \subseteq Movies /\ \A n \in Movies : n \in Staged' <=> Exists(n)'
      BY DEF Staged
    <3>5. \A n \in Movies \ {m} : n \in Staged' <=> n \in Staged
      BY <3>2, <3>3, <3>4
    <3> QED
      BY <3>3, <3>4, <3>5
  <2> QED
    BY <2>1, <2>2
<1>3. CASE Staged' = Staged
  BY <1>1, <1>3 DEF Driver!vars, Driver!run, Driver!tables
<1>4. ASSUME NEW m \in Movies, Staged' = IF m \in Staged THEN Staged \ {m} ELSE Staged \cup {m}
      PROVE  Driver!StageOrRemove(m)
  BY <1>1, <1>4 DEF Driver!StageOrRemove, Driver!run, Driver!tables
<1> QED
  BY <1>2, <1>3, <1>4 DEF Driver!Next

\* Files that come and go as fetch_video makes them are files that come and go
\* as CorpusDriver lets them: every behaviour of the two programs on one machine
\* is one of CorpusDriver's.
THEOREM StagedImplementsDriver == Spec => ImplementsDriver
<1>1. Init => Driver!Init
  BY DEF Init
<1>2. IInv /\ [Next]_vars => [Driver!Next]_(Driver!vars)
  <2> SUFFICES ASSUME IInv, [Next]_vars  PROVE [Driver!Next]_(Driver!vars)
    OBVIOUS
  <2>1. CASE FetchNext /\ UNCHANGED driverVars
    BY <2>1, FetchImplements
  <2>2. CASE Driver!Step \/ \E c \in Corpora : Driver!Start(c)
    BY <2>2 DEF Driver!Next
  <2>3. CASE UNCHANGED vars
    BY <2>3 DEF vars, driverVars, fetchVars, Driver!vars, Driver!run, Driver!tables, Staged, Exists
  <2> QED
    BY <2>1, <2>2, <2>3 DEF Next
<1> QED
  BY <1>1, <1>2, AlwaysIInv, PTL DEF Spec, ImplementsDriver, Driver!Spec

-----------------------------------------------------------------------------
(***************************************************************************)
(* The driver alone, whatever is staged and removed meanwhile: theorems    *)
(* about CorpusDriver.                                                     *)
(***************************************************************************)

\* Video files on disk, as the driver alone sees them.
VARIABLE staged

CD == INSTANCE CorpusDriver

-----------------------------------------------------------------------------
\* The queues.

\* Some message of a queue is about t.
In(s, t) == \E i \in DOMAIN s : s[i] = t

\* A sent message is last, the others stay.
LEMMA AppendIn ==
  ASSUME NEW S, NEW s \in Seq(S), NEW x \in S
  PROVE  /\ Append(s, x) \in Seq(S) /\ In(Append(s, x), x)
         /\ \A y : In(s, y) => In(Append(s, x), y)
<1>1. /\ Append(s, x) \in Seq(S) /\ Len(s) \in Nat /\ DOMAIN s = 1 .. Len(s)
      /\ DOMAIN Append(s, x) = 1 .. Len(s) + 1 /\ Append(s, x)[Len(s) + 1] = x
      /\ \A i \in 1 .. Len(s) : Append(s, x)[i] = s[i]
  OBVIOUS
<1>2. Len(s) + 1 \in DOMAIN Append(s, x) /\ DOMAIN s \subseteq DOMAIN Append(s, x)
  BY <1>1
<1> QED
  BY <1>1, <1>2 DEF In

\* A message that is archived is the first one, the others stay.
LEMMA TailIn ==
  ASSUME NEW S, NEW s \in Seq(S), s # <<>>
  PROVE  /\ Tail(s) \in Seq(S) /\ Head(s) \in S
         /\ \A y : In(s, y) /\ y # Head(s) => In(Tail(s), y)
<1>1. /\ Tail(s) \in Seq(S) /\ Len(s) \in Nat /\ DOMAIN s = 1 .. Len(s) /\ Head(s) = s[1]
      /\ Head(s) \in S /\ DOMAIN Tail(s) = 1 .. Len(s) - 1
      /\ \A i \in 1 .. Len(s) - 1 : Tail(s)[i] = s[i + 1]
  OBVIOUS
<1>2. ASSUME NEW y, In(s, y), y # Head(s)  PROVE In(Tail(s), y)
  <2>1. PICK i \in 1 .. Len(s) : s[i] = y
    BY <1>1, <1>2 DEF In
  <2>2. i - 1 \in 1 .. Len(s) - 1 /\ Tail(s)[i - 1] = y
    BY <1>1, <1>2, <2>1
  <2> QED
    BY <1>1, <2>2 DEF In
<1> QED
  BY <1>1, <1>2

-----------------------------------------------------------------------------
\* The inductive invariant.

DriverPhases ==
  {"idle", "fetch", "chunk", "embed_text", "gate", "frame_sample", "embed_frames", "report"}

DriverTypeOK ==
  /\ pc \in DriverPhases /\ corpus \in Corpora /\ todo \subseteq Talks /\ failed \subseteq Talks
  /\ gate \in {"none", "no_visual", "unstaged", "all", "partial"}
  /\ code \in {"none", "zero", "one", "no_video", "raised"}
  /\ status \in [CD!Jobs -> {"absent", "pending", "skipped", "completed"}]
  /\ queue \in [CD!Steps -> Seq(Talks)]
  /\ chunked \subseteq Talks /\ embedded \subseteq Talks /\ staged \subseteq Movies
  /\ runs \in Nat

\* Only the sampling of a talk without video is skipped; a completed chunk job
\* left chunks, unless the transcript has none; and a chunk that is not embedded
\* has a job to come.
DriverLanes ==
  /\ \A t \in Talks : status[<<"chunk", t>>] # "skipped"
  /\ \A t \in Visual : status[<<"frame_sample", t>>] # "skipped"
  /\ \A t \in Talks \ Empty : status[<<"chunk", t>>] = "completed" => t \in chunked
  /\ \A t \in chunked : status[<<"embed_text", t>>] # "pending" => t \in embedded

\* What the run in progress has got done, by its phase.
DriverPhase ==
  /\ pc \notin {"idle", "fetch"} => todo = {}
  /\ pc # "idle" => \A t \in CD!TalksOf(corpus) \ (todo \cup failed) :
       /\ status[<<"chunk", t>>] # "absent"
       /\ t \in Visual => status[<<"frame_sample", t>>] # "absent"
  /\ pc \in {"embed_text", "gate", "frame_sample", "embed_frames", "report"} =>
       queue["chunk"] = <<>>
  /\ pc \in {"gate", "frame_sample", "embed_frames", "report"} => queue["embed_text"] = <<>>
  /\ pc \in {"frame_sample", "embed_frames"} => gate = "all"
  /\ pc = "embed_frames" => queue["frame_sample"] = <<>>
  /\ pc = "report" =>
       /\ gate # "none"
       /\ gate = "all" => queue["frame_sample"] = <<>> /\ queue["embed_frames"] = <<>>

DriverInv == DriverTypeOK /\ CD!PendingIsQueued /\ DriverLanes /\ DriverPhase /\ CD!ZeroMeansDone

\* PendingIsQueued, by the positions of the messages.
LEMMA QueuedIn ==
  CD!PendingIsQueued <=> \A q \in CD!Steps, t \in Talks :
    status[<<q, t>>] = "pending" => In(queue[q], t)
BY DEF CD!PendingIsQueued, In, CD!Jobs

-----------------------------------------------------------------------------
\* One lemma per operation.

USE CorpusAssumption, SubsetsAssumption, MaxRunsAssumption, MovieAssumption

\* Starting the driver for a corpus keeps the invariant.
LEMMA StartKeeps ==
  ASSUME DriverInv, NEW c \in Corpora, CD!Start(c)  PROVE DriverInv'
<1>1. DriverTypeOK' /\ pc' = "fetch" /\ corpus' = c /\ todo' = CD!TalksOf(c) /\ UNCHANGED CD!tables
  BY DEF DriverInv, DriverTypeOK, CD!Start, CD!TalksOf, DriverPhases, CD!tables
<1>2. CD!PendingIsQueued' /\ DriverLanes'
  BY <1>1 DEF DriverInv, CD!PendingIsQueued, DriverLanes, CD!tables
<1>3. DriverPhase' /\ CD!ZeroMeansDone'
  BY <1>1 DEF DriverPhase, CD!ZeroMeansDone, CD!TalksOf
<1> QED
  BY <1>1, <1>2, <1>3 DEF DriverInv

\* Reconciling a talk keeps the invariant: the row it makes pending is queued with it.
LEMMA ReconcileKeeps ==
  ASSUME DriverInv, NEW t \in Talks, CD!Reconcile(t)  PROVE DriverInv'
<1>1. /\ pc = "fetch" /\ todo' = todo \ {t}
      /\ UNCHANGED <<pc, corpus, failed, gate, code, chunked, embedded, staged, runs>>
  BY DEF CD!Reconcile
<1> DEFINE sampling == IF t \in Visual THEN "pending" ELSE "skipped"
<1>2. /\ \A j \in CD!Jobs : status'[j] =
           IF j = <<"chunk", t>> THEN "pending"
           ELSE IF j = <<"frame_sample", t>> THEN sampling ELSE status[j]
      /\ status' \in [CD!Jobs -> {"absent", "pending", "skipped", "completed"}]
  <2>1. /\ status' = [status EXCEPT ![<<"chunk", t>>] = "pending",
                                    ![<<"frame_sample", t>>] = sampling]
        /\ status \in [CD!Jobs -> {"absent", "pending", "skipped", "completed"}]
    BY DEF CD!Reconcile, DriverInv, DriverTypeOK
  <2>2. <<"chunk", t>> \in CD!Jobs /\ <<"frame_sample", t>> \in CD!Jobs
        /\ <<"chunk", t>> # <<"frame_sample", t>>
    BY DEF CD!Jobs, CD!Steps
  <2>3. sampling \in {"pending", "skipped"}
    OBVIOUS
  <2> HIDE DEF sampling
  <2> QED
    BY <2>1, <2>2, <2>3
<1>3. /\ queue'["chunk"] = Append(queue["chunk"], t)
      /\ queue'["frame_sample"] =
           IF t \in Visual THEN Append(queue["frame_sample"], t) ELSE queue["frame_sample"]
      /\ queue'["embed_text"] = queue["embed_text"]
      /\ queue'["embed_frames"] = queue["embed_frames"]
      /\ DOMAIN queue' = CD!Steps /\ queue' = [q \in CD!Steps |-> queue'[q]]
  BY DEF CD!Reconcile, DriverInv, DriverTypeOK, CD!Steps
<1>4. \A q \in CD!Steps : queue[q] \in Seq(Talks)
  BY DEF DriverInv, DriverTypeOK
<1>5. ASSUME NEW q \in CD!Steps
      PROVE  queue'[q] \in Seq(Talks) /\ \A u : In(queue[q], u) => In(queue'[q], u)
  <2>1. queue'[q] = queue[q] \/ queue'[q] = Append(queue[q], t)
    BY <1>3 DEF CD!Steps
  <2>2. queue[q] \in Seq(Talks)
    BY <1>4
  <2>3. /\ Append(queue[q], t) \in Seq(Talks)
        /\ \A u : In(queue[q], u) => In(Append(queue[q], t), u)
    BY <2>2, AppendIn
  <2> QED
    BY ONLY <2>1, <2>2, <2>3
<1>6. In(queue'["chunk"], t) /\ (t \in Visual => In(queue'["frame_sample"], t))
  BY <1>3, <1>4, AppendIn DEF CD!Steps
<1>7. DriverTypeOK'
  BY <1>1, <1>2, <1>3, <1>5 DEF DriverInv, DriverTypeOK
<1>8. CD!PendingIsQueued'
  <2>1. ASSUME NEW q \in CD!Steps, NEW u \in Talks, status'[<<q, u>>] = "pending"
        PROVE  In(queue'[q], u)
    <3>1. <<q, u>> \in CD!Jobs
      BY DEF CD!Jobs
    <3>2. CASE <<q, u>> = <<"chunk", t>> \/ <<q, u>> = <<"frame_sample", t>>
      BY <1>2, <1>6, <2>1, <3>1, <3>2
    <3>3. CASE ~(<<q, u>> = <<"chunk", t>> \/ <<q, u>> = <<"frame_sample", t>>)
      <4>1. status[<<q, u>>] = "pending"
        BY <1>2, <2>1, <3>1, <3>3
      <4> QED
        BY <1>5, <4>1, QueuedIn DEF DriverInv
    <3> QED
      BY <3>2, <3>3
  <2>2. CD!PendingIsQueued' <=> \A q \in CD!Steps, u \in Talks :
          status'[<<q, u>>] = "pending" => In(queue'[q], u)
    BY DEF CD!PendingIsQueued, In, CD!Jobs
  <2> QED
    BY <2>1, <2>2
<1>9. \A u \in Talks :
        /\ status'[<<"chunk", u>>] = IF u = t THEN "pending" ELSE status[<<"chunk", u>>]
        /\ status'[<<"frame_sample", u>>] =
             IF u = t THEN sampling ELSE status[<<"frame_sample", u>>]
        /\ status'[<<"embed_text", u>>] = status[<<"embed_text", u>>]
  BY <1>2 DEF CD!Jobs, CD!Steps
<1>10. DriverLanes'
  BY <1>1, <1>9 DEF DriverInv, DriverLanes, DriverTypeOK
<1>11. DriverPhase'
  BY <1>1, <1>9 DEF DriverInv, DriverPhase, CD!TalksOf
<1>12. CD!ZeroMeansDone'
  BY <1>1 DEF CD!ZeroMeansDone
<1> QED
  BY <1>7, <1>8, <1>10, <1>11, <1>12 DEF DriverInv

\* Steps that leave the tables alone.
LEMMA QuietKeeps ==
  ASSUME DriverInv, UNCHANGED CD!tables, DriverTypeOK', DriverPhase', CD!ZeroMeansDone'  PROVE DriverInv'
BY DEF DriverInv, CD!PendingIsQueued, DriverLanes, CD!tables

\* A fetch that fails keeps the invariant: its talk is remembered as failed.
LEMMA ReconcileFailsKeeps ==
  ASSUME DriverInv, NEW t \in Talks, CD!ReconcileFails(t)  PROVE DriverInv'
<1>1. UNCHANGED CD!tables /\ DriverTypeOK' /\ CD!ZeroMeansDone'
  BY DEF CD!ReconcileFails, DriverInv, DriverTypeOK, CD!tables, CD!ZeroMeansDone
<1>2. DriverPhase'
  BY DEF CD!ReconcileFails, DriverInv, DriverPhase, CD!tables, CD!TalksOf
<1> QED
  BY <1>1, <1>2, QuietKeeps

\* Going on to the next lane keeps the invariant: the lane before has drained.
LEMMA MoveKeeps ==
  ASSUME DriverInv,
         \/ CD!Fetched
         \/ CD!DrainedTo("chunk", "embed_text") \/ CD!DrainedTo("embed_text", "gate")
         \/ CD!DrainedTo("frame_sample", "embed_frames") \/ CD!DrainedTo("embed_frames", "report")
  PROVE  DriverInv'
<1>1. /\ UNCHANGED CD!run /\ UNCHANGED CD!tables /\ UNCHANGED <<staged, runs>>
      /\ \/ pc = "fetch" /\ pc' = "chunk" /\ todo = {}
         \/ pc = "chunk" /\ pc' = "embed_text" /\ queue["chunk"] = <<>>
         \/ pc = "embed_text" /\ pc' = "gate" /\ queue["embed_text"] = <<>>
         \/ pc = "frame_sample" /\ pc' = "embed_frames" /\ queue["frame_sample"] = <<>>
         \/ pc = "embed_frames" /\ pc' = "report" /\ queue["embed_frames"] = <<>>
  BY DEF CD!Fetched, CD!DrainedTo, CD!Goto
<1>2. DriverTypeOK' /\ CD!ZeroMeansDone'
  BY <1>1 DEF DriverInv, DriverTypeOK, CD!ZeroMeansDone, CD!run, CD!tables, DriverPhases
<1>3. DriverPhase'
  BY <1>1 DEF DriverInv, DriverPhase, CD!run, CD!tables, CD!TalksOf
<1> QED
  BY <1>1, <1>2, <1>3, QuietKeeps

\* The visual gate keeps the invariant: it opens only if every movie is staged.
LEMMA GateKeeps ==
  ASSUME DriverInv, CD!Gate  PROVE DriverInv'
<1>1. /\ UNCHANGED CD!tables /\ UNCHANGED <<corpus, todo, failed, code, staged, runs>>
      /\ pc = "gate" /\ gate' = CD!GateCase
      /\ pc' = IF CD!GateCase = "all" THEN "frame_sample" ELSE "report"
  BY DEF CD!Gate
<1>2. CD!GateCase \in {"no_visual", "unstaged", "all", "partial"}
  BY DEF CD!GateCase
<1>3. DriverTypeOK' /\ CD!ZeroMeansDone'
  BY <1>1, <1>2 DEF DriverInv, DriverTypeOK, CD!ZeroMeansDone, CD!tables, DriverPhases
<1>4. DriverPhase'
  BY <1>1, <1>2 DEF DriverInv, DriverPhase, CD!tables, CD!TalksOf
<1> QED
  BY <1>1, <1>3, <1>4, QuietKeeps

\* An exception leaves main, or the report is printed and main ends: here what
\* the queues no longer hold tells what the corpus has.
LEMMA HandlerRaisesKeeps ==
  ASSUME DriverInv, NEW q \in CD!Steps, CD!HandlerRaises(q)  PROVE DriverInv'
<1>1. /\ UNCHANGED CD!tables /\ UNCHANGED <<corpus, todo, failed, gate, staged, runs>>
      /\ pc' = "idle" /\ code' \in {"no_video", "raised"}
  BY DEF CD!HandlerRaises
<1>2. DriverTypeOK' /\ CD!ZeroMeansDone' /\ DriverPhase'
  BY <1>1 DEF DriverInv, DriverTypeOK, CD!ZeroMeansDone, DriverPhase, CD!tables, DriverPhases
<1> QED
  BY <1>1, <1>2, QuietKeeps

\* The report keeps the invariant: exit code 0 only if no gold talk is incomplete.
LEMMA ReportKeeps ==
  ASSUME DriverInv, CD!Report  PROVE DriverInv'
<1>1. /\ UNCHANGED CD!tables /\ UNCHANGED <<corpus, todo, failed, gate, staged, runs>>
      /\ pc = "report" /\ pc' = "idle" /\ code' = CD!ExitCode /\ code' \in {"zero", "one"}
  BY DEF CD!Report, CD!ExitCode
<1>2. DriverTypeOK' /\ DriverPhase'
  BY <1>1 DEF DriverInv, DriverTypeOK, DriverPhase, CD!tables, DriverPhases
<1>3. ASSUME code' = "zero"
      PROVE  /\ \A t \in CD!TalksOf(corpus) :
                  /\ status[<<"chunk", t>>] = "completed"
                  /\ t \notin Empty => CD!Complete(t)
                  /\ status[<<"embed_text", t>>] # "pending"
             /\ gate \notin {"no_visual", "unstaged"} =>
                  \A t \in Visual \cap CD!TalksOf(corpus) :
                    /\ status[<<"frame_sample", t>>] = "completed"
                    /\ status[<<"embed_frames", t>>] # "pending"
  <2>1. failed = {} /\ gate # "partial"
    BY <1>1, <1>3 DEF CD!ExitCode
  <2>2. todo = {} /\ queue["chunk"] = <<>> /\ queue["embed_text"] = <<>>
    BY <1>1 DEF DriverInv, DriverPhase
  <2>3. \A q \in CD!Steps : queue[q] = <<>> => \A t \in Talks : status[<<q, t>>] # "pending"
    BY QueuedIn DEF DriverInv, In
  <2>4. CD!TalksOf(corpus) \subseteq Talks /\ "chunk" \in CD!Steps /\ "embed_text" \in CD!Steps
        /\ "frame_sample" \in CD!Steps /\ "embed_frames" \in CD!Steps
    BY DEF CD!TalksOf, CD!Steps
  <2>5. \A q \in CD!Steps, t \in Talks :
          status[<<q, t>>] \in {"absent", "pending", "skipped", "completed"}
    BY DEF DriverInv, DriverTypeOK, CD!Jobs
  <2>6. ASSUME NEW t \in CD!TalksOf(corpus)
        PROVE  /\ status[<<"chunk", t>>] = "completed"
               /\ t \notin Empty => CD!Complete(t)
               /\ status[<<"embed_text", t>>] # "pending"
    <3>1. status[<<"chunk", t>>] # "absent"
      BY <1>1, <2>1, <2>2 DEF DriverInv, DriverPhase
    <3>2. status[<<"chunk", t>>] = "completed" /\ status[<<"embed_text", t>>] # "pending"
      BY <2>2, <2>3, <2>4, <2>5, <3>1 DEF DriverInv, DriverLanes
    <3> QED
      BY <2>4, <3>2 DEF DriverInv, DriverLanes, CD!Complete
  <2>7. ASSUME gate \notin {"no_visual", "unstaged"}, NEW t \in Visual \cap CD!TalksOf(corpus)
        PROVE  /\ status[<<"frame_sample", t>>] = "completed"
               /\ status[<<"embed_frames", t>>] # "pending"
    <3>1. gate = "all" /\ queue["frame_sample"] = <<>> /\ queue["embed_frames"] = <<>>
      BY <1>1, <2>1, <2>7 DEF DriverInv, DriverTypeOK, DriverPhase
    <3>2. status[<<"frame_sample", t>>] # "absent"
      BY <1>1, <2>1, <2>2, <2>7 DEF DriverInv, DriverPhase
    <3> QED
      BY <2>3, <2>4, <2>5, <2>7, <3>1, <3>2 DEF DriverInv, DriverLanes
  <2> QED
    BY <2>6, <2>7
<1>4. CD!ZeroMeansDone'
  BY <1>1, <1>3 DEF CD!ZeroMeansDone, CD!TalksOf, CD!Complete, CD!tables
<1> QED
  BY <1>1, <1>2, <1>4, QuietKeeps

\* A movie staged or removed meanwhile keeps the invariant.
LEMMA StageKeeps ==
  ASSUME DriverInv, NEW m \in Movies, CD!StageOrRemove(m)  PROVE DriverInv'
<1>1. UNCHANGED CD!tables /\ UNCHANGED CD!run /\ pc' = pc
  BY DEF CD!StageOrRemove
<1>2. DriverTypeOK'
  BY DEF CD!StageOrRemove, DriverInv, DriverTypeOK, CD!tables, CD!run
<1>3. DriverPhase' /\ CD!ZeroMeansDone'
  BY <1>1 DEF DriverInv, DriverPhase, CD!ZeroMeansDone, CD!tables, CD!run, CD!TalksOf, CD!Complete
<1> QED
  BY <1>1, <1>2, <1>3, QuietKeeps

-----------------------------------------------------------------------------
\* process_one.

\* Archiving the message of a finished row keeps the invariant.
LEMMA AlreadyDoneKeeps ==
  ASSUME DriverInv, NEW q \in CD!Steps, CD!AlreadyDone(q)  PROVE DriverInv'
<1>1. /\ pc = q /\ queue[q] # <<>> /\ status[<<q, Head(queue[q])>>] \in CD!Done
      /\ queue' = [queue EXCEPT ![q] = Tail(@)]
      /\ UNCHANGED <<pc, CD!run, status, chunked, embedded, staged, runs>>
  BY DEF CD!AlreadyDone, CD!Polled
<1>2. queue[q] \in Seq(Talks) /\ queue'[q] = Tail(queue[q])
      /\ \A p \in CD!Steps \ {q} : queue'[p] = queue[p]
  BY <1>1 DEF DriverInv, DriverTypeOK
<1>3. Tail(queue[q]) \in Seq(Talks) /\ Head(queue[q]) \in Talks
      /\ \A t : In(queue[q], t) /\ t # Head(queue[q]) => In(Tail(queue[q]), t)
  BY <1>1, <1>2, TailIn
<1>4. DriverTypeOK'
  BY <1>1, <1>3 DEF DriverInv, DriverTypeOK, CD!run
<1>5. CD!PendingIsQueued'
  <2>1. ASSUME NEW p \in CD!Steps, NEW t \in Talks, status[<<p, t>>] = "pending"
        PROVE  In(queue'[p], t)
    <3>1. In(queue[p], t)
      BY <2>1, QueuedIn DEF DriverInv
    <3>2. p = q => t # Head(queue[q])
      BY <1>1, <2>1 DEF CD!Done
    <3> QED
      BY <1>2, <1>3, <3>1, <3>2
  <2>2. CD!PendingIsQueued' <=> \A p \in CD!Steps, t \in Talks :
          status'[<<p, t>>] = "pending" => In(queue'[p], t)
    BY DEF CD!PendingIsQueued, In, CD!Jobs
  <2> QED
    BY <1>1, <2>1, <2>2
<1>6. DriverLanes'
  BY <1>1 DEF DriverInv, DriverLanes
<1>7. DriverPhase'
  <2>1. /\ pc \in {"embed_text", "gate", "frame_sample", "embed_frames", "report"} =>
             queue'["chunk"] = queue["chunk"]
        /\ pc \in {"gate", "frame_sample", "embed_frames", "report"} =>
             queue'["embed_text"] = queue["embed_text"]
        /\ pc \in {"embed_frames", "report"} => queue'["frame_sample"] = queue["frame_sample"]
        /\ pc = "report" => queue'["embed_frames"] = queue["embed_frames"]
    BY <1>1, <1>2 DEF CD!Steps
  <2> QED
    BY <1>1, <2>1 DEF DriverInv, DriverPhase, CD!run, CD!TalksOf
<1>8. CD!ZeroMeansDone'
  <2>1. pc # "idle"
    BY <1>1 DEF CD!Steps
  <2> QED
    BY <1>1, <2>1 DEF CD!ZeroMeansDone
<1> QED
  BY <1>4, <1>5, <1>6, <1>7, <1>8 DEF DriverInv

\* What serving the oldest message of q with a given fan-out does.
LEMMA ServeKeeps ==
  ASSUME DriverInv, NEW q \in CD!Steps, NEW fanOut \in SUBSET (CD!Steps \ {q}), CD!Polled(q),
         CD!Serve(q, fanOut)
  PROVE  /\ Head(queue[q]) \in Talks
         /\ status' \in [CD!Jobs -> {"absent", "pending", "skipped", "completed"}]
         /\ queue' \in [CD!Steps -> Seq(Talks)]
         /\ \A p \in CD!Steps, t \in Talks : status'[<<p, t>>] =
              IF p = q /\ t = Head(queue[q]) THEN "completed"
              ELSE IF p \in fanOut /\ t = Head(queue[q]) THEN "pending"
              ELSE status[<<p, t>>]
         /\ \A p \in CD!Steps \ ({q} \cup fanOut) : queue'[p] = queue[p]
         /\ CD!PendingIsQueued'
<1> DEFINE h == Head(queue[q])
<1>1. queue[q] \in Seq(Talks) /\ queue[q] # <<>> /\ \A p \in CD!Steps : queue[p] \in Seq(Talks)
  BY DEF DriverInv, DriverTypeOK, CD!Polled
<1>2. h \in Talks /\ Tail(queue[q]) \in Seq(Talks)
      /\ \A t : In(queue[q], t) /\ t # h => In(Tail(queue[q]), t)
  BY <1>1, TailIn
<1>3. /\ status' = [j \in CD!Jobs |-> IF j = <<q, h>> THEN "completed"
                                   ELSE IF \E f \in fanOut : j = <<f, h>> THEN "pending"
                                   ELSE status[j]]
      /\ queue' = [p \in CD!Steps |-> IF p = q THEN Tail(queue[p])
                                   ELSE IF p \in fanOut THEN Append(queue[p], h)
                                   ELSE queue[p]]
  BY DEF CD!Serve
<1> HIDE DEF h
<1>4. \A p \in CD!Steps, t \in Talks : status'[<<p, t>>] =
        IF p = q /\ t = h THEN "completed"
        ELSE IF p \in fanOut /\ t = h THEN "pending" ELSE status[<<p, t>>]
  BY <1>3 DEF CD!Jobs
<1>5. status' \in [CD!Jobs -> {"absent", "pending", "skipped", "completed"}]
  BY <1>3 DEF DriverInv, DriverTypeOK
<1>6. queue' \in [CD!Steps -> Seq(Talks)]
  <2>1. \A p \in CD!Steps : Append(queue[p], h) \in Seq(Talks)
    BY <1>1, <1>2, AppendIn
  <2> QED
    BY <1>1, <1>2, <1>3, <2>1
<1>7. ASSUME NEW p \in CD!Steps, NEW t \in Talks, status'[<<p, t>>] = "pending"
      PROVE  In(queue'[p], t)
  <2>1. CASE p = q
    <3>1. t # h /\ status[<<p, t>>] = "pending" /\ queue'[p] = Tail(queue[q])
      BY <1>3, <1>4, <1>7, <2>1
    <3>2. In(queue[q], t)
      BY <2>1, <3>1, QueuedIn DEF DriverInv
    <3> QED
      BY <1>2, <3>1, <3>2
  <2>2. CASE p \in fanOut
    <3>1. queue'[p] = Append(queue[p], h) /\ p # q
      BY <1>3, <2>2
    <3>2. t = h \/ In(queue[p], t)
      BY <1>4, <1>7, <2>2, <3>1, QueuedIn DEF DriverInv
    <3> QED
      BY <1>1, <1>2, <3>1, <3>2, AppendIn
  <2>3. CASE p # q /\ p \notin fanOut
    <3>1. queue'[p] = queue[p] /\ status[<<p, t>>] = "pending"
      BY <1>3, <1>4, <1>7, <2>3
    <3> QED
      BY <3>1, QueuedIn DEF DriverInv
  <2> QED
    BY <2>1, <2>2, <2>3
<1>8. CD!PendingIsQueued'
  <2>1. CD!PendingIsQueued' <=> \A p \in CD!Steps, t \in Talks :
          status'[<<p, t>>] = "pending" => In(queue'[p], t)
    BY DEF CD!PendingIsQueued, In, CD!Jobs
  <2> QED
    BY <1>7, <2>1
<1>9. \A p \in CD!Steps \ ({q} \cup fanOut) : queue'[p] = queue[p]
  BY <1>3
<1> QED
  BY <1>2, <1>4, <1>5, <1>6, <1>8, <1>9 DEF h

\* A handler that is done: its row, its writes and its fan-out commit together.
LEMMA HandleKeeps ==
  ASSUME DriverInv, NEW q \in CD!Steps, CD!Handle(q)  PROVE DriverInv'
<1> DEFINE h == Head(queue[q])
           Outs == {"embed_text", "embed_frames"}
<1>1. /\ CD!Polled(q) /\ pc = q /\ pc' = pc /\ UNCHANGED CD!run /\ UNCHANGED <<staged, runs>>
      /\ pc \in CD!Steps /\ status[<<q, h>>] = "pending"
  BY DEF CD!Handle, CD!Polled
<1>2. \E fanOut \in SUBSET (CD!Steps \ {q}) :
        /\ CD!Serve(q, fanOut)
        /\ fanOut \in {{}, {"embed_text"}, {"embed_frames"}}
        /\ fanOut = {"embed_text"} => q = "chunk"
        /\ fanOut = {"embed_frames"} => q = "frame_sample"
        /\ \/ q = "chunk" /\ h \in Empty /\ UNCHANGED <<chunked, embedded>>
           \/ /\ q = "chunk" /\ fanOut = {"embed_text"} /\ chunked' = chunked \cup {h}
              /\ embedded' \in {embedded, embedded \ {h}}
           \/ q = "embed_text" /\ embedded' = embedded \cup {h} /\ UNCHANGED chunked
           \/ q \in {"frame_sample", "embed_frames"} /\ UNCHANGED <<chunked, embedded>>
  <2>1. CASE q = "chunk"
    <3>1. CD!Chunk
      BY <2>1 DEF CD!Handle
    <3>2. CASE h \in Empty
      <4>1. CD!Serve(q, {}) /\ UNCHANGED <<chunked, embedded>>
        BY <2>1, <3>1, <3>2 DEF CD!Chunk, CD!ServeOnly
      <4> QED
        BY <2>1, <3>2, <4>1
    <3>3. CASE h \notin Empty
      <4>1. /\ CD!Serve(q, {"embed_text"}) /\ chunked' = chunked \cup {h}
            /\ embedded' \in {embedded, embedded \ {h}}
        BY <2>1, <3>1, <3>3 DEF CD!Chunk
      <4> QED
        BY <2>1, <4>1 DEF CD!Steps
    <3> QED
      BY <3>2, <3>3
  <2>2. CASE q = "embed_text"
    <3>1. CD!Serve(q, {}) /\ embedded' = embedded \cup {h} /\ UNCHANGED chunked
      BY <2>2 DEF CD!Handle, CD!EmbedText
    <3> QED
      BY <2>2, <3>1
  <2>3. CASE q = "frame_sample"
    <3>1. CD!Serve(q, {}) \/ CD!Serve(q, {"embed_frames"})
      BY <2>3 DEF CD!Handle, CD!FrameSample
    <3>2. UNCHANGED <<chunked, embedded>>
      BY <2>3 DEF CD!Handle, CD!FrameSample
    <3> QED
      BY <2>3, <3>1, <3>2 DEF CD!Steps
  <2>4. CASE q = "embed_frames"
    <3>1. CD!Serve(q, {}) /\ UNCHANGED <<chunked, embedded>>
      BY <2>4 DEF CD!Handle, CD!ServeOnly
    <3> QED
      BY <2>4, <3>1
  <2> QED
    BY <2>1, <2>2, <2>3, <2>4 DEF CD!Steps
<1>3. PICK fanOut \in SUBSET (CD!Steps \ {q}) :
        /\ CD!Serve(q, fanOut)
        /\ fanOut \in {{}, {"embed_text"}, {"embed_frames"}}
        /\ fanOut = {"embed_text"} => q = "chunk"
        /\ fanOut = {"embed_frames"} => q = "frame_sample"
        /\ \/ q = "chunk" /\ h \in Empty /\ UNCHANGED <<chunked, embedded>>
           \/ /\ q = "chunk" /\ fanOut = {"embed_text"} /\ chunked' = chunked \cup {h}
              /\ embedded' \in {embedded, embedded \ {h}}
           \/ q = "embed_text" /\ embedded' = embedded \cup {h} /\ UNCHANGED chunked
           \/ q \in {"frame_sample", "embed_frames"} /\ UNCHANGED <<chunked, embedded>>
  BY <1>2
<1>4. /\ h \in Talks
      /\ status' \in [CD!Jobs -> {"absent", "pending", "skipped", "completed"}]
      /\ queue' \in [CD!Steps -> Seq(Talks)]
      /\ \A p \in CD!Steps, t \in Talks : status'[<<p, t>>] =
           IF p = q /\ t = h THEN "completed"
           ELSE IF p \in fanOut /\ t = h THEN "pending" ELSE status[<<p, t>>]
      /\ \A p \in CD!Steps \ ({q} \cup fanOut) : queue'[p] = queue[p]
      /\ CD!PendingIsQueued'
  BY <1>1, <1>3, ServeKeeps
<1> HIDE DEF h
<1>5. DriverTypeOK'
  <2>1. chunked' \subseteq Talks /\ embedded' \subseteq Talks
    BY <1>3, <1>4 DEF DriverInv, DriverTypeOK
  <2> QED
    BY <1>1, <1>4, <2>1 DEF DriverInv, DriverTypeOK, CD!run
<1>6. \A t \in Talks :
        /\ status'[<<"chunk", t>>] =
             IF q = "chunk" /\ t = h THEN "completed" ELSE status[<<"chunk", t>>]
        /\ status'[<<"frame_sample", t>>] =
             IF q = "frame_sample" /\ t = h THEN "completed" ELSE status[<<"frame_sample", t>>]
        /\ status'[<<"embed_text", t>>] =
             IF q = "embed_text" /\ t = h THEN "completed"
             ELSE IF "embed_text" \in fanOut /\ t = h THEN "pending"
             ELSE status[<<"embed_text", t>>]
  <2>1. {"chunk", "frame_sample", "embed_text"} \subseteq CD!Steps
    BY DEF CD!Steps
  <2>2. "chunk" \notin fanOut /\ "frame_sample" \notin fanOut
    BY <1>3
  <2> QED
    BY <1>4, <2>1, <2>2
<1>7. DriverLanes'
  <2>1. \A t \in Talks : status'[<<"chunk", t>>] # "skipped"
    BY <1>6 DEF DriverInv, DriverLanes
  <2>2. \A t \in Visual : status'[<<"frame_sample", t>>] # "skipped"
    BY <1>6 DEF DriverInv, DriverLanes
  <2>3. \A t \in Talks \ Empty : status'[<<"chunk", t>>] = "completed" => t \in chunked'
    BY <1>3, <1>6 DEF DriverInv, DriverLanes
  <2>4. ASSUME NEW t \in chunked', status'[<<"embed_text", t>>] # "pending"
        PROVE  t \in embedded'
    <3>1. t \in Talks /\ (t \in chunked \/ t = h)
      BY <1>3, <1>5 DEF DriverTypeOK
    <3>2. CASE t = h /\ q = "chunk" /\ fanOut = {"embed_text"}
      BY <1>6, <2>4, <3>1, <3>2
    <3>3. CASE t = h /\ q = "embed_text"
      BY <1>3, <3>3
    <3>4. CASE t # h \/ (q # "embed_text" /\ fanOut # {"embed_text"})
      <4>1. t \in chunked
        BY <1>3, <2>4, <3>4
      <4>2. status'[<<"embed_text", t>>] = status[<<"embed_text", t>>]
        BY <1>3, <1>6, <3>1, <3>4
      <4>3. t \in embedded
        BY <2>4, <4>1, <4>2 DEF DriverInv, DriverLanes
      <4> QED
        BY <1>3, <3>4, <4>3
    <3> QED
      BY <1>3, <3>2, <3>3, <3>4
  <2> QED
    BY <2>1, <2>2, <2>3, <2>4 DEF DriverLanes
<1>8. DriverPhase'
  <2>1. /\ pc \in {"embed_text", "frame_sample", "embed_frames"} =>
             queue'["chunk"] = queue["chunk"]
        /\ pc \in {"frame_sample", "embed_frames"} => queue'["embed_text"] = queue["embed_text"]
        /\ pc = "embed_frames" => queue'["frame_sample"] = queue["frame_sample"]
    BY <1>1, <1>3, <1>4 DEF CD!Steps
  <2>2. \A t \in Talks :
          /\ status[<<"chunk", t>>] # "absent" => status'[<<"chunk", t>>] # "absent"
          /\ status[<<"frame_sample", t>>] # "absent" =>
               status'[<<"frame_sample", t>>] # "absent"
    BY <1>6
  <2>3. pc \in {"chunk", "embed_text", "frame_sample", "embed_frames"}
    BY <1>1 DEF CD!Steps
  <2>4. UNCHANGED <<pc, corpus, todo, failed, gate>> /\ CD!TalksOf(corpus) \subseteq Talks
        /\ CD!TalksOf(corpus)' = CD!TalksOf(corpus)
    BY <1>1 DEF CD!run, CD!TalksOf
  <2> QED
    BY <2>1, <2>2, <2>3, <2>4 DEF DriverInv, DriverPhase
<1>9. CD!ZeroMeansDone'
  <2>1. pc' # "idle"
    BY <1>1 DEF CD!Steps
  <2> QED
    BY <2>1 DEF CD!ZeroMeansDone
<1> QED
  BY <1>4, <1>5, <1>7, <1>8, <1>9 DEF DriverInv

-----------------------------------------------------------------------------
\* The invariant holds of empty tables, and every step keeps it.

\* Empty tables satisfy the invariant.
LEMMA InitDriverInv == CD!Init => DriverInv
<1> SUFFICES ASSUME CD!Init  PROVE DriverInv
  OBVIOUS
<1>1. DriverTypeOK
  BY DEF CD!Init, DriverTypeOK, DriverPhases
<1>2. \A q \in CD!Steps, t \in Talks : status[<<q, t>>] = "absent"
  BY DEF CD!Init, CD!Jobs
<1>3. CD!PendingIsQueued
  BY <1>2, QueuedIn
<1>4. DriverLanes
  <2>1. \A t \in Talks : status[<<"chunk", t>>] = "absent"
                         /\ status[<<"frame_sample", t>>] = "absent"
    BY <1>2 DEF CD!Steps
  <2> QED
    BY <2>1 DEF DriverLanes, CD!Init
<1>5. DriverPhase /\ CD!ZeroMeansDone
  BY DEF CD!Init, DriverPhase, CD!ZeroMeansDone
<1> QED
  BY <1>1, <1>3, <1>4, <1>5 DEF DriverInv

\* Every step keeps the invariant.
LEMMA NextDriverInv == DriverInv /\ [CD!Next]_(CD!vars) => DriverInv'
<1> SUFFICES ASSUME DriverInv, [CD!Next]_(CD!vars)  PROVE DriverInv'
  OBVIOUS
<1>1. CASE CD!Step
  BY <1>1, ReconcileKeeps, ReconcileFailsKeeps, MoveKeeps, AlreadyDoneKeeps, HandleKeeps,
     HandlerRaisesKeeps, GateKeeps, ReportKeeps DEF CD!Step
<1>2. ASSUME NEW c \in Corpora, CD!Start(c)  PROVE DriverInv'
  BY <1>2, StartKeeps
<1>3. ASSUME NEW m \in Movies, CD!StageOrRemove(m)  PROVE DriverInv'
  BY <1>3, StageKeeps
<1>4. CASE UNCHANGED CD!vars
  <2>1. DriverTypeOK' /\ DriverPhase' /\ CD!ZeroMeansDone' /\ UNCHANGED CD!tables
    BY <1>4 DEF DriverInv, DriverTypeOK, DriverPhase, CD!ZeroMeansDone, CD!vars, CD!run, CD!tables, CD!TalksOf, CD!Complete
  <2> QED
    BY <2>1, QuietKeeps
<1> QED
  BY <1>1, <1>2, <1>3, <1>4 DEF CD!Next

\* The invariant holds throughout.
LEMMA AlwaysDriverInv == CD!Spec => []DriverInv
<1> QED
  BY InitDriverInv, NextDriverInv, PTL DEF CD!Spec

-----------------------------------------------------------------------------
\* The tables and queues hold rows and messages of known talks only.
THEOREM DriverTypes == CD!Spec => []DriverTypeOK
<1>1. DriverInv => DriverTypeOK
  BY DEF DriverInv
<1> QED
  BY <1>1, AlwaysDriverInv, PTL

\* Whatever phase a run died in, a pending row has its message, so the next run
\* finds the work (fan-out and claim of ingest.worker).
THEOREM NothingIsLost == CD!Spec => []PendingIsQueued
<1>1. DriverInv => PendingIsQueued
  BY DEF DriverInv, PendingIsQueued, CD!PendingIsQueued, Jobs, CD!Jobs, Steps, CD!Steps
<1> QED
  BY <1>1, AlwaysDriverInv, PTL

\* ingest.cli_all exits with 0 only if all of the corpus is chunked and
\* embedded, and its frames too where videos were staged.
THEOREM ZeroIsDone == CD!Spec => []ZeroMeansDone
<1>1. DriverInv => ZeroMeansDone
  BY DEF DriverInv, ZeroMeansDone, CD!ZeroMeansDone, TalksOf, CD!TalksOf, Complete, CD!Complete
<1> QED
  BY <1>1, AlwaysDriverInv, PTL
=============================================================================
