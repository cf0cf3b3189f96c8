-------------------------- MODULE LayerJobsProofs --------------------------
(***************************************************************************)
(* ListedLayersAreReady and FeaturesAreWholeUploads for any number of      *)
(* posts, sessions, files, concurrent jobs, requests and crashes; and      *)
(* LayerShowsItsFile where no session brings files of two names.           *)
(*                                                                         *)
(* A job may make a layer only of what it has read, and what it has read   *)
(* is one post's whole file or nothing it can parse; that follows every    *)
(* text from the post that wrote it to the features cache.  A layer is     *)
(* ready before it is listed because each job has set features and root    *)
(* before it comes to List.Add, and nothing but a crash takes them away,   *)
(* which ends every job as well.  The list is never longer than the number *)
(* of jobs that have grown it, though two may write the same size.         *)
(***************************************************************************)
EXTENDS LayerJobs, FiniteSetTheorems, TLAPS

Paths == {File(p) : p \in Post}

\* The bytes of a post are in the file it named.
FilesOK == \A f \in Paths : files[f] \in Post => File(files[f]) = f

Stored == {"add", "grow", "fill", "finish"}

Rooted == {"store"} \cup Stored

Parsed == {"tile"} \cup Rooted

\* The jobs that may have grown the list: they are past Grow, or over.
Grown == {p \in Post : job[p] \in {"fill", "finish"} \cup Ended}

JobOK(p) ==
    /\ job[p] # "none" => fate[p] = "taken"
    /\ text[p] \in Post => File(text[p]) = File(p)
    /\ job[p] \in {"parse"} \cup Parsed => Session[p] \in Guid
    /\ job[p] \in Parsed => text[p] \in Readable
    /\ job[p] \in Rooted => root[Name(p)] # Null
    /\ job[p] \in Stored => features[Session[p]] # Null
    /\ job[p] = "grow" => index[p] <= Cardinality(Grown)

JobsOK == \A p \in Post : JobOK(p)

ViewOK(v) ==
    /\ view[v] = "features" => found[v] \in Guid
    /\ view[v] = "split" => drawn[v] \in Post
    /\ view[v] = "draw" => root[Wanted[v]] # Null

ViewsOK == \A v \in View : ViewOK(v)

\* An element beyond the size is ready too: another job may make it visible.
ItemsReady ==
    \A i \in 1..Cardinality(Post) :
        items[i] # Null => /\ features[items[i].session] # Null
                           /\ root[items[i].name] # Null

SizeOK == size <= Cardinality(Grown)

IInv == /\ TypeOK
        /\ FilesOK
        /\ JobsOK
        /\ ViewsOK
        /\ ItemsReady
        /\ SizeOK
        /\ FeaturesAreWholeUploads
-----------------------------------------------------------------------------
\* Counting the jobs that have grown the list.
LEMMA GrownCount ==
    /\ Cardinality(Post) \in Nat
    /\ Cardinality(Grown) \in Nat
    /\ Cardinality(Grown) <= Cardinality(Post)
<1>1. IsFiniteSet(Post) /\ Grown \in SUBSET Post
  BY JobsAssumption DEF Grown
<1>2. QED
  BY <1>1, FS_Subset, FS_CardinalityType

LEMMA GrownCountNext ==
    /\ Cardinality(Grown') \in Nat
    /\ Cardinality(Grown') <= Cardinality(Post)
<1>1. IsFiniteSet(Post) /\ Grown' \in SUBSET Post
  BY JobsAssumption DEF Grown
<1>2. QED
  BY <1>1, FS_Subset, FS_CardinalityType

LEMMA GrownGrows ==
    ASSUME \A p \in Grown : p \in Grown'
    PROVE  Cardinality(Grown) <= Cardinality(Grown')
<1>1. IsFiniteSet(Grown')
  BY JobsAssumption, FS_Subset DEF Grown
<1>2. Grown \in SUBSET (Grown')
  OBVIOUS
<1>3. QED
  BY <1>1, <1>2, FS_Subset

LEMMA OneMoreHasGrown ==
    ASSUME NEW p \in Post, p \notin Grown, p \in Grown', \A q \in Grown : q \in Grown'
    PROVE  Cardinality(Grown) + 1 <= Cardinality(Grown')
<1>1. IsFiniteSet(Grown) /\ IsFiniteSet(Grown')
  BY JobsAssumption, FS_Subset DEF Grown
<1>2. Cardinality(Grown \cup {p}) = Cardinality(Grown) + 1
  BY <1>1, FS_AddElement
<1>3. Grown \cup {p} \in SUBSET (Grown')
  OBVIOUS
<1>4. QED
  BY <1>1, <1>2, <1>3, FS_Subset

LEMMA NamesOfJobs == ASSUME NEW p \in Post, Session[p] \in Guid PROVE Name(p) \in Names
BY DEF Names

\* A file's path is its session and its name.
LEMMA SameFileSameSession ==
    ASSUME NEW p \in Post, NEW q \in Post, File(p) = File(q)
    PROVE  Session[p] = Session[q]
BY DEF File
-----------------------------------------------------------------------------
\* The initial state has no layers and no jobs.
LEMMA InitOK == Init => IInv
<1> SUFFICES ASSUME Init PROVE IInv
  OBVIOUS
<1> USE DEF Init
<1>1. Cardinality(Post) \in Nat /\ Cardinality(Grown) \in Nat
  BY GrownCount
<1>2. MaxCrash \in Nat /\ 0 \in 0..MaxCrash /\ 0 \in 0..Cardinality(Post)
  BY <1>1, JobsAssumption
<1>3. Absent \in Content /\ Absent \notin Post
  BY JobsAssumption DEF Content
<1>4. TypeOK
  BY <1>1, <1>2, <1>3 DEF TypeOK, NoItems, NoFeatures, NoTiles, Queue!Init
<1>5. FilesOK
  BY <1>3 DEF FilesOK, Paths
<1>6. JobsOK
  BY <1>3 DEF JobsOK, JobOK, Parsed, Rooted, Stored
<1>7. ViewsOK
  BY DEF ViewsOK, ViewOK
<1>8. ItemsReady /\ FeaturesAreWholeUploads
  BY DEF ItemsReady, FeaturesAreWholeUploads, NoItems, NoFeatures
<1>9. SizeOK
  BY <1>1 DEF SizeOK
<1>10. QED
  BY <1>4, <1>5, <1>6, <1>7, <1>8, <1>9 DEF IInv

\* What a step of an upload or of the queue alone leaves as it is.
LEMMA UploadStep ==
    ASSUME IInv, TypeOK', FilesOK', UNCHANGED <<job, text, index, layers, views>>,
           \A p \in Post : fate[p] = "taken" => fate'[p] = "taken"
    PROVE  IInv'
<1> USE DEF layers, views
<1>1. Grown' = Grown
  BY DEF Grown
<1>2. JobsOK' /\ SizeOK'
  BY <1>1 DEF IInv, JobsOK, JobOK, SizeOK
<1>3. ViewsOK'
  BY DEF IInv, ViewsOK, ViewOK
<1>4. ItemsReady' /\ FeaturesAreWholeUploads'
  BY DEF IInv, ItemsReady, FeaturesAreWholeUploads
<1>5. QED
  BY <1>2, <1>3, <1>4 DEF IInv

\* A step of one job that takes nothing away keeps the other jobs right, the
\* views and the files.
LEMMA JobStep ==
    ASSUME IInv, TypeOK', NEW p \in Post, NEW where, job' = [job EXCEPT ![p] = where],
           p \in Grown => p \in Grown',
           UNCHANGED <<files, views>>,
           \A q \in Post \ {p} :
               text'[q] = text[q] /\ index'[q] = index[q] /\ fate'[q] = fate[q],
           \A n \in Names : root[n] # Null => root'[n] # Null,
           \A s \in Guid : features[s] # Null => features'[s] # Null,
           JobOK(p)', ItemsReady', SizeOK', FeaturesAreWholeUploads'
    PROVE  IInv'
<1> USE DEF views
<1>1. job \in [Post -> {"none", "held", "start", "read", "parse", "tile", "store",
                        "add", "grow", "fill", "finish"} \cup Ended]
  BY DEF IInv, TypeOK
<1>2. \A q \in Post \ {p} : job'[q] = job[q]
  BY <1>1
<1>3. \A q \in Grown : q \in Grown'
  BY <1>2 DEF Grown
<1>4. /\ Cardinality(Grown) <= Cardinality(Grown')
      /\ Cardinality(Grown) \in Nat /\ Cardinality(Grown') \in Nat
  BY <1>3, GrownGrows, GrownCount, GrownCountNext
<1>5. ASSUME NEW q \in Post PROVE JobOK(q)'
  <2>1. CASE q = p
    BY <2>1
  <2>2. CASE q # p
    <3>1. /\ JobOK(q) /\ job'[q] = job[q] /\ text'[q] = text[q]
          /\ index'[q] = index[q] /\ fate'[q] = fate[q]
      BY <2>2, <1>2 DEF IInv, JobsOK
    <3>2. index[q] \in 0..Cardinality(Post) /\ Cardinality(Post) \in Nat
      BY GrownCount DEF IInv, TypeOK
    <3>3. job[q] = "grow" => index'[q] <= Cardinality(Grown')
      BY <3>1, <3>2, <1>4 DEF JobOK
    <3>4. Session[q] \in Guid => Name(q) \in Names
      BY NamesOfJobs
    <3>5. QED
      BY <3>1, <3>3, <3>4 DEF JobOK, Parsed, Rooted, Stored
  <2>3. QED
    BY <2>1, <2>2
<1>6. ASSUME NEW v \in View PROVE ViewOK(v)'
  <2>1. Wanted[v] \in Names /\ ViewOK(v)
    BY JobsAssumption DEF IInv, ViewsOK
  <2>2. QED
    BY <2>1 DEF ViewOK
<1>7. FilesOK'
  BY DEF IInv, FilesOK
<1>8. QED
  BY <1>5, <1>6, <1>7 DEF IInv, JobsOK, ViewsOK

\* A step that changes nothing but where a job stands.
LEMMA MoveStep ==
    ASSUME IInv, TypeOK', NEW p \in Post, NEW where, job' = [job EXCEPT ![p] = where],
           p \in Grown => p \in Grown',
           UNCHANGED <<upload, text, index, layers, views>>,
           \A q \in Post \ {p} : fate'[q] = fate[q],
           JobOK(p)'
    PROVE  IInv'
<1> USE DEF upload, layers
<1>1. \A q \in Grown : q \in Grown'
  BY DEF IInv, TypeOK, Grown
<1>2. /\ Cardinality(Grown) <= Cardinality(Grown')
      /\ Cardinality(Grown) \in Nat /\ Cardinality(Grown') \in Nat
      /\ Cardinality(Post) \in Nat
  BY <1>1, GrownGrows, GrownCount, GrownCountNext
<1>3. SizeOK'
  BY <1>2 DEF IInv, TypeOK, SizeOK
<1>4. ItemsReady' /\ FeaturesAreWholeUploads'
  BY DEF IInv, ItemsReady, FeaturesAreWholeUploads
<1>5. QED
  BY <1>3, <1>4, JobStep
-----------------------------------------------------------------------------
(***************************************************************************)
(* MessageController.Post, and the end of a message nobody takes.          *)
(***************************************************************************)

\* A step of a post that leaves the files alone, or changes its own to c.
LEMMA PostStep ==
    ASSUME IInv, NEW p \in Post,
           NEW where \in {"file", "range", "generate", "created", "failed"},
           post' = [post EXCEPT ![p] = where],
           folders' \subseteq Sessions,
           \/ UNCHANGED files
           \/ \E c \in {p, Blank, Mixed, Tangled} : files' = [files EXCEPT ![File(p)] = c],
           fate' \in [Post -> {"unsent", "waiting", "taken", "dead"}],
           \A q \in Post : fate[q] = "taken" => fate'[q] = "taken",
           UNCHANGED <<given, job, text, index, layers, views, crashes>>
    PROVE  IInv'
<1> USE DEF layers, views
<1>1. /\ files \in [Paths -> Content]
      /\ File(p) \in Paths
      /\ {p, Blank, Mixed, Tangled} \subseteq Content
      /\ {Blank, Mixed, Tangled} \cap Post = {}
  BY JobsAssumption DEF IInv, TypeOK, Paths, Content
<1>2. post' \in [Post -> {"idle", "file", "range", "generate"} \cup Answered]
  BY DEF IInv, TypeOK, Answered
<1>3. files' \in [Paths -> Content]
  BY <1>1
<1>4. TypeOK'
  BY <1>2, <1>3 DEF IInv, TypeOK, Paths
<1>5. FilesOK'
  BY <1>1 DEF IInv, FilesOK
<1>6. QED
  BY <1>4, <1>5, UploadStep

LEMMA CreateDirectoryOK == ASSUME IInv, NEW p \in Post, CreateDirectory(p) PROVE IInv'
<1>1. PICK where \in {"file", "generate", "failed"} : post' = [post EXCEPT ![p] = where]
  BY DEF CreateDirectory, Awaited, PostAt
<1>2. folders' \subseteq Sessions
  BY DEF CreateDirectory, IInv, TypeOK, Sessions
<1>3. /\ UNCHANGED <<files, given, job, text, index, layers, views, crashes>>
      /\ fate' \in [Post -> {"unsent", "waiting", "taken", "dead"}]
      /\ \A q \in Post : fate[q] = "taken" => fate'[q] = "taken"
  BY DEF CreateDirectory, queue, IInv, TypeOK
<1>4. QED
  BY <1>1, <1>2, <1>3, PostStep

LEMMA CreateFileOK == ASSUME IInv, NEW p \in Post, CreateFile(p) PROVE IInv'
<1>1. PICK where \in {"range", "generate", "failed"} : post' = [post EXCEPT ![p] = where]
  BY DEF CreateFile, Awaited, PostAt
<1>2. \/ UNCHANGED files
      \/ \E c \in {p, Blank, Mixed, Tangled} : files' = [files EXCEPT ![File(p)] = c]
  BY DEF CreateFile
<1>3. /\ UNCHANGED <<given, job, text, index, layers, views, crashes>>
      /\ folders' \subseteq Sessions
      /\ fate' \in [Post -> {"unsent", "waiting", "taken", "dead"}]
      /\ \A q \in Post : fate[q] = "taken" => fate'[q] = "taken"
  BY DEF CreateFile, queue, IInv, TypeOK
<1>4. QED
  BY <1>1, <1>2, <1>3, PostStep

LEMMA PutRangeOK == ASSUME IInv, NEW p \in Post, PutRange(p) PROVE IInv'
<1>1. PICK where \in {"generate", "failed"} : post' = [post EXCEPT ![p] = where]
  BY DEF PutRange, Awaited, PostAt
<1>2. \/ UNCHANGED files
      \/ \E c \in {p, Blank, Mixed, Tangled} : files' = [files EXCEPT ![File(p)] = c]
  BY DEF PutRange, Overwritten
<1>3. /\ UNCHANGED <<given, job, text, index, layers, views, crashes>>
      /\ folders' \subseteq Sessions
      /\ fate' \in [Post -> {"unsent", "waiting", "taken", "dead"}]
      /\ \A q \in Post : fate[q] = "taken" => fate'[q] = "taken"
  BY DEF PutRange, queue, IInv, TypeOK
<1>4. QED
  BY <1>1, <1>2, <1>3, PostStep

LEMMA GenerateOK == ASSUME IInv, NEW p \in Post, Generate(p) PROVE IInv'
<1>1. PICK where \in {"created", "failed"} : post' = [post EXCEPT ![p] = where]
  BY DEF Generate, Awaited, PostAt
<1>2. /\ UNCHANGED <<given, files, job, text, index, layers, views, crashes>>
      /\ folders' \subseteq Sessions
      /\ fate' \in [Post -> {"unsent", "waiting", "taken", "dead"}]
      /\ \A q \in Post : fate[q] = "taken" => fate'[q] = "taken"
  BY DEF Generate, queue, Queue!Send, Queue!Move, IInv, TypeOK
<1>3. QED
  BY <1>1, <1>2, PostStep

LEMMA GiveUpOK == ASSUME IInv, NEW p \in Post, GiveUp(p) PROVE IInv'
<1>1. /\ UNCHANGED <<job, text, index, layers, views>>
      /\ UNCHANGED <<upload, given, crashes>>
      /\ fate' \in [Post -> {"unsent", "waiting", "taken", "dead"}]
      /\ \A q \in Post : fate[q] = "taken" => fate'[q] = "taken"
  BY DEF GiveUp, Queue!GiveUp, Queue!Move, IInv, TypeOK
<1>2. TypeOK'
  BY <1>1 DEF IInv, TypeOK, upload, layers, views
<1>3. FilesOK'
  BY <1>1 DEF IInv, FilesOK, upload
<1>4. QED
  BY <1>1, <1>2, <1>3, UploadStep
-----------------------------------------------------------------------------
(***************************************************************************)
(* Process and CommandReceiver.                                            *)
(***************************************************************************)

\* A command that has not been taken is nobody's job.
LEMMA TakeOK == ASSUME IInv, NEW p \in Post, Take(p) PROVE IInv'
<1>1. /\ fate[p] = "waiting" /\ fate' = [fate EXCEPT ![p] = "taken"]
      /\ job' = [job EXCEPT ![p] = "held"]
      /\ UNCHANGED <<given, upload, text, index, layers, views, crashes>>
  BY DEF Take, JobAt, Queue!Take, Queue!Move
<1>2. job[p] = "none" /\ p \notin Grown
  BY <1>1 DEF IInv, JobsOK, JobOK, Grown, Ended
<1>3. TypeOK'
  BY <1>1 DEF IInv, TypeOK, upload, layers, views
<1>4. JobOK(p)'
  BY <1>1 DEF IInv, TypeOK, JobsOK, JobOK, Parsed, Rooted, Stored
<1>5. \A q \in Post \ {p} : fate'[q] = fate[q]
  BY <1>1 DEF IInv, TypeOK
<1>6. QED
  BY <1>1, <1>2, <1>3, <1>4, <1>5, MoveStep

\* A job that is not over and goes where nothing more is asked of it.
LEMMA GoOn ==
    ASSUME IInv, NEW p \in Post, job[p] \notin {"none", "fill"} \cup Ended,
           NEW where \in {"start", "read"} \cup Ended,
           job' = [job EXCEPT ![p] = where],
           job[p] = "finish" => where \in Ended,
           given' \in [Post -> [{Receiver} -> {0, 1}]],
           UNCHANGED <<fate, upload, text, index, layers, views, crashes>>
    PROVE  IInv'
<1>1. p \in Grown => p \in Grown'
  BY DEF IInv, TypeOK, Grown, Ended
<1>2. TypeOK'
  BY DEF IInv, TypeOK, Ended, upload, layers, views
<1>3. JobOK(p)'
  BY DEF IInv, TypeOK, JobsOK, JobOK, Ended, Parsed, Rooted, Stored
<1>4. QED
  BY <1>1, <1>2, <1>3, MoveStep

LEMMA CallOK == ASSUME IInv, NEW p \in Post, Call(p) PROVE IInv'
<1>1. PICK where \in {"start"} \cup Ended : job' = [job EXCEPT ![p] = where]
  BY DEF Call, JobAt, Ended
<1>2. /\ job[p] = "held"
      /\ UNCHANGED <<fate, upload, text, index, layers, views, crashes>>
      /\ given' = given \/ given' = [given EXCEPT ![p][Receiver] = 1]
  BY DEF Call, queue, Queue!Give
<1>3. given' \in [Post -> [{Receiver} -> {0, 1}]]
  <2>1. given \in [Post -> [{Receiver} -> {0, 1}]]
    BY DEF IInv, TypeOK
  <2>2. QED
    BY <1>2, <2>1
<1>4. QED
  BY <1>1, <1>2, <1>3, GoOn DEF Ended

LEMMA SendStartedOK == ASSUME IInv, NEW p \in Post, SendStarted(p) PROVE IInv'
<1>1. PICK where \in {"read"} \cup Ended : job' = [job EXCEPT ![p] = where]
  BY DEF SendStarted, JobAt, Ended
<1>2. /\ job[p] = "start"
      /\ UNCHANGED <<fate, given, upload, text, index, layers, views, crashes>>
      /\ given' \in [Post -> [{Receiver} -> {0, 1}]]
  BY DEF SendStarted, queue, IInv, TypeOK
<1>3. QED
  BY <1>1, <1>2, GoOn DEF Ended

LEMMA SendFinishedOK == ASSUME IInv, NEW p \in Post, SendFinished(p) PROVE IInv'
<1>1. PICK where \in Ended : job' = [job EXCEPT ![p] = where]
  BY DEF SendFinished, JobAt, Ended
<1>2. /\ job[p] = "finish"
      /\ UNCHANGED <<fate, given, upload, text, index, layers, views, crashes>>
      /\ given' \in [Post -> [{Receiver} -> {0, 1}]]
  BY DEF SendFinished, queue, IInv, TypeOK
<1>3. QED
  BY <1>1, <1>2, GoOn DEF Ended

\* What is read is the file of this session and name, or another post's
\* bytes in it.
LEMMA ReadOK == ASSUME IInv, NEW p \in Post, Read(p) PROVE IInv'
<1>1. job[p] = "read" /\ UNCHANGED <<fate, given, upload, index, layers, views, crashes>>
  BY DEF Read, queue
<1>2. CASE job' = [job EXCEPT ![p] = "logged"] /\ UNCHANGED text
  <2>1. given' \in [Post -> [{Receiver} -> {0, 1}]]
    BY <1>1 DEF IInv, TypeOK
  <2>2. QED
    BY <1>1, <1>2, <2>1, GoOn DEF Ended
<1>3. CASE /\ Session[p] \in Guid
           /\ text' = [text EXCEPT ![p] = files[File(p)]]
           /\ job' = [job EXCEPT ![p] = "parse"]
  <2>1. File(p) \in Paths /\ files[File(p)] \in Content
    BY DEF IInv, TypeOK, Paths
  <2>2. files[File(p)] \in Post => File(files[File(p)]) = File(p)
    BY <2>1 DEF IInv, FilesOK
  <2>3. TypeOK'
    BY <1>1, <1>3, <2>1 DEF IInv, TypeOK, upload, layers, views
  <2>4. text'[p] = files[File(p)] /\ job'[p] = "parse"
    BY <1>3 DEF IInv, TypeOK
  <2>5. JobOK(p)'
    BY <1>1, <1>3, <2>2, <2>4 DEF IInv, JobsOK, JobOK, Parsed, Rooted, Stored, File
  <2>6. p \notin Grown /\ Grown' = Grown
    BY <1>1, <1>3 DEF IInv, TypeOK, Grown, Ended
  <2>7. SizeOK' /\ ItemsReady' /\ FeaturesAreWholeUploads'
    BY <1>1, <2>6 DEF IInv, SizeOK, ItemsReady, FeaturesAreWholeUploads, layers
  <2>8. \A q \in Post \ {p} : text'[q] = text[q] /\ index'[q] = index[q] /\ fate'[q] = fate[q]
    BY <1>1, <1>3 DEF IInv, TypeOK
  <2>9. UNCHANGED <<files, root, features, views>>
    BY <1>1 DEF upload, layers
  <2>10. QED
    BY <1>3, <2>3, <2>5, <2>6, <2>7, <2>8, <2>9, JobStep
<1>4. QED
  BY <1>2, <1>3 DEF Read, JobAt

LEMMA ParseOK == ASSUME IInv, NEW p \in Post, Parse(p) PROVE IInv'
<1>1. /\ job[p] = "parse" /\ text[p] \in Content
      /\ UNCHANGED <<fate, given, upload, text, index, layers, views, crashes>>
  BY DEF Parse, queue, IInv, TypeOK
<1>2. CASE text[p] \in Readable /\ job' = [job EXCEPT ![p] = "tile"]
  <2>1. TypeOK'
    BY <1>1, <1>2 DEF IInv, TypeOK, upload, layers, views
  <2>2. JobOK(p)'
    BY <1>1, <1>2 DEF IInv, TypeOK, JobsOK, JobOK, Parsed, Rooted, Stored
  <2>3. p \notin Grown
    BY <1>1 DEF Grown, Ended
  <2>4. QED
    BY <1>1, <1>2, <2>1, <2>2, <2>3, MoveStep
<1>3. CASE job' = [job EXCEPT ![p] = "logged"]
  <2>1. given' \in [Post -> [{Receiver} -> {0, 1}]]
    BY <1>1 DEF IInv, TypeOK
  <2>2. QED
    BY <1>1, <1>3, <2>1, GoOn DEF Ended
<1>4. QED
  BY <1>2, <1>3 DEF Parse, JobAt

\* The root tile after a first pass is a tile with a post's features.
LEMMA FirstPassMakesARoot ==
    ASSUME IInv, NEW n \in Names, NEW slice \in Post, FirstPass(n, slice)
    PROVE  /\ root' \in [Names -> {Null} \cup Tile]
           /\ root'[n] # Null
           /\ \A k \in Names : root[k] # Null => root'[k] # Null
<1>1. root \in [Names -> {Null} \cup Tile]
  BY DEF IInv, TypeOK
<1>2. root'[n] \in Tile /\ root' = [root EXCEPT ![n] = root'[n]]
  BY <1>1 DEF FirstPass, Tile
<1>3. QED
  BY <1>1, <1>2, NullIsNeither

LEMMA InitializeTileOK == ASSUME IInv, NEW p \in Post, InitializeTile(p) PROVE IInv'
<1>1. /\ job[p] = "tile" /\ job' = [job EXCEPT ![p] = "store"]
      /\ FirstPass(Name(p), text[p])
      /\ UNCHANGED <<fate, given, upload, text, index, items, size, features, views, crashes>>
  BY DEF InitializeTile, JobAt, queue
<1>2. JobOK(p) /\ Session[p] \in Guid /\ text[p] \in Readable /\ text[p] \in Post
  BY <1>1 DEF IInv, JobsOK, JobOK, Parsed, Readable
<1>3. Name(p) \in Names
  BY <1>2, NamesOfJobs
<1>4. /\ root' \in [Names -> {Null} \cup Tile]
      /\ root'[Name(p)] # Null
      /\ \A k \in Names : root[k] # Null => root'[k] # Null
  BY <1>1, <1>2, <1>3, FirstPassMakesARoot
<1>5. TypeOK'
  BY <1>1, <1>4 DEF IInv, TypeOK, upload, views
<1>6. JobOK(p)'
  BY <1>1, <1>2, <1>4 DEF IInv, TypeOK, JobOK, Parsed, Rooted, Stored
<1>7. p \notin Grown /\ Grown' = Grown
  BY <1>1 DEF IInv, TypeOK, Grown, Ended
<1>8. SizeOK' /\ FeaturesAreWholeUploads'
  BY <1>1, <1>7 DEF IInv, SizeOK, FeaturesAreWholeUploads
<1>9. ItemsReady'
  BY <1>1, <1>4 DEF IInv, TypeOK, ItemsReady, Model
<1>10. UNCHANGED files
  BY <1>1 DEF upload
<1>11. QED
  BY <1>1, <1>4, <1>5, <1>6, <1>7, <1>8, <1>9, <1>10, JobStep

\* The features that AddLayer keeps are one whole upload of the session's.
LEMMA StoreFeaturesOK == ASSUME IInv, NEW p \in Post, StoreFeatures(p) PROVE IInv'
<1>1. /\ job[p] = "store" /\ job' = [job EXCEPT ![p] = "add"]
      /\ features' = [features EXCEPT ![Session[p]] = text[p]]
      /\ UNCHANGED <<fate, given, upload, text, index, items, size, root, views, crashes>>
  BY DEF StoreFeatures, JobAt, queue
<1>2. /\ JobOK(p) /\ Session[p] \in Guid /\ text[p] \in Readable /\ text[p] \in Post
      /\ File(text[p]) = File(p)
  BY <1>1 DEF IInv, JobsOK, JobOK, Parsed, Rooted, Readable
<1>3. features \in [Guid -> {Null} \cup Post] /\ Null \notin Post
  BY JobsAssumption DEF IInv, TypeOK
<1>4. /\ features' \in [Guid -> {Null} \cup Post]
      /\ features'[Session[p]] = text[p]
      /\ \A s \in Guid \ {Session[p]} : features'[s] = features[s]
  BY <1>1, <1>2, <1>3
<1>5. TypeOK'
  BY <1>1, <1>4 DEF IInv, TypeOK, upload, views
<1>6. JobOK(p)'
  BY <1>1, <1>2, <1>3, <1>4 DEF IInv, TypeOK, JobOK, Parsed, Rooted, Stored
<1>7. p \notin Grown /\ Grown' = Grown
  BY <1>1 DEF IInv, TypeOK, Grown, Ended
<1>8. SizeOK'
  BY <1>1, <1>7 DEF IInv, SizeOK
<1>9. FeaturesAreWholeUploads'
  BY <1>2, <1>4, SameFileSameSession DEF IInv, FeaturesAreWholeUploads
<1>10. ItemsReady'
  BY <1>1, <1>2, <1>3, <1>4 DEF IInv, TypeOK, ItemsReady, Model
<1>11. UNCHANGED files
  BY <1>1 DEF upload
<1>12. QED
  BY <1>1, <1>2, <1>3, <1>4, <1>5, <1>6, <1>7, <1>8, <1>9, <1>10, <1>11, JobStep

LEMMA ReadSizeOK == ASSUME IInv, NEW p \in Post, ReadSize(p) PROVE IInv'
<1>1. /\ job[p] = "add" /\ job' = [job EXCEPT ![p] = "grow"]
      /\ index' = [index EXCEPT ![p] = size]
      /\ UNCHANGED <<fate, given, upload, text, layers, views, crashes>>
  BY DEF ReadSize, JobAt, queue
<1>2. JobOK(p)
  BY DEF IInv, JobsOK
<1>3. TypeOK'
  BY <1>1 DEF IInv, TypeOK, upload, layers, views
<1>4. p \notin Grown /\ Grown' = Grown
  BY <1>1 DEF IInv, TypeOK, Grown, Ended
<1>5. index'[p] = size /\ size <= Cardinality(Grown)
  BY <1>1 DEF IInv, TypeOK, SizeOK
<1>6. JobOK(p)'
  BY <1>1, <1>2, <1>4, <1>5 DEF IInv, TypeOK, JobOK, Parsed, Rooted, Stored, layers
<1>7. SizeOK' /\ ItemsReady' /\ FeaturesAreWholeUploads'
  BY <1>1, <1>4 DEF IInv, SizeOK, ItemsReady, FeaturesAreWholeUploads, layers
<1>8. /\ \A q \in Post \ {p} : text'[q] = text[q] /\ index'[q] = index[q] /\ fate'[q] = fate[q]
      /\ UNCHANGED <<files, root, features>>
  BY <1>1 DEF IInv, TypeOK, upload, layers
<1>9. QED
  BY <1>1, <1>3, <1>4, <1>6, <1>7, <1>8, JobStep

\* The size that is written is that of a list which others had grown, and
\* one more.
LEMMA GrowOK == ASSUME IInv, NEW p \in Post, Grow(p) PROVE IInv'
<1>1. /\ job[p] = "grow" /\ job' = [job EXCEPT ![p] = "fill"]
      /\ size' = index[p] + 1
      /\ UNCHANGED <<fate, given, upload, text, index, items, features, root, views, crashes>>
  BY DEF Grow, JobAt, queue
<1>2. JobOK(p) /\ index[p] <= Cardinality(Grown) /\ index[p] \in Nat
  <2>1. index[p] \in 0..Cardinality(Post) /\ Cardinality(Post) \in Nat
    BY GrownCount DEF IInv, TypeOK
  <2>2. QED
    BY <1>1, <2>1 DEF IInv, JobsOK, JobOK
<1>3. p \notin Grown /\ p \in Grown' /\ \A q \in Grown : q \in Grown'
  BY <1>1 DEF IInv, TypeOK, Grown, Ended
<1>4. Cardinality(Grown) + 1 <= Cardinality(Grown')
  BY <1>3, OneMoreHasGrown
<1>5. size' \in Nat /\ size' <= Cardinality(Grown') /\ size' <= Cardinality(Post)
  BY <1>1, <1>2, <1>4, GrownCount, GrownCountNext
<1>6. TypeOK'
  <2>1. size' \in 0..Cardinality(Post)
    BY <1>5, GrownCount
  <2>2. job' \in [Post -> {"none", "held", "start", "read", "parse", "tile", "store",
                           "add", "grow", "fill", "finish"} \cup Ended]
    BY <1>1 DEF IInv, TypeOK
  <2>3. QED
    BY <1>1, <2>1, <2>2 DEF IInv, TypeOK, upload, views
<1>7. JobOK(p)'
  BY <1>1, <1>2 DEF IInv, TypeOK, JobOK, Parsed, Rooted, Stored
<1>8. SizeOK' /\ ItemsReady' /\ FeaturesAreWholeUploads'
  BY <1>1, <1>5 DEF IInv, SizeOK, ItemsReady, FeaturesAreWholeUploads
<1>9. UNCHANGED files
  BY <1>1 DEF upload
<1>10. QED
  BY <1>1, <1>3, <1>6, <1>7, <1>8, <1>9, JobStep

LEMMA FillOK == ASSUME IInv, NEW p \in Post, Fill(p) PROVE IInv'
<1> DEFINE m == [name |-> Name(p), session |-> Session[p]]
<1>1. /\ job[p] = "fill" /\ job' = [job EXCEPT ![p] = "finish"]
      /\ items' = [items EXCEPT ![index[p] + 1] = m]
      /\ UNCHANGED <<fate, given, upload, text, index, size, features, root, views, crashes>>
  BY DEF Fill, JobAt, queue
<1>2. /\ JobOK(p) /\ Session[p] \in Guid
      /\ features[Session[p]] # Null /\ root[Name(p)] # Null
  BY <1>1 DEF IInv, JobsOK, JobOK, Parsed, Rooted, Stored
<1>3. m \in Model
  BY <1>2, NamesOfJobs DEF Model
<1>4. items' \in [1..Cardinality(Post) -> {Null} \cup Model]
  BY <1>1, <1>3 DEF IInv, TypeOK
<1>5. TypeOK'
  BY <1>1, <1>4 DEF IInv, TypeOK, upload, views
<1>6. JobOK(p)'
  BY <1>1, <1>2 DEF IInv, TypeOK, JobOK, Parsed, Rooted, Stored
<1>7. p \in Grown /\ Grown' = Grown
  BY <1>1 DEF IInv, TypeOK, Grown, Ended
<1>8. SizeOK' /\ FeaturesAreWholeUploads'
  BY <1>1, <1>7 DEF IInv, SizeOK, FeaturesAreWholeUploads
<1>9. ASSUME NEW i \in 1..Cardinality(Post), items'[i] # Null
      PROVE  features[items'[i].session] # Null /\ root[items'[i].name] # Null
  <2>1. CASE i = index[p] + 1
    <3>1. items'[i] = m
      BY <1>1, <2>1 DEF IInv, TypeOK
    <3>2. QED
      BY <1>2, <3>1
  <2>2. CASE i # index[p] + 1
    <3>1. items'[i] = items[i]
      BY <1>1, <2>2 DEF IInv, TypeOK
    <3>2. QED
      BY <1>9, <3>1 DEF IInv, ItemsReady
  <2>3. QED
    BY <2>1, <2>2
<1>10. ItemsReady'
  BY <1>1, <1>9 DEF ItemsReady
<1>11. UNCHANGED files
  BY <1>1 DEF upload
<1>12. QED
  BY <1>1, <1>5, <1>6, <1>7, <1>8, <1>10, <1>11, JobStep

LEMMA HandleOK == ASSUME IInv, NEW p \in Post, Handle(p) PROVE IInv'
BY CallOK, SendStartedOK, ReadOK, ParseOK, InitializeTileOK, StoreFeaturesOK,
   ReadSizeOK, GrowOK, FillOK, SendFinishedOK DEF Handle
-----------------------------------------------------------------------------
(***************************************************************************)
(* Tile requests.                                                          *)
(***************************************************************************)

\* A step of one view that takes no root away.
LEMMA ViewStep ==
    ASSUME IInv, NEW v \in View,
           NEW where \in {"idle", "features", "split", "draw", "done"},
           view' = [view EXCEPT ![v] = where],
           found' \in [View -> {Null} \cup Guid],
           drawn' \in [View -> {Null, Failed} \cup Post],
           \A w \in View \ {v} : found'[w] = found[w] /\ drawn'[w] = drawn[w],
           root' \in [Names -> {Null} \cup Tile],
           \A n \in Names : root[n] # Null => root'[n] # Null,
           UNCHANGED <<upload, fate, given, job, text, index, items, size, features, crashes>>,
           ViewOK(v)'
    PROVE  IInv'
<1> USE DEF upload
<1>1. view' \in [View -> {"idle", "features", "split", "draw", "done"}]
  BY DEF IInv, TypeOK
<1>2. TypeOK'
  BY <1>1 DEF IInv, TypeOK
<1>3. Grown' = Grown
  BY DEF Grown
<1>4. ASSUME NEW p \in Post PROVE JobOK(p)'
  <2>1. JobOK(p) /\ (Session[p] \in Guid => Name(p) \in Names)
    BY NamesOfJobs DEF IInv, JobsOK
  <2>2. QED
    BY <1>3, <2>1 DEF JobOK, Parsed, Rooted, Stored
<1>5. ASSUME NEW w \in View PROVE ViewOK(w)'
  <2>1. CASE w = v
    BY <2>1
  <2>2. CASE w # v
    <3>1. ViewOK(w) /\ Wanted[w] \in Names /\ view'[w] = view[w]
      BY <2>2, JobsAssumption DEF IInv, TypeOK, ViewsOK
    <3>2. QED
      BY <2>2, <3>1 DEF ViewOK
  <2>3. QED
    BY <2>1, <2>2
<1>6. ItemsReady'
  BY DEF IInv, TypeOK, ItemsReady, Model
<1>7. FilesOK' /\ SizeOK' /\ FeaturesAreWholeUploads'
  BY <1>3 DEF IInv, FilesOK, SizeOK, FeaturesAreWholeUploads
<1>8. QED
  BY <1>2, <1>4, <1>5, <1>6, <1>7 DEF IInv, JobsOK, ViewsOK

LEMMA InitializeLayerOK == ASSUME IInv, NEW v \in View, InitializeLayer(v) PROVE IInv'
<1>1. /\ UNCHANGED <<upload, fate, given, job, text, index, items, size, features, root, crashes>>
      /\ root' \in [Names -> {Null} \cup Tile]
  BY DEF InitializeLayer, queue, layers, IInv, TypeOK
<1>2. CASE Fail(v) /\ UNCHANGED found
  <2>1. /\ view' = [view EXCEPT ![v] = "done"]
        /\ drawn' \in [View -> {Null, Failed} \cup Post]
        /\ found' \in [View -> {Null} \cup Guid]
        /\ \A w \in View \ {v} : found'[w] = found[w] /\ drawn'[w] = drawn[w]
    BY <1>2 DEF Fail, ViewAt, IInv, TypeOK
  <2>2. ViewOK(v)'
    BY <2>1 DEF ViewOK, IInv, TypeOK
  <2>3. QED
    BY <1>1, <2>1, <2>2, ViewStep
<1>3. ASSUME NEW i \in 1..size, Hit(v, i),
             found' = [found EXCEPT ![v] = items[i].session],
             view' = [view EXCEPT ![v] = "features"], UNCHANGED drawn
      PROVE  IInv'
  <2>1. i \in 1..Cardinality(Post)
    BY GrownCount DEF IInv, TypeOK
  <2>2. items[i].session \in Guid
    BY <1>3, <2>1 DEF Hit, IInv, TypeOK, Model
  <2>3. /\ drawn' \in [View -> {Null, Failed} \cup Post]
        /\ found' \in [View -> {Null} \cup Guid]
        /\ \A w \in View \ {v} : found'[w] = found[w] /\ drawn'[w] = drawn[w]
    BY <1>3, <2>2 DEF IInv, TypeOK
  <2>4. ViewOK(v)'
    BY <1>3, <2>2 DEF ViewOK, IInv, TypeOK
  <2>5. QED
    BY <1>1, <1>3, <2>3, <2>4, ViewStep
<1>4. QED
  BY <1>2, <1>3 DEF InitializeLayer, ViewAt

LEMMA GetFeaturesOK == ASSUME IInv, NEW v \in View, GetFeatures(v) PROVE IInv'
<1>1. /\ view[v] = "features" /\ view' = [view EXCEPT ![v] = "split"]
      /\ features[found[v]] # Null
      /\ drawn' = [drawn EXCEPT ![v] = features[found[v]]]
      /\ UNCHANGED <<upload, fate, given, job, text, index, items, size, features, root, found, crashes>>
  BY DEF GetFeatures, ViewAt, queue, layers
<1>2. found[v] \in Guid
  BY <1>1 DEF IInv, ViewsOK, ViewOK
<1>3. features[found[v]] \in Post
  BY <1>1, <1>2 DEF IInv, TypeOK
<1>4. /\ drawn' \in [View -> {Null, Failed} \cup Post]
      /\ found' \in [View -> {Null} \cup Guid]
      /\ \A w \in View \ {v} : found'[w] = found[w] /\ drawn'[w] = drawn[w]
      /\ root' \in [Names -> {Null} \cup Tile]
  BY <1>1, <1>3 DEF IInv, TypeOK
<1>5. ViewOK(v)'
  BY <1>1, <1>3 DEF ViewOK, IInv, TypeOK
<1>6. QED
  BY <1>1, <1>4, <1>5, ViewStep

LEMMA SplitRootOK == ASSUME IInv, NEW v \in View, SplitRoot(v) PROVE IInv'
<1>1. /\ view[v] = "split" /\ view' = [view EXCEPT ![v] = "draw"]
      /\ FirstPass(Wanted[v], drawn[v])
      /\ UNCHANGED <<upload, fate, given, job, text, index, items, size, features, found, drawn, crashes>>
  BY DEF SplitRoot, ViewAt, queue
<1>2. drawn[v] \in Post /\ Wanted[v] \in Names
  BY <1>1, JobsAssumption DEF IInv, ViewsOK, ViewOK
<1>3. /\ root' \in [Names -> {Null} \cup Tile]
      /\ root'[Wanted[v]] # Null
      /\ \A k \in Names : root[k] # Null => root'[k] # Null
  BY <1>1, <1>2, FirstPassMakesARoot
<1>4. /\ drawn' \in [View -> {Null, Failed} \cup Post]
      /\ found' \in [View -> {Null} \cup Guid]
      /\ \A w \in View \ {v} : found'[w] = found[w] /\ drawn'[w] = drawn[w]
  BY <1>1 DEF IInv, TypeOK
<1>5. ViewOK(v)'
  BY <1>1, <1>3 DEF ViewOK, IInv, TypeOK
<1>6. QED
  BY <1>1, <1>3, <1>4, <1>5, ViewStep

LEMMA DrawOK == ASSUME IInv, NEW v \in View, Draw(v) PROVE IInv'
<1>1. /\ view[v] = "draw" /\ view' = [view EXCEPT ![v] = "done"]
      /\ drawn' = [drawn EXCEPT ![v] = root[Wanted[v]].source]
      /\ UNCHANGED <<upload, fate, given, job, text, index, items, size, features, root, found, crashes>>
  BY DEF Draw, ViewAt, queue, layers
<1>2. root[Wanted[v]] # Null /\ Wanted[v] \in Names
  BY <1>1, JobsAssumption DEF IInv, ViewsOK, ViewOK
<1>3. root[Wanted[v]].source \in Post
  BY <1>2 DEF IInv, TypeOK, Tile
<1>4. /\ drawn' \in [View -> {Null, Failed} \cup Post]
      /\ found' \in [View -> {Null} \cup Guid]
      /\ \A w \in View \ {v} : found'[w] = found[w] /\ drawn'[w] = drawn[w]
      /\ root' \in [Names -> {Null} \cup Tile]
  BY <1>1, <1>3 DEF IInv, TypeOK
<1>5. ViewOK(v)'
  BY <1>1 DEF ViewOK, IInv, TypeOK
<1>6. QED
  BY <1>1, <1>4, <1>5, ViewStep
-----------------------------------------------------------------------------
\* A crash leaves no layer and no job, and ends the requests under way.
LEMMA CrashOK == ASSUME IInv, Crash PROVE IInv'
<1>1. /\ UNCHANGED <<upload, fate, given, text, index, found>>
      /\ crashes < MaxCrash /\ crashes' = crashes + 1
      /\ job' = [p \in Post |-> IF job[p] = "none" THEN "none" ELSE "over"]
      /\ items' = NoItems /\ size' = 0 /\ features' = NoFeatures /\ root' = NoTiles
      /\ view' = [v \in View |-> IF view[v] = "idle" THEN "idle" ELSE "done"]
      /\ drawn' = [v \in View |-> IF view[v] \in {"idle", "done"} THEN drawn[v] ELSE Failed]
  BY DEF Crash, queue
<1>2. crashes' \in 0..MaxCrash
  BY <1>1, JobsAssumption DEF IInv, TypeOK
<1>3. 0 \in 0..Cardinality(Post)
  BY GrownCount
<1>4. /\ items' \in [1..Cardinality(Post) -> {Null} \cup Model]
      /\ features' \in [Guid -> {Null} \cup Post]
      /\ root' \in [Names -> {Null} \cup Tile]
  BY <1>1 DEF NoItems, NoFeatures, NoTiles
<1>5. /\ job' \in [Post -> {"none", "held", "start", "read", "parse", "tile", "store",
                            "add", "grow", "fill", "finish"} \cup Ended]
      /\ view' \in [View -> {"idle", "features", "split", "draw", "done"}]
      /\ drawn' \in [View -> {Null, Failed} \cup Post]
  BY <1>1 DEF IInv, TypeOK, Ended
<1>6. TypeOK'
  BY <1>1, <1>2, <1>3, <1>4, <1>5 DEF IInv, TypeOK, upload
<1>7. FilesOK'
  BY <1>1 DEF IInv, FilesOK, upload
<1>8. JobsOK'
  BY <1>1 DEF IInv, JobsOK, JobOK, Parsed, Rooted, Stored
<1>9. ViewsOK'
  BY <1>1 DEF ViewsOK, ViewOK
<1>10. ItemsReady' /\ FeaturesAreWholeUploads'
  BY <1>1 DEF ItemsReady, FeaturesAreWholeUploads, NoItems, NoFeatures
<1>11. SizeOK'
  BY <1>1, GrownCountNext DEF SizeOK
<1>12. QED
  BY <1>6, <1>7, <1>8, <1>9, <1>10, <1>11 DEF IInv

LEMMA StutterOK == ASSUME IInv, UNCHANGED vars PROVE IInv'
BY DEF vars, IInv, TypeOK, FilesOK, JobsOK, JobOK, ViewsOK, ViewOK, ItemsReady, SizeOK,
       FeaturesAreWholeUploads, Grown

LEMMA NextOK == ASSUME IInv, [Next]_vars PROVE IInv'
BY CreateDirectoryOK, CreateFileOK, PutRangeOK, GenerateOK, GiveUpOK, TakeOK, HandleOK,
   InitializeLayerOK, GetFeaturesOK, SplitRootOK, DrawOK, CrashOK, StutterOK
   DEF Next, Upload, Answer
-----------------------------------------------------------------------------
\* The invariant holds of every behaviour: uploads, jobs, requests and
\* crashes in any order (Applications/*, TileFactory/Layers).
THEOREM JobsInvariant == Spec => []IInv
<1>1. Init => IInv
  BY InitOK
<1>2. IInv /\ [Next]_vars => IInv'
  BY NextOK
<1>3. QED
  BY <1>1, <1>2, PTL DEF Spec

\* Every variable of the job model keeps its type; the list of layers is
\* never longer than there are posts, whatever List.Add makes of it.
THEOREM TypeCorrect == Spec => []TypeOK
<1>1. IInv => TypeOK
  BY DEF IInv
<1>2. QED
  BY <1>1, JobsInvariant, PTL

\* A listed layer has its features and its root tile, so that a request for
\* it can be served (ProjectedDataObserver.cs:88-99), for any number of jobs
\* that add to the list at once.
THEOREM LayersAreReady == Spec => []ListedLayersAreReady
<1>1. IInv => ListedLayersAreReady
  <2>1. SUFFICES ASSUME IInv, NEW i \in 1..size, items[i] # Null
                 PROVE  features[items[i].session] # Null /\ root[items[i].name] # Null
    BY DEF ListedLayersAreReady
  <2>2. size \in 0..Cardinality(Post) /\ Cardinality(Post) \in Nat
    BY <2>1, GrownCount DEF IInv, TypeOK
  <2>3. i \in 1..Cardinality(Post)
    BY <2>1, <2>2
  <2>4. QED
    BY <2>1, <2>3 DEF IInv, ItemsReady
<1>2. QED
  BY <1>1, JobsInvariant, PTL

\* The features kept for a session are one whole, readable upload of that
\* session, for any number of posts that write its files while they are read
\* (AzureFileReader.cs:196-284, LayerInitializationService.cs:158).
THEOREM WholeUploads == Spec => []FeaturesAreWholeUploads
<1>1. IInv => FeaturesAreWholeUploads
  BY DEF IInv
<1>2. QED
  BY <1>1, JobsInvariant, PTL
-----------------------------------------------------------------------------
(***************************************************************************)
(* LayerShowsItsFile, where no session brings files of two names.  The     *)
(* features cache goes by the session and the tiles by the layer's name;   *)
(* the model in the list ties the two, and one post has both of them.      *)
(***************************************************************************)

OneFileASession == \A p, q \in Post : Session[p] = Session[q] => FileName[p] = FileName[q]

\* A post of the session whose layer has the name.
Brings(s, n) == \E p \in Post : Session[p] = s /\ Name(p) = n

RootsShowTheirFile == \A n \in Names : root[n] # Null => Name(root[n].source) = n

ItemsNameTheirFile ==
    \A i \in 1..Cardinality(Post) :
        items[i] # Null => Brings(items[i].session, items[i].name)

ViewShows(v) ==
    /\ view[v] = "features" => Brings(found[v], Wanted[v])
    /\ view[v] = "split" => Name(drawn[v]) = Wanted[v]
    /\ view[v] = "done" /\ drawn[v] # Failed => Name(drawn[v]) = Wanted[v]

ViewsShow == \A v \in View : ViewShows(v)

ShowInv == RootsShowTheirFile /\ ItemsNameTheirFile /\ ViewsShow

\* Files of one path become layers of one name.
LEMMA SameFileSameName ==
    ASSUME NEW p \in Post, NEW q \in Post, File(p) = File(q) PROVE Name(p) = Name(q)
BY DEF File, Name

\* A root tile after a first pass over the file of its name shows that file.
LEMMA FirstPassShows ==
    ASSUME IInv, RootsShowTheirFile, NEW n \in Names, NEW slice \in Post,
           FirstPass(n, slice), Name(slice) = n
    PROVE  RootsShowTheirFile'
<1>1. root \in [Names -> {Null} \cup Tile]
  BY DEF IInv, TypeOK
<1>2. root'[n].source = slice /\ \A k \in Names \ {n} : root'[k] = root[k]
  BY <1>1 DEF FirstPass
<1>3. QED
  BY <1>2 DEF RootsShowTheirFile

LEMMA TileShows ==
    ASSUME IInv, ShowInv, NEW p \in Post, InitializeTile(p) PROVE ShowInv'
<1>1. /\ job[p] = "tile" /\ FirstPass(Name(p), text[p])
      /\ UNCHANGED <<items, views>>
  BY DEF InitializeTile
<1>2. Session[p] \in Guid /\ text[p] \in Post /\ File(text[p]) = File(p)
  BY <1>1 DEF IInv, JobsOK, JobOK, Parsed, Readable
<1>3. Name(text[p]) = Name(p) /\ Name(p) \in Names
  BY <1>2, SameFileSameName, NamesOfJobs
<1>4. RootsShowTheirFile'
  BY <1>1, <1>2, <1>3, FirstPassShows DEF ShowInv
<1>5. QED
  BY <1>1, <1>4 DEF ShowInv, ItemsNameTheirFile, ViewsShow, ViewShows, views

LEMMA ItemShows == ASSUME IInv, ShowInv, NEW p \in Post, Fill(p) PROVE ShowInv'
<1> DEFINE m == [name |-> Name(p), session |-> Session[p]]
<1>1. items' = [items EXCEPT ![index[p] + 1] = m] /\ UNCHANGED <<root, views>>
  BY DEF Fill
<1>2. Brings(m.session, m.name)
  BY DEF Brings
<1>3. ASSUME NEW i \in 1..Cardinality(Post), items'[i] # Null
      PROVE  Brings(items'[i].session, items'[i].name)
  <2>1. items'[i] = m \/ items'[i] = items[i]
    BY <1>1 DEF IInv, TypeOK
  <2>2. QED
    BY <1>2, <1>3, <2>1 DEF ShowInv, ItemsNameTheirFile
<1>4. ItemsNameTheirFile'
  BY <1>3 DEF ItemsNameTheirFile, Brings
<1>5. QED
  BY <1>1, <1>4 DEF ShowInv, RootsShowTheirFile, ViewsShow, ViewShows, views

\* A step of one view that leaves the list.
LEMMA OneViewShows ==
    ASSUME IInv, ShowInv, RootsShowTheirFile', NEW v \in View, NEW where,
           view' = [view EXCEPT ![v] = where],
           \A w \in View \ {v} : found'[w] = found[w] /\ drawn'[w] = drawn[w],
           UNCHANGED items, ViewShows(v)'
    PROVE  ShowInv'
<1>1. \A w \in View \ {v} : view'[w] = view[w]
  BY DEF IInv, TypeOK
<1>2. ViewsShow'
  BY <1>1 DEF ShowInv, ViewsShow, ViewShows
<1>3. QED
  BY <1>2 DEF ShowInv, ItemsNameTheirFile

LEMMA LookUpShows ==
    ASSUME IInv, ShowInv, NEW v \in View, InitializeLayer(v) PROVE ShowInv'
<1>1. RootsShowTheirFile' /\ UNCHANGED items
  BY DEF InitializeLayer, layers, ShowInv, RootsShowTheirFile
<1>2. CASE Fail(v) /\ UNCHANGED found
  <2>1. view' = [view EXCEPT ![v] = "done"] /\ drawn' = [drawn EXCEPT ![v] = Failed]
    BY <1>2 DEF Fail, ViewAt
  <2>2. ViewShows(v)' /\ \A w \in View \ {v} : found'[w] = found[w] /\ drawn'[w] = drawn[w]
    BY <1>2, <2>1 DEF ViewShows, IInv, TypeOK
  <2>3. QED
    BY <1>1, <2>1, <2>2, OneViewShows
<1>3. ASSUME NEW i \in 1..size, Hit(v, i),
             found' = [found EXCEPT ![v] = items[i].session],
             view' = [view EXCEPT ![v] = "features"], UNCHANGED drawn
      PROVE  ShowInv'
  <2>1. i \in 1..Cardinality(Post)
    BY GrownCount DEF IInv, TypeOK
  <2>2. Brings(items[i].session, Wanted[v])
    BY <1>3, <2>1 DEF Hit, ShowInv, ItemsNameTheirFile
  <2>3. found'[v] = items[i].session /\ view'[v] = "features"
    BY <1>3 DEF IInv, TypeOK
  <2>4. ViewShows(v)'
    BY <2>2, <2>3 DEF ViewShows
  <2>5. \A w \in View \ {v} : found'[w] = found[w] /\ drawn'[w] = drawn[w]
    BY <1>3 DEF IInv, TypeOK
  <2>6. QED
    BY <1>1, <1>3, <2>4, <2>5, OneViewShows
<1>4. QED
  BY <1>2, <1>3 DEF InitializeLayer, ViewAt

\* The features of the session are of the session's one file.
LEMMA FeaturesShow ==
    ASSUME OneFileASession, IInv, ShowInv, NEW v \in View, GetFeatures(v) PROVE ShowInv'
<1>1. /\ view[v] = "features" /\ view' = [view EXCEPT ![v] = "split"]
      /\ features[found[v]] # Null
      /\ drawn' = [drawn EXCEPT ![v] = features[found[v]]]
      /\ UNCHANGED <<layers, found>>
  BY DEF GetFeatures, ViewAt
<1>2. found[v] \in Guid /\ Brings(found[v], Wanted[v])
  BY <1>1 DEF IInv, ViewsOK, ViewOK, ShowInv, ViewsShow, ViewShows
<1>3. features[found[v]] \in Post /\ Session[features[found[v]]] = found[v]
  BY <1>1, <1>2 DEF IInv, FeaturesAreWholeUploads, Readable
<1>4. Name(features[found[v]]) = Wanted[v]
  <2>1. PICK p \in Post : Session[p] = found[v] /\ Name(p) = Wanted[v]
    BY <1>2 DEF Brings
  <2>2. FileName[features[found[v]]] = FileName[p]
    BY <1>3, <2>1 DEF OneFileASession
  <2>3. QED
    BY <1>3, <2>1, <2>2 DEF Name
<1>5. drawn'[v] = features[found[v]] /\ view'[v] = "split"
  BY <1>1 DEF IInv, TypeOK
<1>6. ViewShows(v)'
  BY <1>4, <1>5 DEF ViewShows
<1>7. /\ \A w \in View \ {v} : found'[w] = found[w] /\ drawn'[w] = drawn[w]
      /\ RootsShowTheirFile' /\ UNCHANGED items
  BY <1>1 DEF IInv, TypeOK, ShowInv, RootsShowTheirFile, layers
<1>8. QED
  BY <1>1, <1>6, <1>7, OneViewShows

LEMMA SplitShows == ASSUME IInv, ShowInv, NEW v \in View, SplitRoot(v) PROVE ShowInv'
<1>1. /\ view[v] = "split" /\ view' = [view EXCEPT ![v] = "draw"]
      /\ FirstPass(Wanted[v], drawn[v]) /\ UNCHANGED <<items, found, drawn>>
  BY DEF SplitRoot, ViewAt
<1>2. drawn[v] \in Post /\ Name(drawn[v]) = Wanted[v] /\ Wanted[v] \in Names
  BY <1>1, JobsAssumption DEF IInv, ViewsOK, ViewOK, ShowInv, ViewsShow, ViewShows
<1>3. RootsShowTheirFile'
  BY <1>1, <1>2, FirstPassShows DEF ShowInv
<1>4. ViewShows(v)'
  BY <1>1 DEF ViewShows, IInv, TypeOK
<1>5. QED
  BY <1>1, <1>3, <1>4, OneViewShows

LEMMA DrawShows == ASSUME IInv, ShowInv, NEW v \in View, Draw(v) PROVE ShowInv'
<1>1. /\ view[v] = "draw" /\ view' = [view EXCEPT ![v] = "done"]
      /\ drawn' = [drawn EXCEPT ![v] = root[Wanted[v]].source]
      /\ UNCHANGED <<layers, found>>
  BY DEF Draw, ViewAt
<1>2. root[Wanted[v]] # Null /\ Wanted[v] \in Names
  BY <1>1, JobsAssumption DEF IInv, ViewsOK, ViewOK
<1>3. Name(root[Wanted[v]].source) = Wanted[v]
  BY <1>2 DEF ShowInv, RootsShowTheirFile
<1>4. drawn'[v] = root[Wanted[v]].source /\ view'[v] = "done"
  BY <1>1 DEF IInv, TypeOK
<1>5. ViewShows(v)'
  BY <1>3, <1>4 DEF ViewShows
<1>6. /\ \A w \in View \ {v} : found'[w] = found[w] /\ drawn'[w] = drawn[w]
      /\ RootsShowTheirFile' /\ UNCHANGED items
  BY <1>1 DEF IInv, TypeOK, ShowInv, RootsShowTheirFile, layers
<1>7. QED
  BY <1>1, <1>5, <1>6, OneViewShows

LEMMA CrashShows == ASSUME IInv, ShowInv, Crash PROVE ShowInv'
<1>1. /\ items' = NoItems /\ root' = NoTiles
      /\ view' = [v \in View |-> IF view[v] = "idle" THEN "idle" ELSE "done"]
      /\ drawn' = [v \in View |-> IF view[v] \in {"idle", "done"} THEN drawn[v] ELSE Failed]
  BY DEF Crash
<1>2. RootsShowTheirFile' /\ ItemsNameTheirFile'
  BY <1>1 DEF RootsShowTheirFile, ItemsNameTheirFile, NoItems, NoTiles
<1>3. ASSUME NEW v \in View PROVE ViewShows(v)'
  BY <1>1 DEF ShowInv, ViewsShow, ViewShows
<1>4. QED
  BY <1>2, <1>3 DEF ShowInv, ViewsShow

\* Every other step leaves list, roots and views.
LEMMA RestShows ==
    ASSUME ShowInv, UNCHANGED <<items, root, view, found, drawn>> PROVE ShowInv'
BY DEF ShowInv, RootsShowTheirFile, ItemsNameTheirFile, ViewsShow, ViewShows

LEMMA ShowStep ==
    ASSUME OneFileASession, IInv, ShowInv, [Next]_vars PROVE ShowInv'
<1>1. ASSUME NEW p \in Post, CreateDirectory(p) \/ Upload(p) \/ GiveUp(p) \/ Take(p)
      PROVE  ShowInv'
  <2>1. UNCHANGED <<layers, views>>
    BY <1>1 DEF CreateDirectory, Upload, CreateFile, PutRange, Generate, GiveUp, Take
  <2>2. QED
    BY <2>1, RestShows DEF layers, views
<1>2. ASSUME NEW p \in Post, Handle(p) PROVE ShowInv'
  <2>1. CASE InitializeTile(p) \/ Fill(p)
    BY <2>1, TileShows, ItemShows
  <2>2. CASE Call(p) \/ SendStarted(p) \/ Read(p) \/ Parse(p)
    BY <2>2, RestShows DEF Call, SendStarted, Read, Parse, layers, views
  <2>3. CASE StoreFeatures(p) \/ ReadSize(p) \/ Grow(p) \/ SendFinished(p)
    BY <2>3, RestShows DEF StoreFeatures, ReadSize, Grow, SendFinished, layers, views
  <2>4. QED
    BY <1>2, <2>1, <2>2, <2>3 DEF Handle
<1>3. ASSUME NEW v \in View, InitializeLayer(v) \/ Answer(v) PROVE ShowInv'
  BY <1>3, LookUpShows, FeaturesShow, SplitShows, DrawShows DEF Answer
<1>4. CASE UNCHANGED vars
  BY <1>4, RestShows DEF vars
<1>5. QED
  BY <1>1, <1>2, <1>3, <1>4, CrashShows DEF Next

\* What is shown of a layer is the file it was made from (README.md:38), for
\* any number of jobs, requests and crashes, if no session brings two files:
\* a second one would take the first one's place in the features cache.
THEOREM LayersShowTheirFiles == ASSUME OneFileASession PROVE Spec => []LayerShowsItsFile
<1>1. Init => ShowInv
  BY DEF Init, ShowInv, RootsShowTheirFile, ItemsNameTheirFile, ViewsShow, ViewShows,
         NoItems, NoTiles
<1>2. IInv /\ ShowInv /\ [Next]_vars => ShowInv'
  BY ShowStep
<1>3. ShowInv => LayerShowsItsFile
  BY DEF ShowInv, ViewsShow, ViewShows, LayerShowsItsFile
<1>4. QED
  BY <1>1, <1>2, <1>3, JobsInvariant, PTL DEF Spec
=============================================================================
