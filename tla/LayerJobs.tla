------------------------------ MODULE LayerJobs ------------------------------
(***************************************************************************)
(* From an uploaded file to a layer: the admin application stores the file *)
(* in the cloud and sends a command (MessageController.Post), the tile     *)
(* server's CommandReceiver turns the file into a layer, and browsers ask  *)
(* the tile server for tiles of it.                                        *)
(*                                                                         *)
(* The file share answers over HTTP: a call may take effect or not, and    *)
(* either way answer well, answer badly or throw.  The queue between the   *)
(* applications is the one CommandDelivery promises and ObserverClient     *)
(* implements.  The tiles of a layer are TilePyramid's matter; here there  *)
(* is the root tile and the Source that other tiles are made from.  The    *)
(* content of a file is named by the post that brought it.                 *)
(***************************************************************************)
EXTENDS Naturals, FiniteSets

CONSTANTS Post,          \* the job requests made of the admin application
          Session,       \* Session[p]: the SessionId of p, a folder's name
          Guid,          \* the sessions whose SessionId is a GUID
          Prefix,        \* Prefix[s]: the first six characters of a GUID
          FileName,      \* FileName[p], or Null without a file
          Known,         \* the posts whose JobType makes a command
          Endless,       \* those whose file has no comma in its text
          Broken,        \* those whose file the pipeline throws on
          View,          \* the tile requests of the run
          Wanted,        \* Wanted[v]: the name of the layer v asks for
          Receiver,      \* CommandReceiver, the queue's one handler
          MaxConcurrentCalls,
          MaxCrash,      \* bound: how often the tile server goes down
          Absent, Blank,   \* no file; a file of zeros
          Mixed, Tangled,  \* two posts' bytes, with a comma and without
          Null,
          Failed         \* a request that threw an exception

VARIABLES
    post,       \* post[p]: where Post stands, or what it answered
    folders,    \* the directories of the share
    files,      \* files[f]: the content of the file
    fate, given,  \* the queue
    job,        \* job[p]: where Process and CommandReceiver stand
    text,       \* text[p]: the OriginalData of p's GeoJsonContext
    index,      \* index[p]: the size that List.Add has read
    items, size,  \* LayerInitializationFileService.models
    features,   \* featureCache
    root,       \* root[n]: the root tile in the raw cache, or Null
    view,       \* view[v]: where a tile request stands
    found,      \* found[v]: the Identifier of the model it found
    drawn,      \* drawn[v]: the features it goes by; in the end its picture
    crashes

upload == <<post, folders, files>>
queue  == <<fate, given>>
layers == <<items, size, features, root>>
views  == <<view, found, drawn>>
vars   == <<post, folders, files, fate, given, job, text, index,
            items, size, features, root, view, found, drawn, crashes>>

Queue == INSTANCE CommandDelivery WITH Message <- Post, Handler <- {Receiver}

File(p) == <<Session[p], FileName[p]>>

\* GenerateUniqueId and context.Identifier, for a session that is a GUID.
Name(p) == <<Prefix[Session[p]], FileName[p]>>

Names == {Name(p) : p \in {q \in Post : Session[q] \in Guid}}

Content == Post \cup {Absent, Blank, Mixed, Tangled}

Sessions == {Session[p] : p \in Post}

ASSUME JobsAssumption ==
    /\ Guid \subseteq Sessions
    /\ DOMAIN Prefix = Guid
    /\ Known \subseteq Post /\ Endless \subseteq Post /\ Broken \subseteq Post
    /\ Wanted \in [View -> Names]
    /\ MaxConcurrentCalls \in Nat \ {0}
    /\ MaxCrash \in Nat
    /\ {Absent, Blank, Mixed, Tangled, Null, Failed} \cap Post = {}
    /\ Absent \notin {Blank, Mixed, Tangled, Null, Failed}
    /\ Blank \notin {Mixed, Tangled, Null, Failed}
    /\ Null # Failed
    /\ Null \notin Sessions
    /\ IsFiniteSet(Post)

Model == [name : Names, session : Guid]

Tile == [features : Post, source : Post]

ASSUME NullIsNeither == Null \notin Model /\ Null \notin Tile

Answered == {"created", "failed"}

\* CommandReceiver has come to an end, well or badly.
Ended == {"finished", "logged", "thrown", "over"}

\* The texts without a comma.
NoComma == Endless \cup {Blank, Tangled}

\* What the tile server can read as GeoJSON.
Readable == Post \ (Endless \cup Broken)

TypeOK ==
    /\ post \in [Post -> {"idle", "file", "range", "generate"} \cup Answered]
    /\ folders \subseteq Sessions
    /\ files \in [{File(p) : p \in Post} -> Content]
    /\ fate \in [Post -> {"unsent", "waiting", "taken", "dead"}]
    /\ given \in [Post -> [{Receiver} -> {0, 1}]]
    /\ job \in [Post -> {"none", "held", "start", "read", "parse", "tile", "store",
                         "add", "grow", "fill", "finish"} \cup Ended]
    /\ text \in [Post -> Content]
    /\ index \in [Post -> 0..Cardinality(Post)]
    /\ items \in [1..Cardinality(Post) -> {Null} \cup Model]
    /\ size \in 0..Cardinality(Post)
    /\ features \in [Guid -> {Null} \cup Post]
    /\ root \in [Names -> {Null} \cup Tile]
    /\ view \in [View -> {"idle", "features", "split", "draw", "done"}]
    /\ found \in [View -> {Null} \cup Guid]
    /\ drawn \in [View -> {Null, Failed} \cup Post]
    /\ crashes \in 0..MaxCrash

NoItems == [i \in 1..Cardinality(Post) |-> Null]

NoFeatures == [s \in Guid |-> Null]

NoTiles == [n \in Names |-> Null]

Init ==
    /\ post = [p \in Post |-> "idle"]
    /\ folders = {}
    /\ files = [f \in {File(p) : p \in Post} |-> Absent]
    /\ Queue!Init
    /\ job = [p \in Post |-> "none"]
    /\ text = [p \in Post |-> Absent]
    /\ index = [p \in Post |-> 0]
    /\ items = NoItems /\ size = 0
    /\ features = NoFeatures
    /\ root = NoTiles
    /\ view = [v \in View |-> "idle"]
    /\ found = [v \in View |-> Null]
    /\ drawn = [v \in View |-> Null]
    /\ crashes = 0

-----------------------------------------------------------------------------
(***************************************************************************)
(* MessageController.Post.                                                 *)
(***************************************************************************)

PostAt(p, where) == post' = [post EXCEPT ![p] = where]

\* A call on the share has returned or thrown; only the latter is noticed.
Awaited(p, where) == PostAt(p, where) \/ PostAt(p, "failed")

CreateDirectory(p) ==
    /\ post[p] = "idle"
    /\ folders' \in {folders, folders \cup {Session[p]}}
    /\ Awaited(p, IF FileName[p] = Null THEN "generate" ELSE "file")
    /\ UNCHANGED <<files, queue, job, text, index, layers, views, crashes>>

\* CreateFileAsync makes the file at its full length, of zeros, whatever
\* was there; if it answers badly, AddFile returns as if all were well.
CreateFile(p) ==
    /\ post[p] = "file"
    /\ \/ /\ Session[p] \in folders
          /\ files' = [files EXCEPT ![File(p)] = Blank]
          /\ Awaited(p, "range")
       \/ /\ UNCHANGED files
          /\ Awaited(p, "generate")
    /\ UNCHANGED <<folders, queue, job, text, index, layers, views, crashes>>

\* What writing p's bytes over others can leave: p's alone, or p's and then
\* some of the others, with a comma unless there is none in p's.
Overwritten(p) == {p, Mixed} \cup (IF p \in Endless THEN {Tangled} ELSE {})

\* PutRangeAsync writes the bytes over those that are there, which it may
\* leave some of; whether it did is not looked at.
PutRange(p) ==
    /\ post[p] = "range"
    /\ \/ \E c \in IF files[File(p)] = Blank THEN {p} ELSE Overwritten(p) :
              files' = [files EXCEPT ![File(p)] = c]
       \/ UNCHANGED files
    /\ Awaited(p, "generate")
    /\ UNCHANGED <<folders, queue, job, text, index, layers, views, crashes>>

\* MessagingService.Generate, and the answer.
Generate(p) ==
    /\ post[p] = "generate"
    /\ \/ p \in Known /\ Queue!Send(p) /\ Awaited(p, "created")
       \/ p \in Known /\ UNCHANGED queue /\ PostAt(p, "failed")
       \/ p \notin Known /\ UNCHANGED queue /\ PostAt(p, "created")
    /\ UNCHANGED <<folders, files, job, text, index, layers, views, crashes>>

-----------------------------------------------------------------------------
(***************************************************************************)
(* The queue, as ObserverClient works it.                                  *)
(***************************************************************************)

\* The calls of Process under way.
Calls == {p \in Post : job[p] \notin {"none"} \cup Ended}

JobAt(p, where) == job' = [job EXCEPT ![p] = where]

GiveUp(p) ==
    /\ Queue!GiveUp(p)
    /\ UNCHANGED <<upload, job, text, index, layers, views, crashes>>

\* Process completes the command's message.
Take(p) ==
    /\ Cardinality(Calls) < MaxConcurrentCalls
    /\ Queue!Take(p)
    /\ JobAt(p, "held")
    /\ UNCHANGED <<upload, text, index, layers, views, crashes>>

\* Process calls the handler, unless completing threw after all.
Call(p) ==
    /\ job[p] = "held"
    /\ \/ Queue!Give(p, Receiver) /\ JobAt(p, "start")
       \/ UNCHANGED queue /\ JobAt(p, "over")
    /\ UNCHANGED <<upload, text, index, layers, views, crashes>>

-----------------------------------------------------------------------------
(***************************************************************************)
(* CommandReceiver.                                                        *)
(***************************************************************************)

\* The first topic message is sent outside the try.
SendStarted(p) ==
    /\ job[p] = "start"
    /\ JobAt(p, "read") \/ JobAt(p, "thrown")
    /\ UNCHANGED <<upload, queue, text, index, layers, views, crashes>>

\* fileRepository.Get under the command's Id, which is the SessionId only if
\* that is a GUID.  Without a file, or after a failed call, an exception is
\* logged.
Read(p) ==
    /\ job[p] = "read"
    /\ \/ /\ Session[p] \in Guid
          /\ files[File(p)] # Absent
          /\ text' = [text EXCEPT ![p] = files[File(p)]]
          /\ JobAt(p, "parse")
       \/ /\ JobAt(p, "logged")
          /\ UNCHANGED text
    /\ UNCHANGED <<upload, queue, index, layers, views, crashes>>

\* mutant: the pipeline takes whatever it is given
ParseAnything(p) ==
    /\ job[p] = "parse"
    /\ text[p] \notin NoComma
    /\ JobAt(p, "tile")
    /\ UNCHANGED <<upload, queue, text, index, layers, views, crashes>>

\* The pipeline up to GeometricSimplification.  The search for a comma in
\* the text never ends where there is none: no step is taken then.
Parse(p) ==
    /\ job[p] = "parse"
    /\ text[p] \notin NoComma
    /\ JobAt(p, IF text[p] \in Readable THEN "tile" ELSE "logged")
    /\ UNCHANGED <<upload, queue, text, index, layers, views, crashes>>

\* The first pass of SplitTile over features: a root tile that is there is
\* kept and given a new Source.
FirstPass(n, slice) ==
    root' = [root EXCEPT ![n] = [features |-> IF @ = Null THEN slice ELSE @.features,
                                 source   |-> slice]]

\* InitializeProjectedFeatures: the root tile of the layer to be.
InitializeTile(p) ==
    /\ job[p] = "tile"
    /\ FirstPass(Name(p), text[p])
    /\ JobAt(p, "store")
    /\ UNCHANGED <<upload, queue, text, index, items, size, features, views, crashes>>

\* mutant: AddLayer does not keep the features
StoreNothing(p) ==
    /\ job[p] = "store"
    /\ JobAt(p, "add")
    /\ UNCHANGED <<upload, queue, text, index, layers, views, crashes>>

\* AddLayer keeps the features under the command's Id ...
StoreFeatures(p) ==
    /\ job[p] = "store"
    /\ features' = [features EXCEPT ![Session[p]] = text[p]]
    /\ JobAt(p, "add")
    /\ UNCHANGED <<upload, queue, text, index, items, size, root, views, crashes>>

\* ... and then models.Add(model): List.Add reads its size,
ReadSize(p) ==
    /\ job[p] = "add"
    /\ index' = [index EXCEPT ![p] = size]
    /\ JobAt(p, "grow")
    /\ UNCHANGED <<upload, queue, text, layers, views, crashes>>

\* mutant: the size is written only if nobody has written it meanwhile, and
\* a job that comes too late tries again without reading it anew
GrowAgain(p) ==
    /\ job[p] = "grow"
    /\ \/ /\ size = index[p]
          /\ size' = size + 1
          /\ JobAt(p, "fill")
       \/ /\ size # index[p]
          /\ UNCHANGED <<size, job>>
    /\ UNCHANGED <<upload, queue, text, index, items, features, root, views, crashes>>

\* writes it,
Grow(p) ==
    /\ job[p] = "grow"
    /\ size' = index[p] + 1
    /\ JobAt(p, "fill")
    /\ UNCHANGED <<upload, queue, text, index, items, features, root, views, crashes>>

\* and puts the model where the list ended.
Fill(p) ==
    /\ job[p] = "fill"
    /\ items' = [items EXCEPT ![index[p] + 1] = [name |-> Name(p), session |-> Session[p]]]
    /\ JobAt(p, "finish")
    /\ UNCHANGED <<upload, queue, text, index, size, features, root, views, crashes>>

\* The topic message that says FINISHED; failing to send it is logged.
SendFinished(p) ==
    /\ job[p] = "finish"
    /\ JobAt(p, "finished") \/ JobAt(p, "logged")
    /\ UNCHANGED <<upload, queue, text, index, layers, views, crashes>>

-----------------------------------------------------------------------------
(***************************************************************************)
(* A tile request for a layer: Generator.GenerateTile.                     *)
(***************************************************************************)

ViewAt(v, where) == view' = [view EXCEPT ![v] = where]

Fail(v) ==
    /\ ViewAt(v, "done")
    /\ drawn' = [drawn EXCEPT ![v] = Failed]

\* mutant: any model will do
HitAny(v, i) ==
    /\ i \in 1..size
    /\ items[i] # Null

\* The first model of the name, with none of those before it still missing.
Hit(v, i) ==
    /\ i \in 1..size
    /\ items[i] # Null /\ items[i].name = Wanted[v]
    /\ \A k \in 1..(i - 1) : items[k] # Null /\ items[k].name # Wanted[v]

\* InitializeLayer looks the model up; it throws without one, on one that
\* is missing, and on a list that is added to meanwhile.
InitializeLayer(v) ==
    /\ view[v] = "idle"
    /\ \/ \E i \in 1..size :
              /\ Hit(v, i)
              /\ found' = [found EXCEPT ![v] = items[i].session]
              /\ ViewAt(v, "features")
              /\ UNCHANGED drawn
       \/ /\ \/ \A i \in 1..size : ~Hit(v, i)
             \/ \E p \in Post : job[p] \in {"grow", "fill"}
          /\ Fail(v)
          /\ UNCHANGED found
    /\ UNCHANGED <<upload, queue, job, text, index, layers, crashes>>

\* Its features come from the cache; without any, ToArray throws.
GetFeatures(v) ==
    /\ view[v] = "features"
    /\ features[found[v]] # Null
    /\ drawn' = [drawn EXCEPT ![v] = features[found[v]]]
    /\ ViewAt(v, "split")
    /\ UNCHANGED <<upload, queue, job, text, index, layers, found, crashes>>

SplitRoot(v) ==
    /\ view[v] = "split"
    /\ FirstPass(Wanted[v], drawn[v])
    /\ ViewAt(v, "draw")
    /\ UNCHANGED <<upload, queue, job, text, index, items, size, features, found, drawn, crashes>>

\* A tile that nobody has asked for before is made from the root's Source.
Draw(v) ==
    /\ view[v] = "draw"
    /\ drawn' = [drawn EXCEPT ![v] = root[Wanted[v]].source]
    /\ ViewAt(v, "done")
    /\ UNCHANGED <<upload, queue, job, text, index, layers, found, crashes>>

-----------------------------------------------------------------------------
\* The tile server goes down and comes up again; its layers were in memory.
Crash ==
    /\ crashes < MaxCrash
    /\ crashes' = crashes + 1
    /\ job' = [p \in Post |-> IF job[p] = "none" THEN "none" ELSE "over"]
    /\ items' = NoItems /\ size' = 0
    /\ features' = NoFeatures
    /\ root' = NoTiles
    /\ view' = [v \in View |-> IF view[v] = "idle" THEN "idle" ELSE "done"]
    /\ drawn' = [v \in View |-> IF view[v] \in {"idle", "done"} THEN drawn[v] ELSE Failed]
    /\ UNCHANGED <<upload, queue, text, index, found>>

Upload(p) == CreateFile(p) \/ PutRange(p) \/ Generate(p)

Handle(p) ==
    \/ Call(p) \/ SendStarted(p) \/ Read(p) \/ Parse(p) \/ InitializeTile(p)
    \/ StoreFeatures(p) \/ ReadSize(p) \/ Grow(p) \/ Fill(p) \/ SendFinished(p)

Answer(v) == GetFeatures(v) \/ SplitRoot(v) \/ Draw(v)

Next ==
    \/ \E p \in Post : CreateDirectory(p) \/ Upload(p) \/ GiveUp(p) \/ Take(p) \/ Handle(p)
    \/ \E v \in View : InitializeLayer(v) \/ Answer(v)
    \/ Crash

\* A request that has begun and a handler that was called go on, a call over
\* the network ending one way or another.
Fairness ==
    /\ \A p \in Post : WF_vars(Upload(p)) /\ WF_vars(Handle(p))
    /\ \A v \in View : WF_vars(Answer(v))

Spec == Init /\ [][Next]_vars /\ Fairness
-----------------------------------------------------------------------------
(***************************************************************************)
(* Properties.                                                             *)
(***************************************************************************)

\* A layer is listed only when it can be served: its features and its root
\* tile are there before its model is (ProjectedDataObserver.cs:88-99,
\* LayerInitializationService.cs:158-176), however jobs interleave; no
\* request finds a model without features.
ListedLayersAreReady ==
    \A i \in 1..size :
        items[i] # Null => /\ features[items[i].session] # Null
                           /\ root[items[i].name] # Null

\* No half-written file becomes a layer, and no other session's: what the
\* features cache holds for a session is one of its files, whole and
\* readable, though files are read while others write them.
FeaturesAreWholeUploads ==
    \A s \in Guid :
        features[s] # Null => features[s] \in Readable /\ Session[features[s]] = s

\* A command that was given to CommandReceiver comes to an end, well or
\* badly, whatever other jobs and uploads do meanwhile, unless the text it
\* reads has no comma: the one post's text that has none, a file of zeros, or
\* what such a post left of another's file (GeoJSONPipeline.cs:35).
JobsEnd ==
    \A p \in Post : (job[p] # "none") ~> (job[p] \in Ended \/ text[p] \in NoComma)

\* README.md:38: the features of a job are stored "as a new layer": what is
\* shown of a layer is the file it was made from.
LayerShowsItsFile ==
    \A v \in View :
        (view[v] = "done" /\ drawn[v] # Failed) => Name(drawn[v]) = Wanted[v]

\* README.md:43: the tile processor says when it has completed a job "and
\* the new layer will be available from the layers dropdown".
FinishedLayersAreAvailable ==
    \A p \in Post :
        job[p] = "finished" => \E i \in 1..size : items[i] # Null /\ items[i].name = Name(p)
=============================================================================
