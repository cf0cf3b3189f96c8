------------------------------ MODULE AdminPage ------------------------------
(***************************************************************************)
(* The page of the administration application (app.js and its components): *)
(* runs of the router, which render the sections of the page one after the *)
(* other and wait for servers in between, so that the runs of two changes  *)
(* of the hash overlap; the list of layers and its refreshes; the entry of *)
(* jobs; and the button that pings the hub.                                *)
(*                                                                         *)
(* One action is one task of the browser: what the code does up to the     *)
(* next answer it waits for.  A run is known by its number.                *)
(***************************************************************************)
EXTENDS Integers, FiniteSets, Sequences

CONSTANTS Layers,       \* layers of the tile processor
          Identifier,   \* the identifier of each: layers of one session share that session's
          Answers,      \* the lists of layers the tile processor may answer with
          Files,        \* files the user may choose
          Types,        \* types of jobs
          Sessions,     \* sessions of the select "Session to Use"
          Undefined,    \* undefined: no answer, no file, no layer
          MaxRuns,      \* bound: runs of the router
          MaxRefreshes, \* bound: refreshes of the list under way
          MaxJobs       \* bound: jobs submitted

ASSUME AdminAssumption == /\ Answers \subseteq Seq(Layers)
                          /\ Undefined \notin Layers \cup Files \cup Answers
                          /\ Types # {}
                          /\ MaxRuns \in Nat
                          /\ MaxRefreshes \in Nat
                          /\ MaxJobs \in Nat

Runs     == 1..MaxRuns
Sections == {"map", "ping", "jobEntry", "layer"}
Choices  == [file : Files \cup {Undefined}, type : Types]
NoChoice == [file |-> Undefined, type |-> CHOOSE t \in Types : TRUE]
Jobs     == [content : Files, name : Files, type : Types, session : Sessions]

VARIABLES
  runs,       \* what each run waits for, or how it ended
  mapShown,   \* whether the element mapid holds a map
  maps,       \* length of mapsPlaceholder, the maps there have been
  connection, \* the hub connection of each run
  pings,      \* the runs whose connection the button messagePing uses
  jobForm,    \* the run whose form jobEntryForm is on the page, 0 for none
  choice,     \* what is chosen in that form
  reading,    \* jobs whose file is being read; form: what their form says now
  posted,     \* jobs posted to the server
  layers,     \* the module variable layers of Layer.js
  options,    \* the layers whose options layerSelect has, or Undefined without a form
  refreshes,  \* clicks on refreshLayers that wait for their answer
  vector,     \* the layer last put on the first map, or Undefined
  fresh       \* (history) sections rendered since the last run began

mapVars   == <<mapShown, maps>>
hubVars   == <<connection, pings>>
jobVars   == <<jobForm, choice, reading, posted>>
layerVars == <<layers, options, refreshes, vector>>
vars      == <<runs, mapVars, hubVars, jobVars, layerVars, fresh>>

TypeOK == /\ runs \in [Runs -> {"none", "map", "session", "layers", "done", "dead", "failed"}]
          /\ mapShown \in BOOLEAN
          /\ maps \in 0..MaxRuns
          /\ connection \in [Runs -> {"none", "starting", "started", "failed"}]
          /\ pings \subseteq {r \in Runs : connection[r] = "started"}
          /\ jobForm \in 0..MaxRuns
          /\ choice \in Choices
          /\ reading \subseteq [onPage : BOOLEAN, form : Choices, touched : BOOLEAN, asked : Jobs]
          /\ posted \subseteq [asked : Jobs, touched : BOOLEAN, sent : Jobs]
          /\ layers \in {Undefined} \cup Seq(Layers)
          /\ options \in {Undefined} \cup Seq(Layers)
          /\ refreshes \in 0..MaxRefreshes
          /\ vector \in Layers \cup {Undefined}
          /\ fresh \subseteq Sections

Init == /\ runs = [r \in Runs |-> "none"]
        /\ mapShown = FALSE
        /\ maps = 0
        /\ connection = [r \in Runs |-> "none"]
        /\ pings = {}
        /\ jobForm = 0
        /\ choice = NoChoice
        /\ reading = {}
        /\ posted = {}
        /\ layers = <<>>
        /\ options = Undefined
        /\ refreshes = 0
        /\ vector = Undefined
        /\ fresh = {}

-----------------------------------------------------------------------------
(* the router *)

\* load or hashchange: header, footer, the button and the element of the map are
\* made anew, then the run waits for Map's getLayers.
Route(r) ==
  /\ runs[r] = "none" /\ \A q \in Runs : q < r => runs[q] # "none"
  /\ runs' = [runs EXCEPT ![r] = "map"]
  /\ mapShown' = FALSE
  /\ pings' = {}
  /\ fresh' = {}
  /\ UNCHANGED <<maps, connection, jobVars, layerVars>>

\* Mutant: without the layers Map throws, like JobEntry without the sessions.
MapNeedsLayers(r) ==
  /\ runs[r] = "map"
  /\ runs' = [runs EXCEPT ![r] = "dead"]
  /\ UNCHANGED <<mapVars, hubVars, jobVars, layerVars, fresh>>

\* The answer, or the failure, that Map.after_render waits for: L.map throws if the
\* element holds a map; otherwise Messages starts a connection, and JobEntry asks
\* for the sessions.
MapAnswered(r) ==
  /\ runs[r] = "map"
  /\ \/ /\ mapShown
        /\ runs' = [runs EXCEPT ![r] = "dead"]
        /\ UNCHANGED <<mapVars, connection, fresh>>
     \/ /\ ~mapShown
        /\ mapShown' = TRUE
        /\ maps' = maps + 1
        /\ connection' = [connection EXCEPT ![r] = "starting"]
        /\ runs' = [runs EXCEPT ![r] = "session"]
        /\ fresh' = fresh \cup {"map"}
  /\ UNCHANGED <<pings, jobVars, layerVars>>

\* JobEntry: without the sessions render throws, and the run ends.
SessionAnswered(r, ok) ==
  /\ runs[r] = "session"
  /\ \/ /\ ok
        /\ runs' = [runs EXCEPT ![r] = "layers"]
        /\ jobForm' = r
        /\ choice' = NoChoice
        /\ reading' = {[job EXCEPT !.onPage = FALSE] : job \in reading}
        /\ fresh' = fresh \cup {"jobEntry"}
     \/ ~ok /\ runs' = [runs EXCEPT ![r] = "failed"] /\ UNCHANGED <<jobForm, choice, reading, fresh>>
  /\ UNCHANGED <<mapVars, hubVars, posted, layerVars>>

\* Layer: the form with the layers, or a label if they could not be had.
LayersAnswered(r, list) ==
  /\ runs[r] = "layers"
  /\ runs' = [runs EXCEPT ![r] = "done"]
  /\ layers' = list
  /\ options' = list
  /\ fresh' = fresh \cup {"layer"}
  /\ UNCHANGED <<mapVars, hubVars, jobVars, refreshes, vector>>

\* The connection of Messages has started: it listens on the button that is there.
ConnectionSettled(r, ok) ==
  /\ connection[r] = "starting"
  /\ \/ /\ ok
        /\ connection' = [connection EXCEPT ![r] = "started"]
        /\ pings' = pings \cup {r}
        /\ fresh' = fresh \cup {"ping"}
     \/ ~ok /\ connection' = [connection EXCEPT ![r] = "failed"] /\ UNCHANGED <<pings, fresh>>
  /\ UNCHANGED <<runs, mapVars, jobVars, layerVars>>

-----------------------------------------------------------------------------
(* the list of layers *)

RefreshClicked == /\ options # Undefined
                  /\ refreshes < MaxRefreshes
                  /\ refreshes' = refreshes + 1
                  /\ UNCHANGED <<runs, mapVars, hubVars, jobVars, layers, options, vector, fresh>>

\* Mutant: the module variable is not set.
RefreshForgotten(list) ==
  /\ refreshes > 0
  /\ refreshes' = refreshes - 1
  /\ options' = IF options = Undefined THEN Undefined ELSE IF list = Undefined THEN <<>> ELSE list
  /\ UNCHANGED <<runs, mapVars, hubVars, jobVars, layers, vector, fresh>>

\* The answer to a click: without a select nothing is done; without an answer the
\* options are removed and the handler throws.
RefreshAnswered(list) ==
  /\ refreshes > 0
  /\ refreshes' = refreshes - 1
  /\ \/ options = Undefined /\ UNCHANGED <<layers, options>>
     \/ options # Undefined /\ list = Undefined /\ options' = <<>> /\ UNCHANGED layers
     \/ options # Undefined /\ list # Undefined /\ options' = list /\ layers' = list
  /\ UNCHANGED <<runs, mapVars, hubVars, jobVars, vector, fresh>>

\* The layer at i is the first of the list that has its identifier.
FirstOfIdentifier(list, i) == \A j \in 1..(i - 1) : Identifier[list[j]] # Identifier[list[i]]

\* What loadLayer finds for an option: the value of an option is an identifier, and
\* the first layer of layers that has it is taken.
Finds(option, i) == /\ Identifier[layers[i]] = Identifier[option]
                    /\ FirstOfIdentifier(layers, i)

\* loadLayer with the option o selected: what it finds takes the place of the layer
\* before on the first map there has been, which may no longer be on the page.
LoadLayer(o) == /\ options # Undefined /\ o \in 1..Len(options)
                /\ layers # Undefined
                /\ maps > 0
                /\ \E i \in 1..Len(layers) : Finds(options[o], i) /\ vector' = layers[i]
                /\ UNCHANGED <<runs, mapVars, hubVars, jobVars, layers, options, refreshes, fresh>>

-----------------------------------------------------------------------------
(* jobs *)

\* The user chooses a file and a type in the form that is on the page.
Choose(file, type) ==
  /\ jobForm # 0
  /\ choice # [file |-> file, type |-> type]
  /\ choice' = [file |-> file, type |-> type]
  /\ reading' = {IF job.onPage THEN [job EXCEPT !.touched = TRUE, !.form = choice'] ELSE job :
                   job \in reading}
  /\ UNCHANGED <<runs, mapVars, hubVars, jobForm, posted, layerVars, fresh>>

\* submitJobEntry: the session is read, and the file begins to be; without a file
\* readAsArrayBuffer throws.
Submit(session) ==
  /\ jobForm # 0 /\ choice.file # Undefined
  /\ Cardinality(reading) + Cardinality(posted) < MaxJobs
  /\ reading' = reading \cup
       {[onPage |-> TRUE, form |-> choice, touched |-> FALSE,
         asked |-> [content |-> choice.file, name |-> choice.file, type |-> choice.type,
                    session |-> session]]}
  /\ UNCHANGED <<runs, mapVars, hubVars, jobForm, choice, posted, layerVars, fresh>>

\* Mutant: the form is looked up on the page once more.
FormOnThePage(job) == choice

\* What the form a job was submitted in says when its file has been read.
FormOf(job) == job.form

\* onload: the name and the type are read from the form the job was submitted in.
FileRead(job) ==
  /\ job \in reading
  /\ reading' = reading \ {job}
  /\ FormOf(job).file # Undefined
  /\ posted' = posted \cup
       {[asked |-> job.asked, touched |-> job.touched,
         sent |-> [content |-> job.asked.content, name |-> FormOf(job).file,
                   type |-> FormOf(job).type, session |-> job.asked.session]]}
  /\ UNCHANGED <<runs, mapVars, hubVars, jobForm, choice, layerVars, fresh>>

-----------------------------------------------------------------------------

Next == \/ \E r \in Runs : Route(r) \/ MapAnswered(r)
        \/ \E r \in Runs, ok \in BOOLEAN : SessionAnswered(r, ok) \/ ConnectionSettled(r, ok)
        \/ \E r \in Runs, list \in Answers \cup {Undefined} : LayersAnswered(r, list)
        \/ RefreshClicked
        \/ \E list \in Answers \cup {Undefined} : RefreshAnswered(list)
        \/ options # Undefined /\ \E o \in 1..Len(options) : LoadLayer(o)
        \/ \E file \in Files, type \in Types : Choose(file, type)
        \/ \E session \in Sessions : Submit(session)
        \/ \E job \in reading : FileRead(job)

Spec == Init /\ [][Next]_vars

(* Requests are answered, with an answer or a failure, and a connection starts or
   does not.  Nothing is assumed of the user. *)
Fairness ==
  \A r \in Runs :
    /\ WF_vars(MapAnswered(r))
    /\ WF_vars(\E ok \in BOOLEAN : SessionAnswered(r, ok))
    /\ WF_vars(\E list \in Answers \cup {Undefined} : LayersAnswered(r, list))
    /\ WF_vars(\E ok \in BOOLEAN : ConnectionSettled(r, ok))

FairSpec == Spec /\ Fairness

-----------------------------------------------------------------------------
(* properties *)

\* What loadLayer finds for an option that is offered is the layer of this option, or
\* of an earlier one with the same identifier: a layer of a session is loaded in place
\* of the later ones of that session.  There is a map to put it on, however refreshes
\* and renderings overlap and fail; it is the map on the page while no second run of
\* the router has begun.  After one it may be a map that is gone.
OfferedLayersCanBeLoaded ==
  options # Undefined =>
    /\ layers # Undefined
    /\ \A o \in 1..Len(options) : \E i \in 1..Len(layers) :
         /\ Finds(options[o], i)
         /\ i <= o /\ layers[i] = options[i]
         /\ FirstOfIdentifier(options, o) => i = o
    /\ maps > 0
    /\ (\A r \in Runs \ {1} : runs[r] = "none") => mapShown /\ maps = 1

\* A job is posted as it was submitted, with its file, type and session, even if
\* the page is rendered anew while its file is read; only a choice the user makes
\* meanwhile in the same form changes the name and the type, never the rest.
JobsArePostedAsSubmitted ==
  \A job \in posted :
    /\ ~job.touched => job.sent = job.asked
    /\ job.sent.content = job.asked.content /\ job.sent.session = job.asked.session

\* Each change of the hash brings up the whole page anew, although a run that finds
\* a map in place dies half way: another run does its work.  Unless the sessions
\* could not be had or a connection could not be started.
PageIsCompleted ==
  runs[1] # "none" ~> \/ fresh = Sections
                      \/ \E r \in Runs : runs[r] = "failed" \/ connection[r] = "failed"
=============================================================================
