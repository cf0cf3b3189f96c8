--------------------------- MODULE AdminPageProofs ---------------------------
(***************************************************************************)
(* What the page of the administration application keeps true for any      *)
(* number of runs of the router, refreshes and jobs.                       *)
(***************************************************************************)
EXTENDS AdminPage, FiniteSetTheorems, WellFoundedInduction, TLAPS

\* The runs that have been answered, and those that have put their map on the page.
Past   == {r \in Runs : runs[r] \notin {"none", "map"}}
Mapped == {r \in Runs : runs[r] \notin {"none", "map", "dead"}}

\* A map is counted for each of them, and none twice.
MapsCounted == /\ maps <= Cardinality(Past)
               /\ Mapped # {} => maps > 0

\* Nothing is started for a run that has no map yet.
NotYetConnected == \A r \in Runs : runs[r] \in {"none", "map"} => connection[r] = "none"

\* There is no list of options before a run has had its map.
OptionsNeedAMap == options # Undefined => maps > 0

\* The options are those of the list that loadLayer looks in, or have been removed.
OptionsAreLayers == options # Undefined => /\ layers # Undefined
                                           /\ options \in {<<>>, layers}

\* While no second run has begun, the first map is on the page.
NoSecondRun == \A r \in Runs \ {1} : runs[r] = "none"
FirstMapShown == NoSecondRun /\ maps > 0 => mapShown

\* The form of a job says what was asked for until the user touches it.
FormsSayTheJob ==
  \A job \in reading :
    /\ job.asked.name = job.asked.content
    /\ ~job.touched => job.form.file = job.asked.name /\ job.form.type = job.asked.type

IInv == /\ TypeOK
        /\ MapsCounted
        /\ NotYetConnected
        /\ OptionsNeedAMap
        /\ OptionsAreLayers
        /\ FirstMapShown
        /\ FormsSayTheJob
        /\ JobsArePostedAsSubmitted

LEMMA InitInv == Init => IInv
<1> SUFFICES ASSUME Init PROVE IInv
  OBVIOUS
<1> USE AdminAssumption DEF Init
<1>1. TypeOK
  <2>1. (CHOOSE t \in Types : TRUE) \in Types
    <3>1. \E t \in Types : TRUE
      OBVIOUS
    <3>2. QED
      BY <3>1, Zenon
  <2>2. NoChoice \in Choices
    BY <2>1 DEF NoChoice, Choices
  <2>3. /\ runs \in [Runs -> {"none", "map", "session", "layers", "done", "dead", "failed"}]
        /\ connection \in [Runs -> {"none", "starting", "started", "failed"}]
    OBVIOUS
  <2>4. maps \in 0..MaxRuns /\ jobForm \in 0..MaxRuns /\ refreshes \in 0..MaxRefreshes
    OBVIOUS
  <2>5. layers \in Seq(Layers)
    OBVIOUS
  <2>6. QED
    BY <2>2, <2>3, <2>4, <2>5 DEF TypeOK
<1>2. MapsCounted
  <2>1. Mapped = {} /\ Past = {}
    BY DEF Mapped, Past
  <2>2. Cardinality({}) = 0
    BY FS_EmptySet
  <2>3. QED
    BY <2>1, <2>2 DEF MapsCounted
<1>3. QED
  BY <1>1, <1>2 DEF IInv, NotYetConnected, OptionsNeedAMap, OptionsAreLayers, FirstMapShown,
                    NoSecondRun, FormsSayTheJob,
                    JobsArePostedAsSubmitted

\* The runs past their map are finitely many, and no more than MaxRuns.
LEMMA RunsAreFew ==
  ASSUME NEW S \in SUBSET Runs
  PROVE  IsFiniteSet(S) /\ Cardinality(S) \in 0..MaxRuns
<1>1. IsFiniteSet(Runs) /\ Cardinality(Runs) <= MaxRuns
  <2>1. 1 \in Int /\ MaxRuns \in Int /\ MaxRuns \in Nat
    BY AdminAssumption
  <2>2. QED
    BY <2>1, FS_Interval DEF Runs
<1>2. IsFiniteSet(S) /\ Cardinality(S) <= Cardinality(Runs)
  BY <1>1, FS_Subset
<1>3. Cardinality(S) \in Nat /\ Cardinality(Runs) \in Nat
  BY <1>1, <1>2, FS_CardinalityType
<1>4. QED
  BY <1>1, <1>2, <1>3, AdminAssumption

\* A step that changes neither the runs nor the maps keeps the count.
LEMMA CountStays ==
  ASSUME IInv, UNCHANGED <<runs, maps>>
  PROVE  MapsCounted'
BY DEF IInv, MapsCounted, Mapped, Past

LEMMA RouteInv == ASSUME IInv, NEW r \in Runs, Route(r) PROVE IInv'
<1> USE DEF Route, IInv
<1>1. TypeOK'
  BY DEF TypeOK, jobVars, layerVars
<1>2. MapsCounted'
  <2>1. Past' = Past /\ Mapped' = Mapped /\ maps' = maps
    BY DEF TypeOK, Mapped, Past
  <2>2. QED
    BY <2>1 DEF MapsCounted
<1>3. FirstMapShown'
  <2>1. CASE r = 1
    <3>1. NoSecondRun' => Past = {}
      BY <2>1 DEF TypeOK, NoSecondRun, Past
    <3>2. Past = {} => maps <= 0
      BY FS_EmptySet DEF MapsCounted
    <3>3. NoSecondRun' => ~(maps' > 0)
      BY <3>1, <3>2 DEF TypeOK
    <3>4. QED
      BY <3>3 DEF FirstMapShown
  <2>2. CASE r # 1
    BY <2>2 DEF TypeOK, FirstMapShown, NoSecondRun
  <2>3. QED
    BY <2>1, <2>2
<1>4. QED
  BY <1>1, <1>2, <1>3 DEF TypeOK, NotYetConnected, OptionsNeedAMap, OptionsAreLayers,
                    FormsSayTheJob, JobsArePostedAsSubmitted, jobVars, layerVars

LEMMA MapAnsweredInv == ASSUME IInv, NEW r \in Runs, MapAnswered(r) PROVE IInv'
<1> USE DEF MapAnswered, IInv
<1>1. /\ Past' = Past \cup {r} /\ r \notin Past
      /\ IsFiniteSet(Past) /\ Cardinality(Past) \in Nat
      /\ Cardinality(Past') = Cardinality(Past) + 1 /\ Cardinality(Past') <= MaxRuns
  <2>1. Past' = Past \cup {r} /\ r \notin Past /\ Past \in SUBSET Runs /\ Past' \in SUBSET Runs
    BY DEF TypeOK, Past
  <2>2. IsFiniteSet(Past) /\ Cardinality(Past) \in 0..MaxRuns
    BY <2>1, RunsAreFew
  <2>3. Cardinality(Past \cup {r}) \in 0..MaxRuns
    BY <2>1, RunsAreFew
  <2>4. Cardinality(Past \cup {r}) = Cardinality(Past) + 1
    BY <2>1, <2>2, FS_AddElement
  <2>5. QED
    BY <2>1, <2>2, <2>3, <2>4
<1>2. maps' \in 0..MaxRuns /\ MapsCounted'
  <2>1. maps \in Nat /\ maps <= Cardinality(Past) /\ MaxRuns \in Nat
    BY AdminAssumption DEF TypeOK, MapsCounted
  <2>2. CASE mapShown
    <3>1. maps' = maps /\ Mapped' = Mapped
      BY <2>2 DEF TypeOK, Mapped, mapVars
    <3>2. QED
      BY <1>1, <2>1, <3>1 DEF MapsCounted
  <2>3. CASE ~mapShown
    <3>1. maps' = maps + 1
      BY <2>3
    <3>2. QED
      BY <1>1, <2>1, <3>1 DEF MapsCounted
  <2>4. QED
    BY <2>2, <2>3 DEF TypeOK
<1>3. TypeOK'
  BY <1>2 DEF TypeOK, NotYetConnected, mapVars, jobVars, layerVars, Sections
<1>4. OptionsNeedAMap'
  BY DEF TypeOK, OptionsNeedAMap, mapVars, layerVars
<1>5. QED
  BY <1>2, <1>3, <1>4 DEF TypeOK, NotYetConnected, OptionsAreLayers, FirstMapShown,
                    NoSecondRun, FormsSayTheJob,
                    JobsArePostedAsSubmitted, mapVars, jobVars, layerVars

\* Runs that go on from where they had a map keep the count.
LEMMA LaterRunsCount ==
  ASSUME IInv, NEW r \in Runs, runs[r] \notin {"none", "map", "dead"}, UNCHANGED maps,
         NEW s \in {"layers", "failed", "done"}, runs' = [runs EXCEPT ![r] = s]
  PROVE  MapsCounted' /\ maps > 0
<1>1. Past' = Past /\ r \in Mapped
  BY DEF IInv, TypeOK, Mapped, Past
<1>2. QED
  BY <1>1 DEF IInv, MapsCounted

LEMMA SessionAnsweredInv ==
  ASSUME IInv, NEW r \in Runs, NEW ok \in BOOLEAN, SessionAnswered(r, ok) PROVE IInv'
<1> USE DEF SessionAnswered, IInv
<1>1. MapsCounted'
  BY LaterRunsCount DEF mapVars
<1>2. TypeOK' /\ FormsSayTheJob'
  <2>1. CASE ok
    <3>1. reading' = {[job EXCEPT !.onPage = FALSE] : job \in reading}
      BY <2>1
    <3>2. ASSUME NEW new \in reading'
          PROVE  /\ new \in [onPage : BOOLEAN, form : Choices, touched : BOOLEAN, asked : Jobs]
                 /\ new.asked.name = new.asked.content
                 /\ ~new.touched => new.form.file = new.asked.name
                                     /\ new.form.type = new.asked.type
      <4>1. PICK job \in reading : new = [job EXCEPT !.onPage = FALSE]
        BY <3>1
      <4>2. job \in [onPage : BOOLEAN, form : Choices, touched : BOOLEAN, asked : Jobs]
        BY DEF TypeOK
      <4>3. /\ new \in [onPage : BOOLEAN, form : Choices, touched : BOOLEAN, asked : Jobs]
            /\ new.form = job.form /\ new.asked = job.asked /\ new.touched = job.touched
        BY <4>1, <4>2
      <4>4. QED
        BY <4>3 DEF FormsSayTheJob
    <3>3. NoChoice \in Choices
      BY AdminAssumption DEF NoChoice, Choices
    <3>4. r \in 0..MaxRuns
      BY AdminAssumption DEF Runs
    <3>5. QED
      BY <2>1, <3>2, <3>3, <3>4 DEF TypeOK, FormsSayTheJob, mapVars, hubVars, layerVars, Sections
  <2>2. CASE ~ok
    BY <2>2 DEF TypeOK, FormsSayTheJob, mapVars, hubVars, layerVars
  <2>3. QED
    BY <2>1, <2>2
<1>3. QED
  BY <1>1, <1>2 DEF TypeOK, NotYetConnected, OptionsNeedAMap, OptionsAreLayers,
                    FirstMapShown, NoSecondRun,
                    JobsArePostedAsSubmitted, mapVars, hubVars, layerVars

LEMMA LayersAnsweredInv ==
  ASSUME IInv, NEW r \in Runs, NEW list \in Answers \cup {Undefined}, LayersAnswered(r, list)
  PROVE  IInv'
<1> USE DEF LayersAnswered, IInv
<1>1. MapsCounted' /\ maps > 0
  BY LaterRunsCount DEF mapVars
<1>2. TypeOK'
  BY AdminAssumption DEF TypeOK, mapVars, hubVars, jobVars, Sections
<1>3. QED
  BY <1>1, <1>2 DEF TypeOK, NotYetConnected, OptionsNeedAMap, OptionsAreLayers, FirstMapShown,
                    NoSecondRun, FormsSayTheJob,
                    JobsArePostedAsSubmitted, mapVars, hubVars, jobVars

LEMMA ConnectionSettledInv ==
  ASSUME IInv, NEW r \in Runs, NEW ok \in BOOLEAN, ConnectionSettled(r, ok) PROVE IInv'
<1> USE DEF ConnectionSettled, IInv
<1>1. MapsCounted'
  BY CountStays DEF mapVars
<1>2. TypeOK'
  <2>1. pings' \subseteq {q \in Runs : connection'[q] = "started"}
    BY DEF TypeOK
  <2>2. connection' \in [Runs -> {"none", "starting", "started", "failed"}] /\ fresh' \subseteq Sections
    BY DEF TypeOK, Sections
  <2>3. QED
    BY <2>1, <2>2 DEF TypeOK, mapVars, jobVars, layerVars
<1>3. QED
  BY <1>1, <1>2 DEF TypeOK, NotYetConnected, OptionsNeedAMap, OptionsAreLayers, FirstMapShown,
                    NoSecondRun, FormsSayTheJob,
                    JobsArePostedAsSubmitted, mapVars, jobVars, layerVars

LEMMA LayerListInv ==
  ASSUME IInv, \/ RefreshClicked
               \/ \E list \in Answers \cup {Undefined} : RefreshAnswered(list)
               \/ options # Undefined /\ \E o \in 1..Len(options) : LoadLayer(o)
  PROVE  IInv'
<1> USE DEF RefreshClicked, RefreshAnswered, LoadLayer, IInv
<1>1. MapsCounted'
  BY CountStays DEF mapVars
<1>2. TypeOK'
  <2>1. layers' \in {Undefined} \cup Seq(Layers) /\ options' \in {Undefined} \cup Seq(Layers)
    <3>1. <<>> \in Seq(Layers) /\ \A list \in Answers : list \in Seq(Layers)
      BY AdminAssumption
    <3>2. /\ layers' = layers \/ layers' \in Answers
          /\ options' \in {options, <<>>} \/ options' \in Answers
      OBVIOUS
    <3>3. QED
      BY <3>1, <3>2 DEF TypeOK
  <2>2. vector' \in Layers \cup {Undefined}
    BY DEF TypeOK
  <2>3. refreshes' \in 0..MaxRefreshes
    BY AdminAssumption DEF TypeOK
  <2>4. QED
    BY <2>1, <2>2, <2>3 DEF TypeOK, mapVars, hubVars, jobVars
<1>3. OptionsNeedAMap' /\ OptionsAreLayers'
  BY AdminAssumption DEF TypeOK, OptionsNeedAMap, OptionsAreLayers, mapVars
<1>4. QED
  BY <1>1, <1>2, <1>3 DEF TypeOK, NotYetConnected, FirstMapShown, NoSecondRun, FormsSayTheJob,
                    JobsArePostedAsSubmitted, mapVars, hubVars, jobVars

LEMMA ChooseInv ==
  ASSUME IInv, NEW file \in Files, NEW type \in Types, Choose(file, type) PROVE IInv'
<1> USE DEF Choose, IInv
<1>1. MapsCounted'
  BY CountStays DEF mapVars
<1>2. choice' \in Choices
  BY DEF Choices
<1>3. ASSUME NEW new \in reading'
      PROVE  /\ new \in [onPage : BOOLEAN, form : Choices, touched : BOOLEAN, asked : Jobs]
             /\ new.asked.name = new.asked.content
             /\ ~new.touched => new.form.file = new.asked.name
                                 /\ new.form.type = new.asked.type
  <2>1. PICK job \in reading :
          new = IF job.onPage THEN [job EXCEPT !.touched = TRUE, !.form = choice'] ELSE job
    OBVIOUS
  <2>2. job \in [onPage : BOOLEAN, form : Choices, touched : BOOLEAN, asked : Jobs]
    BY DEF TypeOK
  <2>3. CASE job.onPage
    <3>1. /\ new \in [onPage : BOOLEAN, form : Choices, touched : BOOLEAN, asked : Jobs]
          /\ new.asked = job.asked /\ new.touched = TRUE
      BY <1>2, <2>1, <2>2, <2>3
    <3>2. QED
      BY <3>1 DEF FormsSayTheJob
  <2>4. CASE ~job.onPage
    BY <2>1, <2>2, <2>4 DEF FormsSayTheJob
  <2>5. QED
    BY <2>3, <2>4
<1>4. QED
  BY <1>1, <1>2, <1>3 DEF TypeOK, NotYetConnected, OptionsNeedAMap, OptionsAreLayers,
                    FirstMapShown, NoSecondRun,
                    FormsSayTheJob, JobsArePostedAsSubmitted, mapVars, hubVars, layerVars

LEMMA SubmitInv == ASSUME IInv, NEW session \in Sessions, Submit(session) PROVE IInv'
<1> USE DEF Submit, IInv
<1> DEFINE job == [onPage |-> TRUE, form |-> choice, touched |-> FALSE,
                   asked |-> [content |-> choice.file, name |-> choice.file,
                              type |-> choice.type, session |-> session]]
<1>1. MapsCounted'
  BY CountStays DEF mapVars
<1>2. job \in [onPage : BOOLEAN, form : Choices, touched : BOOLEAN, asked : Jobs]
  <2>1. choice \in Choices /\ choice.file \in Files /\ choice.type \in Types
    BY DEF TypeOK, Choices
  <2>2. QED
    BY <2>1 DEF Jobs
<1>3. reading' = reading \cup {job}
  OBVIOUS
<1>4. FormsSayTheJob'
  BY <1>3 DEF FormsSayTheJob
<1>5. QED
  BY <1>1, <1>2, <1>3, <1>4 DEF TypeOK, NotYetConnected, OptionsNeedAMap, OptionsAreLayers,
                    FirstMapShown, NoSecondRun,
                    JobsArePostedAsSubmitted, mapVars, hubVars, layerVars

LEMMA FileReadInv == ASSUME IInv, NEW job \in reading, FileRead(job) PROVE IInv'
<1> USE DEF FileRead, FormOf, IInv
<1> DEFINE post == [asked |-> job.asked, touched |-> job.touched,
                    sent |-> [content |-> job.asked.content, name |-> job.form.file,
                              type |-> job.form.type, session |-> job.asked.session]]
<1>1. MapsCounted'
  BY CountStays DEF mapVars
<1>2. job \in [onPage : BOOLEAN, form : Choices, touched : BOOLEAN, asked : Jobs]
  BY DEF TypeOK
<1>3. post \in [asked : Jobs, touched : BOOLEAN, sent : Jobs]
  BY <1>2 DEF Jobs, Choices
<1>4. posted' = posted \cup {post}
  OBVIOUS
<1>5. ~job.touched => post.sent = post.asked
  BY <1>2 DEF FormsSayTheJob, Jobs
<1>6. JobsArePostedAsSubmitted'
  BY <1>4, <1>5 DEF JobsArePostedAsSubmitted
<1>7. QED
  BY <1>1, <1>3, <1>4, <1>6 DEF TypeOK, NotYetConnected, OptionsNeedAMap, OptionsAreLayers,
                    FirstMapShown, NoSecondRun,
                    FormsSayTheJob, mapVars, hubVars, layerVars

LEMMA StepInv == IInv /\ [Next]_vars => IInv'
<1> SUFFICES ASSUME IInv, [Next]_vars PROVE IInv'
  OBVIOUS
<1>1. CASE Next
  BY <1>1, RouteInv, MapAnsweredInv, SessionAnsweredInv, LayersAnsweredInv,
     ConnectionSettledInv, LayerListInv, ChooseInv, SubmitInv, FileReadInv DEF Next
<1>2. CASE UNCHANGED vars
  <2>1. MapsCounted'
    BY <1>2, CountStays DEF vars, mapVars
  <2>2. QED
    BY <1>2, <2>1 DEF IInv, TypeOK, NotYetConnected, OptionsNeedAMap, OptionsAreLayers,
                    FirstMapShown, NoSecondRun,
                      FormsSayTheJob, JobsArePostedAsSubmitted, vars, mapVars, hubVars, jobVars,
                      layerVars
<1>3. QED
  BY <1>1, <1>2

LEMMA Invariance == Spec => []IInv
BY InitInv, StepInv, PTL DEF Spec

-----------------------------------------------------------------------------

\* Every variable keeps its type; there are never more maps than runs.
THEOREM TypeCorrect == Spec => []TypeOK
<1>1. IInv => TypeOK
  BY DEF IInv
<1>2. QED
  BY <1>1, Invariance, PTL

\* Every layer of a list has a first one with its identifier.
LEMMA FirstExists ==
  ASSUME NEW list \in Seq(Layers), NEW o \in 1..Len(list)
  PROVE  \E i \in 1..o : /\ Identifier[list[i]] = Identifier[list[o]]
                          /\ FirstOfIdentifier(list, i)
<1> DEFINE Same == {i \in 1..o : Identifier[list[i]] = Identifier[list[o]]}
           Less == {ss \in Nat \X Nat : ss[1] < ss[2]}
<1>1. IsWellFoundedOn(Less, Nat)
  BY NatLessThanWellFounded DEF OpToRel
<1>2. o \in Nat /\ o \in Same /\ Same \subseteq Nat /\ Same # {}
  OBVIOUS
<1> HIDE DEF Less
<1>3. PICK i \in Same : \A j \in Same : <<j, i>> \notin Less
  BY <1>1, <1>2, WFMin
<1>4. FirstOfIdentifier(list, i)
  <2> SUFFICES ASSUME NEW j \in 1..(i - 1), Identifier[list[j]] = Identifier[list[i]]
               PROVE  FALSE
    BY DEF FirstOfIdentifier
  <2>1. i \in 1..o /\ i \in Nat /\ j \in Nat /\ j \in 1..o /\ j < i
    BY <1>2
  <2>2. j \in Same
    BY <2>1
  <2>3. <<j, i>> \notin Less
    BY <1>3, <2>2
  <2>4. QED
    BY <2>1, <2>3 DEF Less
<1>5. QED
  BY <1>3, <1>4

\* A run that puts a map on the page is the only one that has been answered, as long
\* as it is the only one there is.
LEMMA OneRunOneMap == IInv /\ NoSecondRun => maps <= 1
<1> SUFFICES ASSUME IInv, NoSecondRun PROVE maps <= 1
  OBVIOUS
<1>1. Past \subseteq {1}
  BY DEF Past, NoSecondRun
<1>2. IsFiniteSet({1}) /\ Cardinality({1}) = 1
  BY FS_Singleton
<1>3. Cardinality(Past) <= 1 /\ IsFiniteSet(Past)
  BY <1>1, <1>2, FS_Subset
<1>4. Cardinality(Past) \in Nat
  BY <1>3, FS_CardinalityType
<1>5. QED
  BY <1>3, <1>4, AdminAssumption DEF IInv, MapsCounted, TypeOK

\* However many runs, refreshes and failures overlap, loadLayer finds the layer of an
\* option that is offered, or an earlier one of the same identifier, and there is a map
\* to put it on, the one on the page while no second run has begun.
THEOREM OfferedLayersLoad == Spec => []OfferedLayersCanBeLoaded
<1>1. IInv => OfferedLayersCanBeLoaded
  <2> SUFFICES ASSUME IInv, options # Undefined
               PROVE  /\ layers # Undefined
                      /\ \A o \in 1..Len(options) : \E i \in 1..Len(layers) :
                           /\ Finds(options[o], i)
                           /\ i <= o /\ layers[i] = options[i]
                           /\ FirstOfIdentifier(options, o) => i = o
                      /\ maps > 0
                      /\ NoSecondRun => mapShown /\ maps = 1
    BY DEF OfferedLayersCanBeLoaded, NoSecondRun
  <2>1. layers # Undefined /\ layers \in Seq(Layers) /\ options \in {<<>>, layers} /\ maps > 0
    BY DEF IInv, TypeOK, OptionsAreLayers, OptionsNeedAMap
  <2>2. \A o \in 1..Len(options) : \E i \in 1..Len(layers) :
          /\ Finds(options[o], i)
          /\ i <= o /\ layers[i] = options[i]
          /\ FirstOfIdentifier(options, o) => i = o
    <3> TAKE o \in 1..Len(options)
    <3>1. options = layers /\ o \in 1..Len(layers)
      BY <2>1
    <3>2. PICK i \in 1..o : /\ Identifier[layers[i]] = Identifier[layers[o]]
                            /\ FirstOfIdentifier(layers, i)
      BY <2>1, <3>1, FirstExists
    <3>3. i \in 1..Len(layers) /\ i <= o
      BY <2>1, <3>1
    <3>4. FirstOfIdentifier(layers, o) => i = o
      <4> SUFFICES ASSUME FirstOfIdentifier(layers, o), i # o PROVE FALSE
        OBVIOUS
      <4>1. i \in 1..(o - 1)
        BY <2>1, <3>1
      <4>2. QED
        BY <3>2, <4>1 DEF FirstOfIdentifier
    <3>5. Finds(options[o], i)
      BY <3>1, <3>2 DEF Finds
    <3>6. QED
      BY <3>1, <3>3, <3>4, <3>5
  <2>3. NoSecondRun => mapShown /\ maps = 1
    BY <2>1, OneRunOneMap, AdminAssumption DEF IInv, TypeOK, FirstMapShown
  <2>4. QED
    BY <2>1, <2>2, <2>3
<1>2. QED
  BY <1>1, Invariance, PTL

\* Any number of jobs whose files are read at once are posted as they were
\* submitted, through renderings of the page in between.
THEOREM JobsAsSubmitted == Spec => []JobsArePostedAsSubmitted
<1>1. IInv => JobsArePostedAsSubmitted
  BY DEF IInv
<1>2. QED
  BY <1>1, Invariance, PTL
=============================================================================
