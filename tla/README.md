# A TLA+ model of the Geospatial Information System

The repository holds a small distributed GIS. An **admin application** takes
uploaded GeoJSON files, stores them on an Azure file share and puts a command on
a Service Bus queue. A **tile server** (TileProcessingApp) takes the command off
the queue, projects and simplifies the file, and keeps its features in memory as
a layer. Browsers then ask the tile server for tiles `z/x/y` of the layer, which
it slices out of the features on demand and caches. In the browser, the admin
page lists layers, enters jobs and hears of their progress over a SignalR hub
connection; a sandbox page slices GeoJSON into tiles by itself; a mashup shows
earthquakes in a grid. This directory models the path from upload to tile (the
protocols between the processes, and the state that threads share inside one),
and the JavaScript of the pages (the callbacks, answers and events that
interleave in one browser).

## 1. Inventory

Paths are relative to `src/`; TF is `RenderingFramework/TileFactory`.

### Tile generation
TF/`Generator.cs`, TF/`TileRetrieverService.cs`, `Applications/TileProcessingApp/Controllers/TilesController.cs`.

* *State.* Two caches shared by all requests (raw and transformed tiles), and in
  them `GeoTile` objects with mutable `Features` and `Source`. `TileRetrieverService`,
  `Generator` and `ITileContext` are made anew for each request.
* *Operations.* `GetTile` answers from the transformed cache, or has
  `GenerateTile` make the raw tile and transforms it. `GenerateTile` initialises
  the layer and runs a first pass of `SplitTile` over the root, looks for the
  tile, climbs to the nearest ancestor with a `Source`, and drills down from it
  with `SplitTile`, which pops tiles off a stack, creates missing ones, assigns
  `Source`, drops it again where it slices, and pushes four clipped children.
* *Hard.* Requests interleave at every access to the shared objects, with no
  lock above the caches' own. `Source` is read twice, assigned and dropped
  between others' look-up and use. A tile once stripped of its `Source` must
  have its children stored or nothing under it can ever be made again. An
  exception in the middle of a drill leaves what is still on the stack unmade, and
  one in the transform comes after the raw tiles have been made.
* *Correct means.* What is served and kept is the tile asked for, complete; a
  kept tile never changes; the climb and the stack end after a number of turns
  that the levels of the pyramid bound; one request at a time, the answer never
  depends on which tiles earlier requests made, but beside a filled square.

### Tile caches
TF/`Layers/LayerTileCacheAccessor.cs`, TF/`Models/SimpleTileCacheStorage.cs`, TF/`Utility/Identifier.cs`.

* *State.* A cache per layer and kind, created on demand, keyed by a 32-bit id
  computed from `z/x/y`.
* *Operations.* Get and store, each: an unlocked `ContainsKey`, a locked
  creation, a look-up.
* *Hard.* The test and the lock race; the id arithmetic overflows.
* *Correct means.* Together the caches are one map from tiles.

### Messaging
`EventFramework/Messaging/ObserverClient.cs`, `MessengerClient.cs`, `Universal/Universal.Contracts/Serial/Extensions.cs`.

* *State.* The broker's place and lock of each message; per process the handler
  registrations, the calls under way and a process-wide JSON error handler.
* *Operations.* Send; construct (which starts the pump); register a handler;
  `Process`, one call per delivery: parse, complete (queues only), dispatch to the
  handlers one by one, log; close.
* *Hard.* Locks expire, completions fail or take effect without an answer,
  processes die, handlers throw, handlers are registered while messages are
  being dispatched, topic messages are never completed and come back.
* *Correct means.* A queue's command reaches each handler at most once; a topic's
  at most once per delivery; no message goes round for ever.

### Job submission
`Applications/AdminManagementApp/Controllers/MessageController.cs`, `Services/FileService.cs`,
`Services/MessagingService.cs`, `Models/JobRequest.cs`, `AdminFramework/Files/CloudFileStorage/AzureFileReader.cs`.

* *State.* Directories and files of the share.
* *Operations.* `Post`: create the directory, create the file at its length, put
  its bytes, send the command.
* *Hard.* Each call may fail or take effect without an answer and most bad
  answers are ignored; two posts may write one file; it is read meanwhile.

### Job processing and layer registry
`Applications/TileProcessingApp/Observers/ProjectedDataObserver.cs`, TF/`DataPipeline/`,
TF/`Layers/LayerInitializationService.cs`, TF/`Layers/SimpleFeaturesCache.cs`.

* *State.* A plain `List` of layer models, features by session, the root tile of
  each layer; all in memory and shared by up to twenty jobs and all requests.
* *Operations.* `CommandReceiver`: report the start, read the file, parse,
  initialise the root tile, `AddLayer` (features, then `List.Add`), report the end.
  `InitializeLayer(name)` on behalf of tile requests.
* *Hard.* Jobs and requests interleave inside `List.Add`; the server goes down in
  the middle; the search for a comma in the text does not stop at its end.
* *Correct means.* A listed layer can be served, shows the file it was made from,
  and only whole uploads become layers; jobs end.

### Hub connection
`Applications/AdminManagementApp/wwwroot/lib/signalr.js`.

* *State.* The connection's state, its transport and what `start` waits for; the
  timer that gives the server up; the callbacks of calls and streams.
* *Operations.* `start` negotiates (following redirects), tries the transports in
  the server's order, then shakes hands; `stop`, at any moment, waits for `start`
  and ends the transport; `invoke`, `stream`; the handling of incoming data; the
  end of each of three kinds of transport, reported once to the page.
* *Hard.* `stop` arrives at each of `start`'s awaits; a fallback follows a failure
  that arrives after `stop`; each transport ends in its own way (an event, at
  once, with the answer to a poll); a message that cannot be handled ends two of
  them and leaves the third; a POST fails after its call was answered.
* *Correct means.* Sessions start, open, end and are told; after `stop` nothing
  waits; a call that waits can still be settled; no timer that runs is forgotten.

### Tile sandbox page
`RenderingFramework/TileSandbox/wwwroot/js/geojson-vt-dev.js`, `viz.js`.

* *State.* The tiles made so far, some with a `source` to go on from; the page's
  place, picture and button.
* *Operations.* Convert a file and rank its vertices, wrap it at the date line,
  split it into tiles down to a limit, drill further down on demand; drop files,
  click down, go back.
* *Hard.* A tile's features are dropped once it has been split, and tiles that
  are one filled square stop the descent; importance is computed once for all
  zooms; pieces of other worlds are shifted in; a file is loaded while another is
  shown.
* *Correct means.* A tile shows what lies in it, whichever tiles were asked for; no
  feature is lost when tiles are split; picture and address belong together; the loop
  that splits ends, and nothing goes below the last zoom.

### Grid library and earthquakes page
`Mashups/EarthquakesII/assets/dgrid/{List,Grid,Selection}.js`, `yearSelection.js`, `quakeDataLoader.js`.

* *State.* Rows, sort, columns, the selection object, the class on its rows, the
  row a mouse selection starts from; the page's slider, queries and popup.
* *Operations.* `renderArray`, `refresh`, `removeRow`, sorting and its arrow,
  changing columns; selecting in five modes, by mouse and modifiers or by calls.
* *Hard.* Row numbers are used again after a refresh; a selection made when the
  button goes up, or from a row that has gone; answers in the wrong order.
* *Correct means.* What is selected is what looks selected and what listeners
  were told; the arrow is under the column of the sort.

### Admin front end
`Applications/AdminManagementApp/wwwroot/app.js`, `views/components/{Map,Messages,JobEntry,Layer}.js`.

* *State.* The sections on the page, module variables that outlive them (the
  maps, the list of layers), a hub connection per run of the router.
* *Operations.* The router, run on each change of the hash; rendering with
  requests in between; refreshing and loading layers; submitting a job.
* *Hard.* Runs overlap: one answers into the elements another has replaced; a
  file is still being read when its form goes; layers are looked up by an identifier
  that is their session's.
* *Correct means.* What is offered can be loaded, as far as identifiers tell; a job is
  posted as it was submitted; the page comes up complete.

### Not modelled
* *Projection, simplification and the pipe classes* (TF/`DataPipeline/GeometricSimplification.cs`,
  TF/`Interfaces/APipe.cs`, `AParallelPipe.cs`), *the clipper's geometry* (TF/`Utility/Clipper.cs`)
  and *vector tile encoding* (TF/`Commands`, `Parameters`, `Serialization`): planned, see section 7.
* *Of the hub connection's file*: the polyfill of promises at its head (used only
  where the browser has none), loggers, HTTP clients, text formats. *Of dgrid*:
  `Keyboard.js`, touch, resizing, `util/misc.js`: layout and the DOM. *Of the admin
  front end*: the list of broadcasts, the log's table and static pages: output.
* *The tile server's other endpoints*, *the admin application's storage and hub*:
  thin or read-only; the message list is planned.
* *Logging*, *the consoles*, *the other mashups*, *generated and vendored code*:
  output, trials, demonstrations; nothing to state about them.

## 2. Modules

| module | what it is |
| --- | --- |
| `TileServer` | abstract: every request is answered with an expected answer |
| `TilePyramid` | detailed: concurrent requests on one layer's raw tiles |
| `TileMap` | abstract: one map from tiles, read and written atomically |
| `LayerTileCache` | detailed: the accessor's racy creation and 32-bit ids |
| `CommandDelivery` | abstract: an at-most-once command queue |
| `ObserverClient` | detailed: broker, pump, `Process`, handlers, crashes |
| `LayerJobs` | upload, file share, queue, `CommandReceiver`, registry, requests |
| `Connection` | abstract: the sessions of a connection start, open, end and are told |
| `HttpConnection` | negotiation, transports, fallback, `stop` (of `signalr.js`) |
| `HubConnection` | detailed: `HttpConnection` with handshake, calls, streams, messages, timer |
| `GeoJsonVt` | operators: the tile index of the sandbox page (clip, wrap, tile, transform, index) |
| `GeoJsonConvert` | operators: how a file becomes its features (simplify, convert) |
| `TileViewer` | the page over the index: drops, clicks, the way back, the turns of `splitTile` |
| `TilePicture` | abstract: what each tile should show, and the properties that compare |
| `Dgrid` | rows, sort, columns and selection of a grid |
| `QuakePage` | the earthquakes page over it, or any page that calls the library |
| `AdminPage` | the router's runs, layers, jobs and pings of the admin page |
| `MC...` | instances of the above for TLC |
| `...Proofs` | theorems about the above |

They compose by promise. `TilePyramid` uses the caches as maps, which is what
`LayerTileCache` is shown to implement (`TileMap`). `LayerJobs` works the queue
through the actions of `CommandDelivery` (`INSTANCE ... WITH Message <- Post`),
which is what `ObserverClient` is shown to implement. `LayerJobs` has the root
tile of each layer and takes the first pass over it in one step; `TilePyramid`
takes it apart and goes on below the root. `HubConnection`, `TileViewer` and
`QuakePage` extend the module of the library they run on, and compose each of
its actions with what they do on it. Of the hub connection `AdminPage` uses only
that `start` succeeds or fails, as the sessions of `Connection` do.

### TilePyramid
A tile is the path of quadrants from the root, so the parent of `z/x/y` drops
the last quadrant and ancestors are prefixes. `raw[t]` says whose object the
cache holds, `object[t][c]` is the object that request `c` made: two requests
that miss at once make two objects, and the one stored first lives on in the
hands of its maker. `pc` names the code between two shared accesses:

| action | code |
| --- | --- |
| `GetTile` | the transformed look-up; start of `GenerateTile` |
| `LookupFrame`, `StoreRawTile`, `AssignSource`, `SliceTile` | one turn of `SplitTile`'s loop |
| `FindTarget`, `Climb`, `CheckParent`, `CopySource`, `TakeResult` | `GenerateTile` after the first pass |
| `StoreTransformedTile` | the end of `GetTile` |

`Climb` ends with `null` when it has passed the root, `CheckParent` when the
ancestor has no `Source`; `CopySource` reads the field again and throws when it
was dropped in between. Clipping is abstracted to which features it leaves
(`Content`), and to whether nothing left is an empty array or `null`
(`EmptyArray`), which the code treats differently when it looks for a `Source`.
`Solid` tiles are those where `IsClippedSquare` (TF/`Transforms/Transform.cs:110`)
indexes the rings with the number of a point and throws. The exception ends the
drill with the rest of its stack, so that tiles of the square's quarter of the world
and beside it (`Beside`) can be lost for good: `CutShort` and `Expected` say which,
no more widely than that.
`StoreTransformedTile` goes through the features of the tile: `ProcessTile` throws at
a line or at several geometries in one feature (TF/`Transforms/Transform.cs:72`),
which the pipeline lets in (`Unsupported`, `CanProcess`). The request then fails and
the raw tiles made for it stay. `Transformed` says what a tile is answered with.
`StepsLeft` bounds the steps a request has still to take: of the four frames that a
slice pushes one at most is `OnTheWay` to the target.

### LayerTileCache
`Begin` is the unlocked test, `Create` the creation under the lock, `Use` the
look-up and the access. `ToId` keeps the width of the code's integer: below the
five bits of the zoom there is room for `Word = 2^27` values.

### ObserverClient
`place` and `lock` are the broker's; `call[c][s]` is a call of `Process` in slot
`s` of process `c`, with the line it has reached, the lock token of its delivery
and the enumerator over the handlers. `Parse`, `CompleteAsync`, `Dispatch`,
`NextHandler`, `HandlerEnds` and `NotifyLog` are `Process`; `Throw` is any way it
ends badly, with the pump abandoning the message. `lenient` is the `Error`
handler that serialising leaves on the shared JSON settings. Broker actions are
external: they are modelled from how `Process` uses the client library.

### LayerJobs
`post[p]` is where `MessageController.Post` stands, `job[p]` where `Process` and
`CommandReceiver` stand for that post's command, `view[v]` where a tile request
stands. Files are named by session and file name, and their content by the post
that wrote it, `Blank` (the zeros of a created file), or two posts' bytes: `Mixed`
with a comma in them, `Tangled` without one, which the bytes of a post that has none may
leave (`Overwritten`). Texts of `NoComma` are searched for ever. `ReadSize`,
`Grow` and `Fill` are the read, the write and the store in `List.Add`. `Hit` is the search of `Any` and `First` as far as it goes: a missing
element before the model makes it throw. Left out: growing the list's array, the
folding of case in layer names, the layers of the layers folder, and the message
list that `CommandReceiver` also writes its topic messages to, which nothing else
in a job reads. A session that is
not a GUID is sent as `Guid.Empty`, so its file is looked for where there is
none, and no job of it gets as far as naming a layer.

### HttpConnection and HubConnection
An action is one task of the browser's event loop with the promise
continuations it sets off; a continuation that waits for another promise is an
action of its own (`HubStartContinues`, `StopsTransport`), and tasks wait until
they are done (`Quiet`). `starting` is the await that `startInternal` is at, `link`
what the transport made last holds.

| action | code |
| --- | --- |
| `HubStart`, `Negotiated`, `NegotiationFails`, `TryEndpoint`, `Renegotiated` | `start`, `startInternal`, `createTransport` |
| `TransportOpens`, `TransportFails` | `connect` of the three transports, and what `startInternal` does after it |
| `HubStartContinues`, `HandshakePosted` | `HubConnection.start` after its awaits |
| `HubStop`, `StopsTransport`, `StopsEventSource`, `Deleted` | `stop`, before and after the await of `startPromise` |
| `Receive`, `ReceiveLast`, `ReceiveLate` | `processIncomingData` on a live link, on its last data, on an `EventSource` left open |
| `EventSourceFails` | `onerror` of an `EventSource` left open: it is closed and its end reported |
| `CallHub`, `Posted`, `Dispose` | `invoke`, `stream` and the cancelling of a stream |
| `LinkEnds`, `connectionClosed` | the end of a link, up to the page |

Messages are told apart by what handling them does (`Messages`), and come in
frames of several, as the code parses all of a frame before it handles any. The
page that starts the connection again waits until the session before it is over
(`MayStart`): on an impatient one, events of the old link would reach the new
session. Left out: what messages carry, `skipNegotiation`, transports the caller
supplies, loggers.

### GeoJsonVt, GeoJsonConvert, TileViewer and TilePicture
The operators have the names of the functions (`convert`, `simplify`, `clip`, `wrap`,
`createTile`, `splitTile`, `transformTile`). Coordinates are whole numbers in pixels of a
tile at `MaxZoom`, and lines run level, upright or diagonally, so that every cut is
a whole number; importances are exact fractions. The stacks of `simplify` and
`splitTile` are kept as stacks. Tags are left out.

A handler runs to its end before the next one starts, but the loop of `splitTile` in it
is taken turn by turn, so that something can be said of the index in between. `call` is
the handler that is in that loop, with the stack (`work`) and the place it draws:

| action | code |
| --- | --- |
| `ondrop` | `canvas.ondrop` |
| `onload` | `reader.onload`, up to the first turn of the first pass if there are features |
| `onclick`, `back` | `canvas.onclick`, `backButton.onclick`, up to the first turn of a drill if there is one |
| `splitStep` | a turn of the loop of `splitTile` |
| `splitEnd` | the end of the loop: `drawTile` after the first pass, the rest of `getTile` and `drawTile` after a drill |

`drawTile` and `draw` are what the handlers share: look the tile up (`Wrapped`, `Closest`),
drill (`Drills`) or not (`Serves`), then draw it, or move the page up when there is none.

`TilePicture` has no code in it but `getTile` in one step, for what would be answered:
`Expected` says what a tile should show without any clipping, as the points of the plane that
a feature covers, also moved by a world to either side. The clipping of the code is
compared with that, and its importances with the algorithm's definition by recursion
(`DouglasPeucker`).

### Dgrid and QuakePage
A row is known by its number (a grid without a store numbers its rows itself), and
`Gone` stands for an element that has left it. `sel` holds three of the selection's
traces: the selection object, the rows with the class `dgrid-selected`, and the rows
a listener of both events believes to be selected. `_select`, `select` and
`clearSelection` take a `sel` and give the next one, as handlers call them in
sequence. `MouseDown` and `MouseUp` are `_handleSelect`. Sorting is by rank
(`Sorted`): the element in place `n` has `n - 1` before it. Left out: stores, and with
them `selectAll`; touch and keys; sub-rows. `QuakePage` has two hosts: the page, with
`Input`, `LayerReady`, `Displayed` and `QueryFails`, and any other that calls the library
in any order (`LibraryCall`); both have a `User`.

### AdminPage
A run of the router is a number. `Route`, `MapAnswered`, `SessionAnswered` and
`LayersAnswered` are the tasks of a run, each up to the next request it waits for;
`ConnectionSettled` is the part of `Messages` that goes on by itself. `layers` and
`maps` are module variables that outlive the sections. `Identifier` is what the value of
an option and an element of `layers` are compared by: it is the id of the session the
layer came from, so layers may share it, and `LoadLayer` takes the first in the list
(`Finds`). It puts the layer on the first map there has been, on the page
(`mapShown`) or not. A job whose file is being
read keeps its own form (`reading`), as the closure in the code does, also once
that form is off the page. `fresh` is a history variable.

## 3. Runs

| run | shows |
| --- | --- |
| `pyramid_sequential` | three requests one after another, on a new or an uploaded layer, implement `TileServer`: each gets its own tile whichever tiles earlier ones made and stripped; one into a filled square fails, and may lose the tiles beside it; one for a tile with a line fails and spoils nothing; every step lowers the bound on a request's steps |
| `pyramid_concurrent` | two requests in every interleaving, some for a tile with a line: only right tiles are served and kept, kept tiles stay, both requests end |
| `cache_map` | up to zoom 13 the caches implement `TileMap`, no call throws |
| `messaging_queue` | two processes, expiring locks, failing completions, a crash: handled at most once, implements `CommandDelivery` |
| `messaging_topic` | a note and a malformed message on a shared subscription: at most once per delivery, only to those registered; both settled in the end |
| `jobs_sessions` | jobs of different sessions, a crash and a browser: a listed layer has features and a root, and shows its own file |
| `jobs_files` | three posts write one file while two commands read it: only whole, readable uploads become features, jobs end unless their text has no comma |
| `jobs_lost` | (violation) two finished jobs, one layer listed |
| `hub_connection` | two sessions over every transport, with redirects, fallbacks, failing requests, malformed messages, timeouts and `stop` at any moment, with an invocation, a stream and an `EventSource` left open until it ends by itself: implements `Connection`, calls and timers are accounted for, `stop` ends the session |
| `geojson` | five files dropped and looked at down to the deepest zoom: a tile shows what lies in it, no tile is lost by splitting, each feature is kept in one place of the index, simplification keeps what it should, the picture is that of the page's place, each turn of `splitTile` brings its end nearer |
| `quake_grid` | selection object, class, events, popup, sort and arrow agree, on the earthquakes page and on a page that calls the library in any order |
| `admin_page` | two overlapping runs of the router, a refresh and a job: an offered layer, or the first of its identifier, can be loaded, jobs are posted as submitted, the page is completed |

The violation quotes, in `PROJECT.json`, the line of the repository that says
otherwise. Some of the other properties hold only in part, and are checked where
they hold. In these instances TLC finds them violated:

* `SourceIsNotNeeded` with two concurrent requests (`InFlight = 2`, `Target <- MCNestedTarget`):
  a tile is left with neither `Source` nor children.
* `SourceIsNotNeeded` without its last disjunct, `CutShort`, as `pyramid_sequential` is
  set up: the exception on a filled square below zoom 1 comes after the square's parent
  has lost its `Source` and before the tiles beside the square are made.
* `ImplementsTileMap` at zoom 14 (`MCDeepTile`): two tiles share an id.
* `LayerShowsItsFile` with two files in one session (`MCOneSession`): features are
  kept by session, and the first layer shows the second file.
* `MalformedIsNotCompleted` on a queue, with a malformed message that arrives after
  the process has sent another: serialising that one made the reader lenient.
* `PictureIsWhereTheViewIs` without its exception for a page above the top, with
  `MaxDrops = 3`: a load that finds no tile moves the page up and leaves the button as it
  is. When the page gets to the top that way and the next file is drawn there, `back`
  leaves the world and the picture stays. The second clause, with two files or an empty one.
* `SortIsShown` with `HasNeutralSort = TRUE` (an option of the library that the page
  does not set): the third click leaves its node behind, and a later sort puts the
  arrow there.

### Bounds
* `InFlight` is how many tile requests run at once: 1 in `pyramid_sequential`, 2
  in `pyramid_concurrent`. A race over one tile needs two
  requests; `MaxZoom = 3` gives a filled square a parent below the root and a tile
  below the square, which is what it takes for the exception to strand the tiles beside
  it (at `MaxZoom = 2` that cannot happen: the root gets its `Source` back with every
  request); one square is an inner tile, the other at the base, where it is never
  sliced. `MaxZoom = 1` is enough to interleave creation, assignment and drilling. Three sequential requests are enough for a first to
  make a tile, a second to strip it and a third to need it. Targets include
  inner, base, empty and too deep tiles, and one of the three features is a line, in an
  inner target but not in the base target below it: the first fails in the transform after
  it was made, which may be before or after the second is asked for. In
  `pyramid_concurrent` there is no filled square. The theorems hold without bounds.
* `cache_map` uses addresses whose ids come closest (corners of a zoom, the same
  column and row at two zooms), two threads and two values; zoom 13 is the
  deepest where all ids fit in 27 bits.
* `Slot` and `MaxConcurrentCalls` are 1 or 2 (20 in the code): two calls on one
  message need two slots, in one process or in two. `MaxDelivery` is 2 or 3 (the
  broker's default is 10): a third delivery repeats the second. `MaxCrash` is at
  most 1: a crash only ever removes a process's memory, and a second one meets
  the states the first one leaves. In `messaging_queue` the
  tile server has two handlers of one type, so that one can be registered while the other
  runs; in `messaging_topic` a process has one of a type at most
  (`MessageHub` registers one with every instance of it that SignalR makes, of which the
  models have one).
* The runs of `LayerJobs` have two or three posts: one whose file is overwritten,
  one that overwrites it, one whose text has no comma (in `jobs_files`) or that
  comes without a file from a session that is no GUID (in `jobs_sessions`).
* `hub_connection`: `MaxStarts = 2`, since what a session leaves behind can only harm
  the next; `MaxStops = 2` calls of `stop` under way, for one that overtakes another;
  `MaxRedirects = 2` (100 in the code), for one that is followed and one too many. The
  offers are a socket with a fallback to polls, and events alone; the frames each
  message alone and the pairs whose order matters. After `MaxReports` = 2 reports an
  `EventSource` left open delivers no more; its own end is one report more.
* `geojson`: a world of 32 units and tiles of 4 pixels at zoom 3, indexed down to zoom
  1, so that two zooms are drilled; `MaxMoves = 4` reaches the deepest zoom and goes
  back; two drops, so that a file replaces another while the page is deep in it. With a third
  drop, of three of the files, the page can get above the top of the world with a
  picture: the properties, and the invariant of the proofs, were checked on that instance
  too. The files have points at the date line, lines and polygons across it, a zigzag
  over many tiles, land with a bay that fills whole tiles, a hole, no features, and no
  JSON. `MCProbe` has a tile at the date line and one in the land.
* `quake_grid`: three quakes, two of one magnitude, so that a sort moves rows and has
  ties; three rows give a range an inside; two queries may be answered in either
  order.
* `admin_page`: two runs, since a run disturbs the one before; one refresh and one
  job, since each only meets the runs; three layers, two of one session, in lists of one
  and of three, so that a refresh adds a layer that cannot be told from one before it. There
  are two files but one type and one session, so that of what a job was submitted with
  only the file's name is told apart.

### Fairness
Only steps the code takes by itself are fair. In `TilePyramid` each request that
has begun: it runs on a pool thread, and no step of it waits for another. In
`ObserverClient` the calls under way (handlers return: that is what
`EverySentMessageIsSettled` assumes of them), lock expiry and the delivery of
ready messages, which Service Bus guarantees. In `LayerJobs` a `Post` and a
handler that have begun, a call on the network ending well or badly. Nobody has
to make a request, start a process, register a handler or send a command, and
`Crash` and `Close` are never fair. Parsing a text without a comma has no step
at all: that job stays, and `JobsEnd` excepts it by name.

In `HubConnection` continuations run, requests under way are answered or fail, a
transport being opened opens or fails (WF), and a link that was told to close does
(SF: its event is queued, and calls of `stop` in between, whose continuations come
first, only delay it). An open link need not end, and the server need not answer.
In `AdminPage` requests and the start of a connection end, well or badly. Nothing is
assumed of a user. `TileViewer` and `QuakePage` state no liveness and no fairness.

### Deadlock
It is checked for the pyramid (which has an explicit `Terminating`), the caches,
the hub connection and the grid. A queue with every message settled, every job
done and the crashes used up, every drop and move made, or every run of the router
ended is where the other runs end, so they do not check it.

## 4. What is proved

TLAPS checks these for every value of the constants that satisfies the named
assumptions of the module.

* **`TilePyramidProofs`**: `TypeCorrect`, `TilesServedAreRight`,
  `TransformedTilesAreStable`, from `PyramidAssumption` (a tile has the features of the
  tiles inside it, a filled square has one; special values are distinct). `ServedTilesAreRight` is
  not inductive: an answer comes from an object, whose features come from a
  frame, which comes from a `Source` that others assign. `IInv` adds what each
  of these may hold: an object's features are its tile's content; a `Source` or
  a frame is the content *or nothing*, and a frame of a tile not yet stored is
  never nothing in place of something, because the empty `Source` a request can
  catch belongs to a tile that is already stored. One lemma per action carries it over.
  `RequestsMakeHeadway`, also for any number of requests at once, is the part of
  termination that needs no fairness: each step of a request lowers `StepsLeft`. Its
  invariant is `WayOK`: one frame of a stack at most lies on the way to the target
  (`OneChildOnTheWay`), so the four frames of a slice weigh less than the one they
  replace (`SlicedIsLess`).
  Under `InFlight = 1`, for any depth, layer, targets and number of requests:
  `DroppedSourceIsNotNeeded` and `ServesLikeTileServer`. With two requests at a
  time the first is false (section 3), and a request may then be answered with nothing
  in place of a tile. `SInv` follows a tile that has lost its `Source`: its children
  are stored or on the stack of the request that sliced it (`StrippedProvided`), or a
  failed request has left them behind; frames on a stack hang from the path to the top
  one, and what is above a stored tile is stored (`StackNested`, `StoredPlaced`). So
  the climb cannot end at an ancestor without `Source` that has features
  (`NothingFromStripped`), and a drill reaches its target (`DrillsToTarget`). `ServesLikeTileServer`
  is the safety part of `ImplementsTileServer`: `Init` maps to `Server!Init`
  and every step to a step of `TileServer` or a stutter. `TransformEnds` is the last step of
  a request: the tile it has is complete and not under a filled square, so its answer is
  the expected one, an exception if a feature of it cannot be transformed.
* **`LayerTileCacheProofs`**: `TypeCorrect` (which `cache_map` does not check again), `CachesAreFound`, and
  `CachesAreATileMap` under `Fits` (the square of a zoom's side fits in the
  word), which is what fails at zoom 14. The core is `IdsDiffer`: by
  `RowAndColumn`, row and column can be read off `n * y + x`.
* **`ObserverClientProofs`**: for a queue (`ReceiveOnce`), `TypeCorrect`,
  `QueueHandlesAtMostOnce` and `QueueImplementsDelivery`. `IInv` says that a call
  past `CompleteAsync` is the only one there will ever be for its message: the
  message is completed under that call's lock token, tokens of calls on a
  message differ, and the handlers run so far are the ones the enumerator has
  passed, each registered once.
  For queues and topics alike, `DeliveryTypeCorrect` and `HandledOnce`. The invariant
  of the queue does not hold of a topic, whose messages
  are never completed: several deliveries of one message may be under way, in one
  process or in two. `DInv` counts instead, for each handler, the deliveries of a
  message that are *spent* on it (`Spent`): no call of them can still come to it. A
  call that runs a handler spends its delivery, and deliveries of a message have
  different lock tokens (`Distinct`), so `ran[m][h]` is at most the number spent.
* **`LayerJobsProofs`**: `TypeCorrect`, `LayersAreReady`, `WholeUploads` and
  `LayersShowTheirFiles`, from `JobsAssumption`. `IInv` follows a text from the
  post that wrote it: bytes of a post are in the file that post named
  (`FilesOK`), what a job has read was in the file of its own name, and only a
  readable text gets past `Parse`. It says
  what a job has made by the time it gets where it is (a root from
  `InitializeTile` on, features from `StoreFeatures` on), and that elements of
  the list beyond its size are ready too, since another job's `Grow` may make
  them visible. That the list never outgrows the number of posts although `Grow`
  may write a stale size is `SizeOK`: the size is at most the number of jobs past
  `Grow`, and so is every size a job has read.
  `LayersShowTheirFiles` is under `OneFileASession`: posts of one session name one
  file. Features are kept by session and tiles by name; the model in the list ties
  the two (`ItemsNameTheirFile`), and one post has both, so that the session's
  features are the named file's.
* **`AdminPageProofs`**: `TypeCorrect`, `OfferedLayersLoad`, `JobsAsSubmitted`, from
  `AdminAssumption`, which says nothing of identifiers: any layers may share one. Options
  are those of the list that is looked in, or none (`OptionsAreLayers`), and of the layers
  with one identifier there is a first (`FirstExists`, by `WFMin`). Options need a run that
  got past its map, and each run adds at most one map (`MapsCounted`), so `maps` stays in its
  bound, and while there is one run its map is the only one (`OneRunOneMap`) and on the page
  (`FirstMapShown`); an untouched form still
  says what its job was submitted with (`FormsSayTheJob`). The type invariant is an
  invariant of the proof only, no run lists it.
* **`QuakePageProofs`**: `TypeCorrect`, `SelectionAgrees`, `PopupIsRight` and, without
  neutral sort, `SortShown`, from `DgridAssumption` and `QuakeAssumption`. `Agree` says that
  the traces of a selection agree; each operator that takes a selection keeps it, on
  rows that are there, and so do the handlers built from them. On the page the mode
  stays `"single"` (`PageMode`). For the order of the rows, `Before` is shown to be a
  total order and rank in it a bijection onto `1..n`, so that `Sorted` is a
  permutation and puts the values in order.
* **`HubConnectionProofs`**: `TypeCorrect`, `PendingCallsSettle`, `TimerIsKnown`,
  `ConnectedIsLinked`, `EndsAreReportedOnce`, `StreamsEnd` and the refinement
  `ConnectionIsImplemented`, from `HttpAssumption` and `HubAssumption`, for any offers,
  frames, calls and bounds. `ConnInv` ties what `start` waits for, the state and the
  reports to the link, and has a negotiation under way only below the bound on redirects;
  `StepReports` says how a step may come to tell the page of an end; `HubType` has no timer forgotten; `CallInv` ties callbacks,
  POSTs and a stream's ends to what its call has come to.
* **`TileViewerProofs`**: `FeaturesKeptOnce`, `PlacesKeepTheirFeatures`, `PictureIsRight`,
  `NothingTooDeep` and `SplittingEnds`, from
  the assumptions of `GeoJsonVt` and `TileViewer` (options are numbers of the right kind,
  `Null` is no array, address or file, and `wrap` of a file that can be read is an array,
  as the code returns one), for any files, options, zooms, drops and clicks. The features
  may be anything: the proofs never look into them.

  `FeaturesAreKeptOnce` speaks of the time between two events, and is false in the middle
  of `splitTile`, where a tile has lost its features and its quarters are not there yet.
  `IInv` says of each turn: the index is a tree that keeps features at its leaves only
  (`Tree`, `Hangs`); where features were dropped the four quarters are there *or wait on
  the stack*, or there was nothing to show (`Held`); what is on the stack is a leaf to
  be, each place once, and if a tile is there already it is the one that the drill begins
  at, with the features it has (`ItemOK`, `StackOK`). A turn puts the tile on top of the stack
  into the index (`PutDone`) and is one of three (`TurnIs`); `TurnKeeps` has a step for each.
  `PlacesKeepTheirFeatures` follows: the last tile there on the way down to a place
  cannot have dropped its features, since the next one down is one of its quarters.

  For the picture: what can be shown once can be shown ever after (`Shows`: the tile itself
  or a whole square above it, and squares are never split), so the button always finds
  the tile above one that was shown (`ShownAbove`, `BackFinds`), a click that finds nothing
  comes back to where it was, and only an index without tiles lets the page leave the
  world (`Outside`, `IsPlace`). A file being read is never the one shown (`ReadsOK`), so a
  load leaves no picture of its own file behind.

  How deep it goes: the guards only test that a zoom *is* the last one, so `DepthInv` says,
  besides `IInv`, that the page, the tiles and what waits on the stack are never past it: a
  drill stops at the zoom of its target, which is the page's own, and no quarter is pushed
  at the zoom where a call stops (`TurnInDepth`).
  From both follows the measure of the loop: `Ahead`, the places below what is on the
  stack, is a finite set (`PlacesAreFinite`), quarters add nothing to it that was not
  there (`BelowQuarter`), and the tile of a turn leaves it (`LessAhead`), also one that a
  drill makes a second time, since nothing else on the stack is above it: a tile above
  is one that has lost its features, and those on the stack have theirs (`Hangs`,
  `ItemOK`). That a turn is then taken is fairness, and `PTL` cannot use a measure: what
  is proved is the part of termination that is safety.

  Addresses need powers of two and induction on zooms. The induction theorems of the
  library are out of the provers' reach, as they take a predicate as a parameter, but
  `WFMin` takes a set: from it and `NatLessThanWellFounded` the module proves `LeastNumber`
  and `Induction` over a *set* of numbers, then that the recursive function `z2` exists
  and doubles (`Powers`), and that what is above a tile above `v` is above `v` (`AboveAbove`).

## 5. What is only model-checked

Liveness under fairness (`EveryRequestIsAnswered`, `EverySentMessageIsSettled`,
`JobsEnd`, `StopEndsTheSession`, `PageIsCompleted`) and the liveness part of `TileServer`,
since fairness and ENABLED are out of the prover's reach. Three invariants of `geojson`:
`DrawnTileIsRight`, `IndexServesEveryTile` and `KeepsDouglasPeucker` compare what folds and
recursion over lines, rings and stacks compute from the data (`clip`, `simplify`,
`getTile`) with a definition of the picture, and would need induction over that data.
What the proofs say of the same code is that no features are lost on the way to any
tile, whatever clipping makes of them. Every other safety property that a run checks is
stated by a theorem.

## 6. Known limits of the code the models take as they are

* A request that must slice a tile with one filled square fails, and tiles beside the
  square may never be made after that (`Expected`, `CutShort` in `TilePyramid`).
* A tile with a line, or with a feature of several geometries, can never be had, although
  the pipeline takes such files: every request for it makes its raw tile, or finds it, and
  fails in the transform (`CanProcess`).
* A job that reads a text without a comma never ends (`JobsEnd`): the post's own, the
  zeros of a file not written yet, or what such a post leaves of another's.
* The pump starts before handlers are registered, so a command may be taken and
  given to nobody (`CommandDelivery` promises at most once).
* `CreateDirectoryAndFile` reports success whatever the file share answered, so
  a command may be sent without its file (`CreateFile`, `PutRange`).
* When the server refuses the first long poll, `connect` resolves all the same and
  the connection stays `Connected` without a link that will ever end (`link = "refused"`).
* A message that cannot be handled ends the session over an `EventSource` but leaves
  the source open, which goes on delivering (`zombie`). The page is told of an end again with
  each further message that cannot be handled, and when the source ends by itself
  (`EventSourceFails`); `ReportedOnce` says so.
* A layer's identifier is that of its session (`ProjectedDataObserver.cs:92`), so of the
  layers of one session the page always loads the first in its list (`Finds`).
* The page loads a layer on the first map there has been. After a second run of the router
  that map is no longer on the page (`LoadLayer`, `OfferedLayersCanBeLoaded`).
* `stop` during a fallback: the loop over the transports sets the state back to
  `Connecting`, so that for a while a stopped connection is `Connected`
  (`ConnectedHasTransport` says what holds then).
* The earthquakes page shows the answer that comes last, whichever year it is of.
* A file dropped while another is shown is opened at the other's place (`onload`). If
  nothing is found there the page moves up without drawing, and the button is not hidden at
  the top: `back` then leads above the top of the world, and no click leads back, since it
  asks for a tile that is above the top still, and is sent up again
  (`PictureIsWhereTheViewIs` excepts it).

## 7. What is left

The system's core (pyramid, messaging, caches, jobs) and the JavaScript of its pages
(hub connection, tile index, grid, admin page) are modelled, and proved about as
section 4 says. What would come next:

1. dgrid's `Keyboard.js`: the focused row against the rows there are.
2. `ClippedSquare` and a `Clipper` over small integer coordinates: slices along
   an axis against the set of segments inside the band.
3. `GeometricSimplification`: the stack of the Douglas-Peucker loop against its
   definition by recursion.
4. `Pipes`: `APipe`'s queue of pipes, `AParallelPipe`'s throttle and its wait.
5. `CommandEncoding`: `CommandData` and `ParameterData` decoded against encoded
   (zigzag, command counts) over bounded inputs.
6. The tile server's message list, keyed by the second.
7. Bounds like `StepsLeft` for a call of `Process` and for the router's runs: the
   part of `EverySentMessageIsSettled` and `PageIsCompleted` that needs no fairness.
8. That `clip` keeps the features whose boxes meet the band: the first step from the
   proofs of `TileViewerProofs` towards `DrawnTileIsRight`.
