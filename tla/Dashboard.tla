------------------------------ MODULE Dashboard ------------------------------
(***************************************************************************)
(* A dashboard over the visualisation engine: tasks that add, remove,      *)
(* update, refresh and render visualisations while each other waits for    *)
(* data, and the loop that refreshes by itself.  Between two suspensions a *)
(* step is atomic.  The ids the engine makes of a type and the time are    *)
(* taken to be distinct; one that nothing refers to is used again.         *)
(***************************************************************************)
EXTENDS Naturals, FiniteSets, Sequences, SequencesExt

CONSTANTS
    Viewers,         \* tasks that use the dashboard
    Loop,            \* the task that refreshes
    Names, Sources,  \* ids of the dashboard's visualisations, and sources of data
    Ids,             \* ids of the engine's visualisations
    Null,
    MaxLaidOut       \* bound: how many visualisations are laid out

ASSUME DashboardAssumption ==
    /\ Loop \notin Viewers /\ Null \notin Names \cup Sources \cup Ids
    /\ MaxLaidOut \in Nat

VARIABLES
    entries,     \* the dashboard's visualisations, as its dict orders them
    active,      \* the engine's: their source, and the source of their data
    viewer,      \* where each task is
    auto,        \* auto_refresh
    axes,        \* the names that have axes in a figure
    figure,      \* whether the dashboard has a figure
    torn         \* history: those whose last update failed, or overlapped another one

dashVars == <<entries, active, viewer, auto, axes, figure, torn>>
dataVars == <<entries, active, torn>>
figureVars == <<figure, axes>>

Tasks == Viewers \cup {Loop}

\* A task: its operation, whether that is part of a refresh, and of a walk over the dict the last
\* name it came to, the size the dict had, and whether keys came or went meanwhile.
At(op) == [op |-> op, within |-> FALSE, id |-> Null, name |-> Null, source |-> Null,
           size |-> 0, disturbed |-> FALSE]

DashboardInit ==
    /\ entries = <<>> /\ active = [i \in {} |-> Null]
    /\ viewer = [t \in Tasks |-> At(IF t = Loop THEN "off" ELSE "idle")]
    /\ auto = FALSE
    /\ figure = FALSE /\ axes = {}
    /\ torn = {}

Listed == {entries[i].name : i \in DOMAIN entries}
ListedIds == {entries[i].id : i \in DOMAIN entries}
Place(n) == CHOOSE i \in DOMAIN entries : entries[i].name = n
Entry(n) == entries[Place(n)]

Finished(t) == At(IF t = Loop THEN "sleep" ELSE "idle")

\* A refresh goes on after an update it has asked for.
Updated(t) ==
    IF viewer[t].within THEN [viewer[t] EXCEPT !.op = "refresh", !.id = Null, !.source = Null]
    ELSE Finished(t)

Walks(v) == v.within \/ v.op = "render"
Disturbed(v) == [t \in Tasks |-> IF Walks(v[t]) THEN [v[t] EXCEPT !.disturbed = TRUE] ELSE v[t]]

-----------------------------------------------------------------------------
(* Adding and removing *)

AddBegins(t, n, s) ==
    /\ viewer[t] = At("idle")
    /\ viewer' = [viewer EXCEPT ![t] = [At("add") EXCEPT !.name = n, !.source = s]]
    /\ UNCHANGED <<dataVars, auto, figureVars>>

\* Mutant of Listing: the engine's visualisation that is listed stays the one of before.
ListingKeepsId(n, id, s) ==
    IF n \in Listed
    THEN [i \in DOMAIN entries |->
            IF entries[i].name = n THEN [entries[i] EXCEPT !.source = s] ELSE entries[i]]
    ELSE Append(entries, [name |-> n, id |-> id, source |-> s])

\* A name that is there keeps its place in the dict, and the engine what the name stood for.
Listing(n, id, s) ==
    LET e == [name |-> n, id |-> id, source |-> s] IN
    IF n \in Listed THEN [i \in DOMAIN entries |-> IF entries[i].name = n THEN e ELSE entries[i]]
    ELSE Append(entries, e)

Free == Ids \ (DOMAIN active \cup {viewer[t].id : t \in Tasks})

AddEnds(t) ==
    LET v == viewer[t]
        w == [viewer EXCEPT ![t] = At("idle")]
    IN
    /\ v.op = "add"
    /\ \E id \in Free :
        /\ active' = [i \in DOMAIN active \cup {id} |->
               IF i = id THEN [source |-> v.source, data |-> v.source] ELSE active[i]]
        /\ entries' = Listing(v.name, id, v.source)
        /\ torn' = torn \ {id}
    /\ viewer' = IF v.name \in Listed THEN w ELSE Disturbed(w)
    /\ UNCHANGED <<auto, figureVars>>

AddFails(t) ==
    /\ viewer[t].op = "add"
    /\ viewer' = [viewer EXCEPT ![t] = At("idle")]
    /\ UNCHANGED <<dataVars, auto, figureVars>>

EngineKeeps(is) == active' = [i \in DOMAIN active \cap is |-> active[i]]

\* The engine lets go of the visualisation, then the dashboard of its entry and its axes.
RemoveEntry(t, n) ==
    /\ viewer[t] = At("idle") /\ n \in Listed
    /\ EngineKeeps(DOMAIN active \ {Entry(n).id})
    /\ entries' = RemoveAt(entries, Place(n))
    /\ axes' = axes \ {n}
    /\ viewer' = Disturbed(viewer)
    /\ torn' = torn \ {Entry(n).id}
    /\ UNCHANGED <<auto, figure>>

-----------------------------------------------------------------------------
(* Updating *)

Updating(id) == {t \in Tasks : viewer[t].op \in {"update", "told"} /\ viewer[t].id = id}

\* The engine notes the source before the data are loaded.
Updates(t, e, s, v) ==
    /\ active' = [active EXCEPT ![e.id].source = s]
    /\ viewer' = [viewer EXCEPT ![t] =
           [v EXCEPT !.op = "update", !.id = e.id, !.source = s, !.name = IF v.within THEN e.name ELSE Null]]
    /\ torn' = IF Updating(e.id) = {} THEN torn \ {e.id} ELSE torn \cup {e.id}

UpdateBegins(t, n, s) ==
    /\ viewer[t] = At("idle") /\ n \in Listed
    /\ Updates(t, Entry(n), s, viewer[t])
    /\ UNCHANGED <<entries, auto, figureVars>>

\* The data are there; callbacks of the engine may suspend before the dashboard goes on.
DataLoaded(t) ==
    LET v == viewer[t] IN
    /\ v.op = "update"
    /\ active' = [i \in DOMAIN active |->
           IF i = v.id THEN [active[i] EXCEPT !.data = v.source] ELSE active[i]]
    /\ viewer' = [viewer EXCEPT ![t].op = "told"]
    /\ UNCHANGED <<entries, torn, auto, figureVars>>

\* The source goes into the entry the task began with, which may have left the dict.
UpdateEnds(t) ==
    LET v == viewer[t] IN
    /\ v.op = "told"
    /\ entries' = [i \in DOMAIN entries |->
           IF entries[i].id = v.id THEN [entries[i] EXCEPT !.source = v.source] ELSE entries[i]]
    /\ viewer' = [viewer EXCEPT ![t] = Updated(t)]
    /\ UNCHANGED <<active, torn, auto, figureVars>>

Tears(id) == torn' = torn \cup ({id} \cap DOMAIN active)

\* The data cannot be loaded: the old ones stay, with the new source.
UpdateFails(t) ==
    /\ viewer[t].op = "update"
    /\ Tears(viewer[t].id)
    /\ viewer' = [viewer EXCEPT ![t] = Updated(t)]
    /\ UNCHANGED <<entries, active, auto, figureVars>>

-----------------------------------------------------------------------------
(* Walks over the dict: refreshing and rendering *)

\* The entries a walk has before it, which are unknown when keys came and went: a dict that was
\* packed makes it skip some.
Later(v) ==
    {j \in DOMAIN entries :
        v.disturbed \/ \A i \in DOMAIN entries : entries[i].name = v.name => i < j}

NextEntries(v) == {entries[j] : j \in {j \in Later(v) : v.disturbed \/ \A k \in Later(v) : j <= k}}

\* A dict of another size than it began with ends the walk with an error.
Resized(v) == Len(entries) # v.size
MayEnd(v) == v.disturbed \/ Later(v) = {}

Walking(op) == [At(op) EXCEPT !.within = (op = "refresh"), !.size = Len(entries)]

RefreshBegins(t) ==
    /\ viewer[t] = At("idle") \/ (viewer[t] = At("sleep") /\ auto)
    /\ viewer' = [viewer EXCEPT ![t] = Walking("refresh")]
    /\ UNCHANGED <<dataVars, auto, figureVars>>

RefreshNext(t) ==
    LET v == viewer[t] IN
    /\ v.op = "refresh" /\ ~Resized(v)
    /\ \E e \in NextEntries(v) : Updates(t, e, e.source, v)
    /\ UNCHANGED <<entries, auto, figureVars>>

\* A new figure takes the place of the dashboard's.
NewFigure(t) ==
    /\ figure' = TRUE
    /\ viewer' = [viewer EXCEPT ![t] = IF entries = <<>> THEN Finished(t) ELSE Walking("render")]

\* The walk is over: the dashboard is drawn again, if it was before.
RefreshEnds(t) ==
    LET v == viewer[t] IN
    /\ v.op = "refresh" /\ ~Resized(v) /\ MayEnd(v)
    /\ \/ figure /\ NewFigure(t)
       \/ ~figure /\ viewer' = [viewer EXCEPT ![t] = Finished(t)] /\ UNCHANGED figure
    /\ UNCHANGED <<dataVars, auto, axes>>

RefreshFails(t) ==
    /\ viewer[t].op = "refresh" /\ Resized(viewer[t])
    /\ viewer' = [viewer EXCEPT ![t] = Finished(t)]
    /\ UNCHANGED <<dataVars, auto, figureVars>>

RenderBegins(t) ==
    /\ viewer[t] = At("idle")
    /\ NewFigure(t)
    /\ UNCHANGED <<dataVars, auto, axes>>

\* Axes are added to the figure that is the dashboard's by now, and the engine draws in them.
RenderNext(t) ==
    LET v == viewer[t] IN
    /\ v.op = "render" /\ ~Resized(v)
    /\ \E e \in NextEntries(v) :
        /\ axes' = axes \cup {e.name}
        /\ viewer' = [viewer EXCEPT ![t].name = e.name]
    /\ UNCHANGED <<dataVars, auto, figure>>

\* At the end of the dict, or with an error.
RenderEnds(t) ==
    LET v == viewer[t] IN
    /\ v.op = "render" /\ (Resized(v) \/ MayEnd(v))
    /\ viewer' = [viewer EXCEPT ![t] = Finished(t)]
    /\ UNCHANGED <<dataVars, auto, figureVars>>

-----------------------------------------------------------------------------
(* The loop, and shutting down *)

StartAutoRefresh(t) ==
    /\ viewer[t] = At("idle") /\ viewer[Loop].op = "off"
    /\ viewer' = [viewer EXCEPT ![Loop] = At("sleep")]
    /\ auto' = TRUE
    /\ UNCHANGED <<dataVars, figureVars>>

\* stop_auto_refresh, by itself or at the beginning of shutdown(), cancels the loop and waits for
\* its end.
StopBegins(t, shutdown) ==
    /\ viewer[t] = At("idle")
    /\ auto' = FALSE
    /\ viewer' = [viewer EXCEPT ![t] =
           [At(IF viewer[Loop].op = "off" THEN "stopped" ELSE "stop") EXCEPT !.disturbed = shutdown]]
    /\ UNCHANGED <<dataVars, figureVars>>

\* Those who wait for the loop go on.
Released == [t \in Tasks |->
    IF t = Loop THEN At("off")
    ELSE IF viewer[t].op = "stop" THEN [viewer[t] EXCEPT !.op = "stopped"] ELSE viewer[t]]

\* The loop takes its cancelling in the middle of whatever it does, also of loading data, which
\* leaves the new source with the old ones.
LoopEnds ==
    /\ viewer[Loop].op # "off" /\ ~auto
    /\ viewer' = Released
    /\ Tears(viewer[Loop].id)
    /\ UNCHANGED <<entries, active, auto, figureVars>>

\* shutdown() removes what is listed, and the engine lets go of everything.
StopEnds(t) ==
    /\ viewer[t].op = "stopped"
    /\ \/ ~viewer[t].disturbed
          /\ viewer' = [viewer EXCEPT ![t] = At("idle")] /\ UNCHANGED <<dataVars, axes>>
       \/ viewer[t].disturbed
          /\ entries' = <<>> /\ EngineKeeps({}) /\ torn' = {}
          /\ axes' = axes \ Listed
          /\ viewer' = Disturbed([viewer EXCEPT ![t] = At("idle")])
    /\ UNCHANGED <<auto, figure>>

TaskGoesOn(t) ==
    \/ AddEnds(t) \/ AddFails(t) \/ DataLoaded(t) \/ UpdateEnds(t) \/ UpdateFails(t)
    \/ RefreshNext(t) \/ RefreshEnds(t) \/ RefreshFails(t) \/ RenderNext(t) \/ RenderEnds(t)
    \/ StopEnds(t)

DashboardNext ==
    \/ \E t \in Viewers :
        \/ \E n \in Names, s \in Sources : AddBegins(t, n, s) \/ UpdateBegins(t, n, s)
        \/ \E n \in Names : RemoveEntry(t, n)
        \/ RenderBegins(t) \/ StartAutoRefresh(t)
        \/ \E shutdown \in BOOLEAN : StopBegins(t, shutdown)
    \/ \E t \in Tasks : RefreshBegins(t) \/ TaskGoesOn(t)
    \/ LoopEnds

DashboardSpec == DashboardInit /\ [][DashboardNext]_dashVars

\* Data come or fail, callbacks return, and a task that can go on does; a loop that was cancelled
\* is told so.
DashboardFairness == (\A t \in Tasks : WF_dashVars(TaskGoesOn(t))) /\ WF_dashVars(LoopEnds)

-----------------------------------------------------------------------------
(* The layout of a figure: visualisations are set in their order, row after row.  A custom layout  *)
(* is what its configuration says.                                                                 *)

RowsFor(n, wide) == (n + wide - 1) \div wide

\* int(n ** 0.5)
SquareRoot(n) == CHOOSE r \in 0..n : r * r <= n /\ n < (r + 1) * (r + 1)

\* The grid of n visualisations when its columns are not given, as <<rows, columns>>.
AutoGrid(n) ==
    CASE n = 1 -> <<1, 1>>
      [] n = 2 -> <<1, 2>>
      [] n \in 3..4 -> <<2, 2>>
      [] n \in 5..6 -> <<2, 3>>
      [] n \in 7..9 -> <<3, 3>>
      [] OTHER -> <<RowsFor(n, SquareRoot(n) + 1), SquareRoot(n) + 1>>

GivenGrid(n, wide) == <<RowsFor(n, wide), wide>>

FlowGrid(n, items) == <<RowsFor(n, items), IF items <= n THEN items ELSE n>>

\* The row and the column of each, from the number that are set in a row.
Places(n, perRow) == [i \in 0..(n - 1) |-> <<i \div perRow, i % perRow>>]

-----------------------------------------------------------------------------
(* Properties *)

\* Every entry of the dashboard has a visualisation of its own in the engine, however adding,
\* removing, and shutting down overlap.
EntriesAreActive ==
    /\ ListedIds \subseteq DOMAIN active
    /\ Cardinality(ListedIds) = Len(entries) /\ Cardinality(Listed) = Len(entries)

\* What the dashboard tells as a visualisation's source, the engine's source and the data shown
\* are the same when nobody updates it, unless its last update failed or overlapped another
\* one: the next update by itself makes them agree again.
ShownIsTold ==
    \A i \in DOMAIN entries :
        LET e == entries[i] IN
        Updating(e.id) = {} /\ e.id \notin torn
            => active[e.id] = [source |-> e.source, data |-> e.source]

\* Axes are kept of the dashboard's entries only, also when one is removed, or added again, while a
\* figure is being drawn.
AxesAreListed == axes \subseteq Listed

Fits(places, grid) ==
    /\ IsInjective(places)
    /\ \A i \in DOMAIN places : places[i][1] < grid[1] /\ places[i][2] < grid[2]
    /\ \A r \in 0..(grid[1] - 1) : \E i \in DOMAIN places : places[i][1] = r

\* No column is left empty.
NoGap(places, grid) ==
    \A c \in 0..(grid[2] - 1) : \E i \in DOMAIN places : places[i][2] = c

\* However many visualisations a dashboard has, each gets a cell of its own within the grid, and no
\* row is left empty, in a flow no column either; a grid whose columns are not given is no higher
\* than wide, and at most one column wider than high.
EveryoneHasACell ==
    \A n \in 1..MaxLaidOut :
        /\ Fits(Places(n, AutoGrid(n)[2]), AutoGrid(n))
        /\ AutoGrid(n)[1] <= AutoGrid(n)[2] /\ AutoGrid(n)[2] <= AutoGrid(n)[1] + 1
        /\ \A c \in 1..MaxLaidOut :
            /\ Fits(Places(n, c), GivenGrid(n, c))
            /\ Fits(Places(n, c), FlowGrid(n, c)) /\ NoGap(Places(n, c), FlowGrid(n, c))

DashboardInv == EntriesAreActive /\ ShownIsTold /\ AxesAreListed /\ EveryoneHasACell

\* Every call ends.
DashboardCallsEnd == \A t \in Viewers : viewer[t] # At("idle") ~> viewer[t] = At("idle")

=============================================================================
