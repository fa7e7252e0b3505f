-------------------------------- MODULE Assets --------------------------------
(***************************************************************************)
(* The asset manager: a map from path to a loaded asset and a count, and   *)
(* the handles that keep it there. The main thread asks for assets, and    *)
(* loads them itself or on a job; a handle is shared by its client and the *)
(* job that loads, and whoever drops it last runs its destructor.          *)
(***************************************************************************)
EXTENDS Tasks, Naturals, FiniteSets

CONSTANTS
    Paths,
    Missing,        \* paths whose file cannot be loaded
    Requests,       \* AssetRequestHandle objects
    Loads,          \* the tasks of load_asset_async
    Objects,        \* Asset objects
    Null, NoEntry, NoPath, NoRequest,
    AssetUses       \* {} or {"overlap"}

(* "overlap": a path is asked for while a job is still at work on it. The  *)
(* map has no lock, and a second load replaces the asset of the first.     *)
ASSUME AssetsAssumption ==
    /\ Missing \subseteq Paths /\ Loads \subseteq Task /\ AssetUses \subseteq {"overlap"}
    /\ IsFiniteSet(Requests) /\ "client" \notin Loads
ASSUME NullAssumption ==
    /\ Null \notin Objects /\ NoEntry \notin Objects \cup {Null}
    /\ NoEntry \notin [asset : Objects \cup {Null}, ref_count : Nat]
    /\ NoPath \notin Paths /\ NoRequest \notin Requests

VARIABLES
    assets,         \* the map: per path an AssetEntry, or NoEntry
    request,        \* the handles
    loading         \* the request a task holds in its lambda

assetVars == <<assets, request, loading>>

(* A handle: its fields, its shared_ptrs, the call that is at work on it   *)
(* (load_asset_sync or its destructor), and as a ghost what it counts on.  *)
Closed == [stage |-> "closed", path |-> NoPath, valid |-> TRUE, completed |-> FALSE,
           holders |-> {}, got |-> NoEntry]
Opened(p) == [Closed EXCEPT !.stage = "open", !.path = p, !.holders = {"client"}]
NewEntry == [asset |-> Null, ref_count |-> 0]

AssetsInit ==
    /\ assets = [p \in Paths |-> NoEntry]
    /\ request = [r \in Requests |-> Closed]
    /\ loading = [t \in Loads |-> NoRequest]

Put(r, h) == request' = [request EXCEPT ![r] = h]
PathOf(t) == request[loading[t]].path

(* assets[path] adds an entry where there is none.                         *)
EntryOf(p) == IF assets[p] = NoEntry THEN NewEntry ELSE assets[p]
SetEntry(p, e) == assets' = [assets EXCEPT ![p] = e]

(* What load_asset returns. Objects differ only by being different.        *)
InUse == {request[r].got : r \in Requests} \cup {EntryOf(p).asset : p \in Paths}
Loaded(p) == IF p \in Missing THEN Null ELSE CHOOSE o \in Objects \ InUse : TRUE
ObjectLeft(p) == p \in Missing \/ Objects \ InUse # {}   \* bound: Objects

(* The main thread is in one call at a time, and a destructor runs there   *)
(* unless a job dropped the last shared_ptr.                               *)
Destructor == {"decrement", "test", "free"}
OnWorker(r) == \E t \in Loads : loading[t] = r
MainBusy == \E r \in Requests :
    request[r].stage = "load" \/ (request[r].stage \in Destructor /\ ~OnWorker(r))

MayRequest(p) ==
    /\ ~MainBusy
    /\ "overlap" \in AssetUses \/ ~ \E t \in Loads : loading[t] # NoRequest /\ PathOf(t) = p

(* Which object a new handle is makes no difference.                       *)
IsNext(r) == request[r] = Closed /\ r = CHOOSE q \in Requests : request[q] = Closed

-----------------------------------------------------------------------------
(* load_asset_sync and load_asset_async.                                   *)

Count(e) == [e EXCEPT !.ref_count = @ + 1]
\* mutant: an asset that is found is not counted
Uncounted(e) == e
\* mutant: counted where it is found and again where the request completes
CountedTwice(e) == Count(Count(e))
CountFound(e) == Count(e)

(* unique_ptr assignment replaces whatever the entry held.                 *)
Inserted(p) == Count([EntryOf(p) EXCEPT !.asset = Loaded(p)])

(* The asset is there: the request is complete at once.                    *)
FindAsset(r, p) ==
    /\ IsNext(r) /\ MayRequest(p)
    /\ assets[p] # NoEntry
    /\ SetEntry(p, CountFound(assets[p]))
    /\ Put(r, [Opened(p) EXCEPT !.completed = TRUE, !.got = assets[p].asset])
    /\ UNCHANGED <<loading, tasks>>

(* It is not: load_asset_sync reads the file ...                           *)
MissSync(r, p) ==
    /\ IsNext(r) /\ MayRequest(p)
    /\ assets[p] = NoEntry
    /\ Put(r, [Opened(p) EXCEPT !.stage = "load"])
    /\ UNCHANGED <<assets, loading, tasks>>

(* ... and inserts what it has loaded. The handle of a failed request was  *)
(* never completed, so its destructor returns at once.                     *)
LoadSync(r) ==
    LET p == request[r].path IN
    /\ request[r].stage = "load" /\ ObjectLeft(p)
    /\ IF p \in Missing
       THEN Put(r, Closed) /\ UNCHANGED assets
       ELSE /\ SetEntry(p, Inserted(p))
            /\ Put(r, [Opened(p) EXCEPT !.completed = TRUE, !.got = Loaded(p)])
    /\ UNCHANGED <<loading, tasks>>

(* load_asset_async gives the handle to a job.                             *)
MissAsync(r, p) ==
    LET free == {t \in Loads : Free(t)}
        t == CHOOSE u \in free : TRUE IN
    /\ IsNext(r) /\ MayRequest(p)
    /\ assets[p] = NoEntry
    /\ free # {} /\ Async(t)
    /\ loading' = [loading EXCEPT ![t] = r]
    /\ Put(r, [Opened(p) EXCEPT !.holders = {"client", t}])
    /\ UNCHANGED assets

(* The job. A failure cancels the request, and the entry is inserted and   *)
(* counted all the same, with a null asset.                                *)
InsertEntry(t) ==
    LET r == loading[t]
        p == PathOf(t) IN
    /\ state[t] = "running" /\ request[r].got = NoEntry
    /\ request[r].stage = "open" /\ ~request[r].completed /\ ObjectLeft(p)
    /\ SetEntry(p, Inserted(p))
    /\ Put(r, [request[r] EXCEPT !.valid = p \notin Missing, !.got = Loaded(p)])
    /\ UNCHANGED <<loading, tasks>>

\* mutant: a cancelled request is not completed
IfValid(r) == request[r].valid
Completion(r) == TRUE

CompleteRequest(t) ==
    LET r == loading[t] IN
    /\ state[t] = "running" /\ request[r].got # NoEntry /\ ~request[r].completed
    /\ Put(r, [request[r] EXCEPT !.completed = Completion(r)])
    /\ UNCHANGED <<assets, loading, tasks>>

-----------------------------------------------------------------------------
(* ~AssetRequestHandle, run by whoever drops the last shared_ptr.          *)

Dropped(r, holder) ==
    LET rest == request[r].holders \ {holder} IN
    [request[r] EXCEPT !.holders = rest, !.stage = IF rest = {} THEN "decrement" ELSE @]

ClientDrops(r) ==
    /\ request[r].stage = "open" /\ "client" \in request[r].holders /\ ~MainBusy
    /\ Put(r, Dropped(r, "client"))
    /\ UNCHANGED <<assets, loading, tasks>>

(* The lambda is destroyed when the body of the job has ended.             *)
JobDrops(t) ==
    LET r == loading[t] IN
    /\ state[t] = "running" /\ request[r].completed /\ t \in request[r].holders
    /\ Put(r, Dropped(r, t))
    /\ IF "client" \in request[r].holders
       THEN loading' = [loading EXCEPT ![t] = NoRequest] /\ EndTask(t)
       ELSE UNCHANGED <<loading, tasks>>
    /\ UNCHANGED assets

(* The destructor returns, and with it the job that ran it.                *)
Close(r) ==
    /\ Put(r, Closed)
    /\ \/ ~OnWorker(r) /\ UNCHANGED <<loading, tasks>>
       \/ \E t \in Loads :
             /\ loading[t] = r
             /\ loading' = [loading EXCEPT ![t] = NoRequest]
             /\ EndTask(t)

(* An entry that is not valid is left alone, but assets[path] has added it *)
(* if it was not there.                                                    *)
Decrement(r) ==
    LET e == EntryOf(request[r].path) IN
    /\ request[r].stage = "decrement"
    /\ IF e.ref_count = 0
       THEN SetEntry(request[r].path, e) /\ Close(r)
       ELSE /\ SetEntry(request[r].path, [e EXCEPT !.ref_count = @ - 1])
            /\ Put(r, [request[r] EXCEPT !.stage = "test", !.got = NoEntry])
            /\ UNCHANGED <<loading, tasks>>

\* mutant: the count is not looked at
AlwaysLast(e) == TRUE
\* mutant: off by one
NeverLast(e) == e.ref_count + 1 = 0
IsLast(e) == e.ref_count = 0

TestCount(r) ==
    /\ request[r].stage = "test"
    /\ IF IsLast(EntryOf(request[r].path))
       THEN Put(r, [request[r] EXCEPT !.stage = "free"]) /\ UNCHANGED <<loading, tasks>>
       ELSE Close(r)
    /\ UNCHANGED assets

FreeAsset(r) ==
    /\ request[r].stage = "free"
    /\ SetEntry(request[r].path, NoEntry)
    /\ Close(r)

(* unload_all: nobody calls it, and no handle may be left.                 *)
UnloadAll ==
    /\ \A r \in Requests : request[r] = Closed
    /\ assets' = [p \in Paths |-> NoEntry]
    /\ UNCHANGED <<request, loading, tasks>>

-----------------------------------------------------------------------------
RequestAsset(r, p) == FindAsset(r, p) \/ MissSync(r, p) \/ MissAsync(r, p)
Destroy(r) == Decrement(r) \/ TestCount(r) \/ FreeAsset(r)
MainAssets(r) == LoadSync(r) \/ (~OnWorker(r) /\ Destroy(r))
AssetJob(t) ==
    loading[t] # NoRequest /\
        \/ InsertEntry(t) \/ CompleteRequest(t) \/ JobDrops(t) \/ Destroy(loading[t])

AssetsNext ==
    \/ \E r \in Requests : MainAssets(r) \/ ClientDrops(r) \/ \E p \in Paths : RequestAsset(r, p)
    \/ \E t \in Loads : AssetJob(t)
    \/ UnloadAll

-----------------------------------------------------------------------------
(* Properties.                                                             *)

AssetsTypeOK ==
    /\ assets \in [Paths -> [asset : Objects \cup {Null}, ref_count : 0 .. Cardinality(Requests)]
                            \cup {NoEntry}]
    /\ request \in [Requests ->
          [stage : {"closed", "load", "open"} \cup Destructor, path : Paths \cup {NoPath},
           valid : BOOLEAN, completed : BOOLEAN, holders : SUBSET ({"client"} \cup Loads),
           got : Objects \cup {Null, NoEntry}]]
    /\ loading \in [Loads -> Requests \cup {NoRequest}]

On(p) == {r \in Requests : request[r].path = p}

(* An asset stays loaded, and stays the same object, as long as a handle   *)
(* of a completed request refers to it ("Will keep alive the asset as long *)
(* as this asset has handles referencing it", AssetManager.h:22).          *)
HandleKeepsAsset ==
    \A r \in Requests :
        request[r].stage = "open" /\ request[r].completed =>
            /\ assets[request[r].path] # NoEntry
            /\ assets[request[r].path].asset = request[r].got

(* The count of an entry is the number of requests that count on it,       *)
(* whichever of the three ways a request was counted and whoever destroys  *)
(* it.                                                                     *)
CountMatches ==
    \A p \in Paths :
        EntryOf(p).ref_count = Cardinality({r \in On(p) : request[r].got # NoEntry})

(* A path that no handle refers to has no entry ("Assets are unloaded when *)
(* no shared_ptr points to them", AssetManager.h:16), also after a load    *)
(* that failed.                                                            *)
UnloadedWhenUnreferenced == \A p \in Paths : On(p) = {} => assets[p] = NoEntry

(* A request given to a job completes, also when the file cannot be        *)
(* loaded, if every job that is queued is begun.                           *)
LoadsBegin == \A t \in Loads : state[t] = "scheduled" ~> state[t] = "running"
AsyncCompletes ==
    LoadsBegin => \A t \in Loads : loading[t] # NoRequest ~> loading[t] = NoRequest
=============================================================================
