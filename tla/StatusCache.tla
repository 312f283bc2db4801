----------------------------- MODULE StatusCache -----------------------------
(***************************************************************************)
(* The caches of the status server, in the order a request passes them:    *)
(* the short response cache around every handler (status_response_cache),  *)
(* the JSON payload cache and the HTML page cache of a handler             *)
(* (status_server_cache) and the status snapshot the payloads are cut from *)
(* (status_cache), which a new block invalidates (status_server_http).     *)
(* One URL of each kind; contents are the time they were read from the     *)
(* pool, the number of new blocks by then and the settings in force.       *)
(***************************************************************************)
EXTENDS Integers

CONSTANTS
    Visitors,     \* concurrent HTTP requests
    ResponseTTL,  \* shortEndpointCacheTTL (5 s)
    JsonTTL,      \* the handler's ttl
    StatusTTL,    \* overviewRefreshInterval
    Slow,         \* the longest a request takes, in the same unit
    LastTime,     \* bound: time
    LastReload,   \* bound: the last moment of a reload
    MaxNewBlocks, \* bound: new blocks
    MaxSettings   \* bound: configuration or template reloads

ASSUME CacheAssumption ==
    /\ {ResponseTTL, JsonTTL, StatusTTL} \subseteq Nat \ {0}
    /\ {Slow, LastTime, LastReload, MaxNewBlocks} \subseteq Nat
    /\ MaxSettings \in Nat \ {0} /\ "nobody" \notin Visitors

VARIABLES
    pageClock, newBlocks, settings,
    invalidations,  \* onNewBlock calls that have not had statusMu yet
    clearing,       \* clearPageCache is still to come
    statusView,     \* cachedStatus and lastStatusBuild (-1: cleared)
    statusOwner,    \* holder of statusMu for writing, or NoVisitor
    jsonEntry, responseEntry, pageEntry,
    visit           \* per request: where it is and what it carries

cacheVars == <<pageClock, newBlocks, settings, invalidations, clearing, statusView,
               statusOwner, jsonEntry, responseEntry, pageEntry, visit>>
world == <<pageClock, newBlocks, settings, invalidations, clearing>>

NoVisitor == "nobody"
NoEntry == [read |-> 0, until |-> 0]      \* expired at every time
NoPage == [settings |-> 0, overlapped |-> FALSE]
NotVisiting == [at |-> "away", arrived |-> 0, looked |-> 0, read |-> 0,
                blocks |-> 0, settings |-> 0, overlapped |-> FALSE]

CacheInit ==
    /\ pageClock = 0 /\ newBlocks = 0 /\ settings = 1
    /\ invalidations = 0 /\ clearing = FALSE
    /\ statusView = [read |-> 0, blocks |-> 0, stamp |-> -1]
    /\ statusOwner = NoVisitor
    /\ jsonEntry = NoEntry /\ responseEntry = NoEntry /\ pageEntry = NoPage
    /\ visit = [v \in Visitors |-> NotVisiting]

Goto(v, where) == visit' = [visit EXCEPT ![v].at = where]
Leave(v) == visit' = [visit EXCEPT ![v] = NotVisiting]

----------------------------------------------------------------------------
(* serveShortResponseCache: an unexpired entry answers and changes nothing. *)
Arrive(v) ==
    /\ visit[v].at = "away" /\ pageClock >= responseEntry.until
    /\ visit' = [visit EXCEPT ![v] =
                   [NotVisiting EXCEPT !.at = "json", !.arrived = pageClock]]
    /\ UNCHANGED <<world, statusView, statusOwner, jsonEntry, responseEntry, pageEntry>>

(* cachedJSONResponse: an unexpired payload is used, else it is built from *)
(* the status snapshot, by every request that missed.                      *)
LookUpJson(v) ==
    /\ visit[v].at = "json"
    /\ IF pageClock < jsonEntry.until
       THEN visit' = [visit EXCEPT ![v].at = "flush", ![v].read = jsonEntry.read]
       ELSE Goto(v, "view")
    /\ UNCHANGED <<world, statusView, statusOwner, jsonEntry, responseEntry, pageEntry>>

Fresh(time) == statusView.stamp >= 0 /\ time - statusView.stamp < StatusTTL

(* statusDataView: "now" is read once, before the locks; a fresh snapshot  *)
(* is returned under the read lock.                                        *)
LookUpStatus(v) ==
    /\ visit[v].at = "view" /\ statusOwner = NoVisitor
    /\ visit' = IF Fresh(pageClock)
                THEN [visit EXCEPT ![v].at = "store", ![v].read = statusView.read]
                ELSE [visit EXCEPT ![v].at = "lock", ![v].looked = pageClock]
    /\ UNCHANGED <<world, statusView, statusOwner, jsonEntry, responseEntry, pageEntry>>

(* ... under the write lock the same test again, then the build.           *)
LockStatus(v) ==
    /\ visit[v].at = "lock" /\ statusOwner = NoVisitor
    /\ IF Fresh(visit[v].looked)
       THEN /\ visit' = [visit EXCEPT ![v].at = "store", ![v].looked = 0,
                                       ![v].read = statusView.read]
            /\ UNCHANGED statusOwner
       ELSE /\ statusOwner' = v /\ Goto(v, "build")
    /\ UNCHANGED <<world, statusView, jsonEntry, responseEntry, pageEntry>>

(* buildStatusData reads the pool's state.                                 *)
BuildStatus(v) ==
    /\ visit[v].at = "build"
    /\ visit' = [visit EXCEPT ![v].at = "built", ![v].read = pageClock, ![v].blocks = newBlocks]
    /\ UNCHANGED <<world, statusView, statusOwner, jsonEntry, responseEntry, pageEntry>>

StoreStatus(v) ==
    /\ visit[v].at = "built"
    /\ statusView' = [read |-> visit[v].read, blocks |-> visit[v].blocks,
                      stamp |-> visit[v].looked]
    /\ statusOwner' = NoVisitor
    /\ visit' = [visit EXCEPT ![v].at = "store", ![v].looked = 0, ![v].blocks = 0]
    /\ UNCHANGED <<world, jsonEntry, responseEntry, pageEntry>>

StoreJson(v) ==
    /\ visit[v].at = "store"
    /\ jsonEntry' = [read |-> visit[v].read, until |-> pageClock + JsonTTL]
    /\ Goto(v, "flush")
    /\ UNCHANGED <<world, statusView, statusOwner, responseEntry, pageEntry>>

(* The answer is written, and kept until the TTL after the ARRIVAL.        *)
Flush(v) ==
    /\ visit[v].at = "flush"
    /\ responseEntry' = [read |-> visit[v].read, until |-> visit[v].arrived + ResponseTTL]
    /\ Leave(v)
    /\ UNCHANGED <<world, statusView, statusOwner, jsonEntry, pageEntry>>

----------------------------------------------------------------------------
(* recordBlockTip / updateBlockTipFromTemplate show a new block and call   *)
(* onNewBlock afterwards, which needs statusMu.                            *)
NewBlock ==
    /\ newBlocks < MaxNewBlocks
    /\ newBlocks' = newBlocks + 1 /\ invalidations' = invalidations + 1
    /\ UNCHANGED <<pageClock, settings, clearing, statusView, statusOwner, jsonEntry,
                   responseEntry, pageEntry, visit>>

(* Mutant: the stamp is cleared without waiting for the lock.              *)
InvalidateUnlocked ==
    /\ invalidations > 0
    /\ invalidations' = invalidations - 1
    /\ statusView' = [statusView EXCEPT !.stamp = -1]
    /\ UNCHANGED <<pageClock, newBlocks, settings, clearing, statusOwner, jsonEntry,
                   responseEntry, pageEntry, visit>>

(* invalidateStatusCache                                                   *)
Invalidate ==
    /\ invalidations > 0 /\ statusOwner = NoVisitor
    /\ invalidations' = invalidations - 1
    /\ statusView' = [statusView EXCEPT !.stamp = -1]
    /\ UNCHANGED <<pageClock, newBlocks, settings, clearing, statusOwner, jsonEntry,
                   responseEntry, pageEntry, visit>>

(* serveCachedHTML keeps a page until clearPageCache: a miss builds it ... *)
OpenPage(v) ==
    /\ visit[v].at = "away" /\ pageEntry = NoPage
    /\ visit' = [visit EXCEPT ![v] = [NotVisiting EXCEPT !.at = "page",
                                        !.arrived = pageClock, !.settings = settings]]
    /\ UNCHANGED <<world, statusView, statusOwner, jsonEntry, responseEntry, pageEntry>>

(* ... and stores it, whatever was cleared meanwhile.                      *)
StorePage(v) ==
    /\ visit[v].at = "page"
    /\ pageEntry' = [settings |-> visit[v].settings, overlapped |-> visit[v].overlapped]
    /\ Leave(v)
    /\ UNCHANGED <<world, statusView, statusOwner, jsonEntry, responseEntry>>

(* UpdateConfig and ReloadTemplates: the new settings, then the pages.     *)
UpdateConfig ==
    /\ ~clearing /\ settings < MaxSettings /\ pageClock <= LastReload
    /\ settings' = settings + 1 /\ clearing' = TRUE
    /\ UNCHANGED <<pageClock, newBlocks, invalidations, statusView, statusOwner,
                   jsonEntry, responseEntry, pageEntry, visit>>

ClearPages ==
    /\ clearing
    /\ clearing' = FALSE /\ pageEntry' = NoPage
    /\ visit' = [v \in Visitors |-> [visit[v] EXCEPT !.overlapped = (@ \/ visit[v].at = "page")]]
    /\ UNCHANGED <<pageClock, newBlocks, settings, invalidations, statusView,
                   statusOwner, jsonEntry, responseEntry>>

(* Time passes while no request exceeds its longest duration.              *)
ClockTick ==
    /\ pageClock < LastTime
    /\ \A v \in Visitors : visit[v].at = "away" \/ pageClock - visit[v].arrived < Slow
    /\ pageClock' = pageClock + 1
    /\ UNCHANGED <<newBlocks, settings, invalidations, clearing, statusView,
                   statusOwner, jsonEntry, responseEntry, pageEntry, visit>>

CacheNext ==
    \/ \E v \in Visitors :
          \/ Arrive(v) \/ LookUpJson(v) \/ LookUpStatus(v) \/ LockStatus(v)
          \/ BuildStatus(v) \/ StoreStatus(v) \/ StoreJson(v) \/ Flush(v)
          \/ OpenPage(v) \/ StorePage(v)
    \/ NewBlock \/ Invalidate \/ UpdateConfig \/ ClearPages \/ ClockTick

CacheSpec == CacheInit /\ [][CacheNext]_cacheVars

----------------------------------------------------------------------------
CacheTypeOK ==
    /\ pageClock \in 0 .. LastTime /\ newBlocks \in 0 .. MaxNewBlocks
    /\ settings \in 1 .. MaxSettings /\ invalidations \in 0 .. MaxNewBlocks
    /\ clearing \in BOOLEAN /\ statusOwner \in Visitors \cup {NoVisitor}
    /\ statusView \in [read : 0 .. LastTime, blocks : 0 .. MaxNewBlocks,
                       stamp : -1 .. LastTime]
    /\ jsonEntry \in [read : 0 .. LastTime, until : 0 .. LastTime + JsonTTL]
    /\ responseEntry \in [read : 0 .. LastTime, until : 0 .. LastTime + ResponseTTL]
    /\ \A v \in Visitors : visit[v].arrived \in 0 .. LastTime

Longer(a, b) == IF a > b THEN a ELSE b

(***************************************************************************)
(* What a visitor is shown is never older than the three lifetimes and the *)
(* duration of a build together: entries do not prolong one another, and a *)
(* snapshot that took long does not count as younger than its data.        *)
(* The snapshot itself never outlives the invalidation of a block it does  *)
(* not know, and a page of earlier settings is kept after the pages were   *)
(* cleared only when its rendering overlapped the clearing                 *)
(* (status_response_cache.go 110-176, status_cache.go, status_server_cache *)
(* .go 43-130).                                                            *)
(***************************************************************************)
OldestShown == Longer(ResponseTTL, Slow) + JsonTTL + StatusTTL + Slow - 2

PagesAreRecent ==
    /\ pageClock < responseEntry.until => pageClock - responseEntry.read <= OldestShown
    /\ \A v \in Visitors :
          visit[v].at = "flush" => pageClock - visit[v].read <= OldestShown
    /\ (invalidations = 0 /\ statusView.stamp >= 0) => statusView.blocks = newBlocks
    /\ (pageEntry # NoPage /\ pageEntry.settings < settings)
          => clearing \/ pageEntry.overlapped
=============================================================================
