---------------------------- MODULE TopologySync ----------------------------
(***************************************************************************)
(* The topology snapshot of cf-sync (topology/sync.ts, structure.ts,       *)
(* structure-merge.ts, space-sync-store.ts, region-org-sync.ts).  Full and *)
(* partial syncs take a sync lock and collect region by region into the    *)
(* runtime state, which completion copies to the stable snapshot; at the   *)
(* same time `cf-sync region` persists whole regions and `cf-sync space`,  *)
(* `org` and `orgs` parts of them.  A section under the state lock is one  *)
(* step for each file it writes: the runtime state first, the snapshot     *)
(* after, and a command may be killed or fail in between.  Outside the     *)
(* sections everyone else goes on.                                         *)
(*                                                                         *)
(* All commands run on one host.  Ages (15 minutes) are a free choice.     *)
(* The history file is left out.                                           *)
(***************************************************************************)
EXTENDS Naturals, FiniteSets

CONSTANTS
    Regions, Orgs,      \* what there is to collect: every region has every org
    Syncs,              \* the `cf-sync sync` commands, each with a sync id of its own
    Partial, Only,      \* those that were given --only, and the regions it lists
    Fetchers,           \* the `cf-sync region` commands
    Targeted, Named     \* the `cf-sync space`, `org` and `orgs` commands, and the orgs they name

Nobodys == "nobody"

ASSUME OnlyAssumption == Partial \subseteq Syncs /\ Only \subseteq Regions /\ Named \subseteq Orgs
ASSUME NamesAssumption ==
    /\ Syncs \cap Fetchers = {} /\ Syncs \cap Targeted = {} /\ Fetchers \cap Targeted = {}
    /\ Nobodys \notin Syncs \cup Fetchers \cup Targeted
    /\ {"new", "done"} \cap Regions = {}

VARIABLES
    syncLock,    \* the sync lock file: whose it is, and whether its content is there yet
    runtime,     \* cf-runtime-state.json
    stable,      \* cf-structure.json: the regions it has, and how much of each org
    section,     \* the state lock, while only the snapshot is still to be written under it
    behind,      \* history: the regions in which the snapshot was not, or not yet, written
                 \* after the runtime state
    sync,        \* each sync: where it is, what it read, which regions are left
    fetch,       \* each `cf-sync region`: the region it is collecting
    refreshed    \* the refreshes that have happened

snapshotvars == <<stable, section, behind>>
topologyvars == <<syncLock, runtime, snapshotvars, sync, fetch, refreshed>>

Earlier == "earlier"                   \* a full sync before all the others
NoSyncLock == [by |-> Nobodys, written |-> FALSE]
NoRegion == "none"

\* "part": an org without its spaces, or with some of them.
Extents == {"missing", "part", "whole"}
Wholly == [o \in Orgs |-> "whole"]
Unseen == [o \in Orgs |-> "missing"]
Structures == UNION {[rs -> [Orgs -> Extents]] : rs \in SUBSET Regions}
Empty == [r \in {} |-> Unseen]

\* failures: history, the regions a collection of which did not get everything.
NoState == [by |-> Nobodys, status |-> "none", completed |-> {}, nodes |-> Empty, failures |-> {}]
Requested(q) == IF q \in Partial THEN Only ELSE Regions

SyncPcs == {"new", "writing", "reading", "weighing", "removing", "marking", "retrying", "owner",
            "choosing", "collecting", "publishing", "failing", "completed", "releasing",
            "waiting", "done", "dead"}
NewSync == [at |-> "new", read |-> Nobodys, left |-> {}, region |-> NoRegion]

EarlierState == [by |-> Earlier, status |-> "completed", completed |-> Regions,
                 nodes |-> [r \in Regions |-> Wholly], failures |-> {}]

NoSection == [by |-> Nobodys, nodes |-> Empty, behind |-> {}]

\* Nothing was ever synced, everything was, or the next full sync was killed after that.
TopologyInit ==
    /\ \/ runtime \in {NoState, EarlierState} /\ syncLock = NoSyncLock /\ stable = runtime.nodes
       \/ /\ runtime = [NoState EXCEPT !.by = Earlier, !.status = "running"]
          /\ syncLock = [by |-> Earlier, written |-> TRUE]
          /\ stable = EarlierState.nodes
    /\ section = NoSection /\ behind = {}
    /\ sync = [s \in Syncs |-> NewSync]
    /\ fetch = [f \in Fetchers |-> "new"]
    /\ refreshed = {}

SyncAt(s, pcs) == sync[s].at \in pcs
SyncGoes(s, to) == sync' = [sync EXCEPT ![s].at = to]
SyncForgets(s, to) == sync' = [sync EXCEPT ![s] = [NewSync EXCEPT !.at = to]]
Owns(s) == runtime.by = s

----------------------------------------------------------------------------
\* Merging.

\* mergeCompletedStructureIntoStableStructure
LaidOver(over, under) ==
    [r \in DOMAIN over \cup DOMAIN under |-> IF r \in DOMAIN over THEN over[r] ELSE under[r]]

\* upsertRegion
WithRegion(nodes, r, node) == LaidOver([x \in {r} |-> node], nodes)

\* mergeRegionIntoRuntimeState: the region counts as completed.
RegionMerged(state, r, node) ==
    [state EXCEPT !.completed = @ \cup {r},
                  !.nodes = WithRegion(@, r, node),
                  !.failures = IF node = Wholly THEN @ \ {r} ELSE @ \cup {r}]

\* A bug to compare with: a part of a region marks it completed, as a whole one does.
PartCompletes(state, r, node, lost) ==
    [state EXCEPT !.completed = @ \cup {r}, !.nodes = WithRegion(@, r, node),
                  !.failures = @ \cup lost]

\* merge{Space,Org,OrgList}IntoRuntimeState: a part of a region does not.
PartMerged(state, r, node, lost) ==
    [state EXCEPT !.nodes = WithRegion(@, r, node), !.failures = @ \cup lost]

\* What collectRegion returns: everything, a region with an org whose lookup failed, or a
\* region without orgs when the login or the listing failed.  It never throws.
Collections == {Wholly, Unseen} \cup {[Wholly EXCEPT ![o] = "part"] : o \in Orgs}

\* What a targeted refresh makes of a region: "space" puts one space, with its apps or with
\* an error, into an org; "org" replaces an org; "orgs" keeps what is known of each org.
Kinds == {"space", "spaceFails", "org", "orgFails", "orgs"}
Part(node, what, o) ==
    CASE what = "space" -> [node EXCEPT ![o] = IF @ = "missing" THEN "part" ELSE @]
      [] what \in {"spaceFails", "orgFails"} -> [node EXCEPT ![o] = "part"]
      [] what = "org" -> [node EXCEPT ![o] = "whole"]
      [] what = "orgs" -> [x \in Orgs |-> IF node[x] = "missing" THEN "part" ELSE node[x]]

Node(nodes, r) == IF r \in DOMAIN nodes THEN nodes[r] ELSE Unseen

\* Two structures have the same of a region.
AgreeIn(r, one, other) ==
    /\ r \in DOMAIN one <=> r \in DOMAIN other
    /\ Node(one, r) = Node(other, r)

----------------------------------------------------------------------------
\* The state lock (withStateLock): a file that whoever made it removes, and nobody else.  One
\* who is killed in a section just takes no more steps: the section stays, and with it
\* everything that needs the lock stops, for no one takes it for stale.
Unlocked == section = NoSection

\* The runtime state is written; nodes is what the snapshot is to become.  Until then it lags
\* in the regions `now`, and after that only in those it lagged in before, `later`.
WroteRuntime(c, nodes, now, later) ==
    /\ behind' = now
    /\ section' = [by |-> c, nodes |-> nodes, behind |-> later]

\* writeJsonFileAtomic(cfStructurePath(), ...), and the lock is released.
WritesSnapshot(c) ==
    /\ section.by = c
    /\ stable' = section.nodes
    /\ behind' = section.behind
    /\ section' = NoSection

\* The snapshot cannot be written: the lock is released all the same.
Throws(c) == section.by = c /\ section' = NoSection

----------------------------------------------------------------------------
\* The sync lock.

\* openSyncLockExclusive: created first, its content written after.
CreatesSyncLock(s, otherwise) ==
    /\ IF syncLock = NoSyncLock
       THEN syncLock' = [by |-> s, written |-> FALSE] /\ SyncGoes(s, "writing")
       ELSE UNCHANGED syncLock /\ SyncGoes(s, otherwise)
    /\ UNCHANGED <<runtime, snapshotvars, fetch, refreshed>>

TriesSyncLock(s) == SyncAt(s, {"new"}) /\ CreatesSyncLock(s, "reading")
RetriesSyncLock(s) == SyncAt(s, {"retrying"}) /\ CreatesSyncLock(s, "waiting")

WritesSyncLock(s) ==
    /\ SyncAt(s, {"writing"})
    /\ syncLock' = IF syncLock.by = s THEN [syncLock EXCEPT !.written = TRUE] ELSE syncLock
    /\ SyncGoes(s, "owner")
    /\ UNCHANGED <<runtime, snapshotvars, fetch, refreshed>>

\* A lock without content is "invalid": whose it is cannot be read.
ReadsSyncLock(s) ==
    /\ SyncAt(s, {"reading"})
    /\ IF syncLock = NoSyncLock
       THEN SyncGoes(s, "waiting")
       ELSE sync' = [sync EXCEPT ![s].at = "weighing",
                                 ![s].read = IF syncLock.written THEN syncLock.by ELSE Nobodys]
    /\ UNCHANGED <<syncLock, runtime, snapshotvars, fetch, refreshed>>

Dead(q) == q = Earlier \/ sync[q].at = "dead"

\* getValidSyncLockRecoveryReason, with "aged" for what 15 minutes decide.
ReasonToRecover(q, aged) ==
    IF q = Nobodys
    THEN runtime = NoState \/ (runtime.status = "running" /\ aged)
    ELSE Dead(q) \/ (Owns(q) /\ runtime.status # "running") \/ aged

\* A settled runtime is left as it is, every other one is marked failed once the lock is gone.
WeighsSyncLock(s) ==
    /\ SyncAt(s, {"weighing"})
    /\ \E aged \in BOOLEAN :
          IF ReasonToRecover(sync[s].read, aged)
          THEN sync' = [sync EXCEPT ![s].at = "removing",
                                    ![s].read = IF @ = Nobodys THEN runtime.by ELSE @]
          ELSE SyncForgets(s, "waiting")
    /\ UNCHANGED <<syncLock, runtime, snapshotvars, fetch, refreshed>>

\* Whatever lock is at the path by now.
RemovesSyncLock(s) ==
    /\ SyncAt(s, {"removing"})
    /\ syncLock' = NoSyncLock
    /\ SyncGoes(s, "marking")
    /\ UNCHANGED <<runtime, snapshotvars, fetch, refreshed>>

\* markStaleRuntimeAsFailed: only if it is still the one that was read, and still running.
MarksRuntime(s) ==
    /\ SyncAt(s, {"marking"}) /\ Unlocked
    /\ runtime' = IF Owns(sync[s].read) /\ runtime.status = "running"
                  THEN [runtime EXCEPT !.status = "failed"] ELSE runtime
    /\ SyncForgets(s, "retrying")
    /\ UNCHANGED <<syncLock, snapshotvars, fetch, refreshed>>

\* waitForRuntimeStateToSettle: the state of whichever sync has settled, or 15 minutes.
WaiterReturns(s) ==
    /\ SyncAt(s, {"waiting"})
    /\ SyncGoes(s, "done")
    /\ UNCHANGED <<syncLock, runtime, snapshotvars, fetch, refreshed>>

----------------------------------------------------------------------------
\* The sync that holds the lock, or believes it does.

InitializesRuntime(s) ==
    /\ SyncAt(s, {"owner"}) /\ Unlocked
    /\ runtime' = [NoState EXCEPT !.by = s, !.status = "running"]
    /\ sync' = [sync EXCEPT ![s].at = "choosing", ![s].left = Requested(s), ![s].read = Nobodys]
    /\ UNCHANGED <<syncLock, snapshotvars, fetch, refreshed>>

\* A region that someone fetched into this sync's state meanwhile is not collected again.
SkipsRegion(s, r) ==
    /\ SyncAt(s, {"choosing"}) /\ r \in sync[s].left
    /\ Owns(s) /\ r \in runtime.completed
    /\ sync' = [sync EXCEPT ![s].left = @ \ {r}]
    /\ UNCHANGED <<syncLock, runtime, snapshotvars, fetch, refreshed>>

CollectsRegion(s, r) ==
    /\ SyncAt(s, {"choosing"}) /\ r \in sync[s].left
    /\ ~(Owns(s) /\ r \in runtime.completed)
    /\ sync' = [sync EXCEPT ![s].at = "collecting", ![s].region = r]
    /\ UNCHANGED <<syncLock, runtime, snapshotvars, fetch, refreshed>>

\* mergeRuntimeRegion: dropped without a word when the runtime is another sync's by now.
MergesRegion(s) ==
    /\ SyncAt(s, {"collecting"}) /\ Unlocked
    /\ \E node \in Collections :
          runtime' = IF Owns(s) THEN RegionMerged(runtime, sync[s].region, node) ELSE runtime
    /\ sync' = [sync EXCEPT ![s].at = "choosing", ![s].region = NoRegion,
                            ![s].left = @ \ {sync[s].region}]
    /\ UNCHANGED <<syncLock, snapshotvars, fetch, refreshed>>

\* completeRuntimeState: a partial sync lays its regions over the stable ones.
CompletesSync(s) ==
    /\ SyncAt(s, {"choosing"}) /\ sync[s].left = {}
    /\ Unlocked /\ Owns(s)
    /\ LET final == IF s \in Partial THEN LaidOver(runtime.nodes, stable) ELSE runtime.nodes
           laid == IF s \in Partial THEN DOMAIN runtime.nodes ELSE Regions
       IN /\ runtime' = [runtime EXCEPT !.status = "completed", !.nodes = final]
          /\ WroteRuntime(s, final, laid, {})
    /\ SyncGoes(s, "publishing")
    /\ UNCHANGED <<syncLock, stable, fetch, refreshed>>

PublishesSync(s) ==
    /\ SyncAt(s, {"publishing"}) /\ WritesSnapshot(s)
    /\ SyncGoes(s, "completed")
    /\ UNCHANGED <<syncLock, runtime, fetch, refreshed>>

SnapshotFails(s) ==
    /\ SyncAt(s, {"publishing"}) /\ Throws(s)
    /\ SyncGoes(s, "failing")
    /\ UNCHANGED <<syncLock, runtime, stable, behind, fetch, refreshed>>

\* "Missing runtime state", or a file that cannot be locked or written.  failRuntimeState marks
\* a runtime state that is ours, unless that fails as well; before the sync has one, it is not
\* called.
FailsSync(s) ==
    /\ SyncAt(s, {"owner", "choosing", "collecting", "failing", "completed"})
    /\ \/ UNCHANGED runtime
       \/ /\ Unlocked /\ Owns(s) /\ ~SyncAt(s, {"owner"})
          /\ runtime' = [runtime EXCEPT !.status = "failed"]
    /\ SyncForgets(s, "releasing")
    /\ UNCHANGED <<syncLock, snapshotvars, fetch, refreshed>>

\* releaseSyncLock removes the file by its path, whoever's it is.
ReleasesSyncLock(s) ==
    /\ SyncAt(s, {"completed", "releasing"})
    /\ syncLock' = NoSyncLock
    /\ SyncGoes(s, "done")
    /\ UNCHANGED <<runtime, snapshotvars, fetch, refreshed>>

SyncKilled(s) ==
    /\ ~SyncAt(s, {"new", "done", "dead"})
    /\ SyncForgets(s, "dead")
    /\ UNCHANGED <<syncLock, runtime, snapshotvars, fetch, refreshed>>

----------------------------------------------------------------------------
\* The other commands.

\* shouldRefreshRegion: no one has the region, or only the stable snapshot during a sync.
FetchesRegion(f, r) ==
    /\ fetch[f] = "new"
    /\ r \notin DOMAIN runtime.nodes
    /\ r \in DOMAIN stable => runtime.status = "running"
    /\ fetch' = [fetch EXCEPT ![f] = r]
    /\ UNCHANGED <<syncLock, runtime, snapshotvars, sync, refreshed>>

\* persistRegion: into the runtime state, and into the snapshot unless a sync will do so.
PersistsRegion(f) ==
    /\ fetch[f] \in Regions /\ Unlocked
    /\ \E node \in Collections :
          /\ runtime' = IF runtime = NoState THEN runtime
                        ELSE RegionMerged(runtime, fetch[f], node)
          /\ IF runtime.status = "running"
             THEN UNCHANGED <<section, behind>> /\ fetch' = [fetch EXCEPT ![f] = "done"]
             ELSE /\ WroteRuntime(f, WithRegion(stable, fetch[f], node),
                                  behind \cup {fetch[f]}, behind \ {fetch[f]})
                  /\ UNCHANGED fetch
    /\ UNCHANGED <<syncLock, stable, sync, refreshed>>

PublishesRegion(f) ==
    /\ WritesSnapshot(f)
    /\ fetch' = [fetch EXCEPT ![f] = "done"]
    /\ UNCHANGED <<syncLock, runtime, sync, refreshed>>

\* It cannot write the snapshot, and returns the cached view.
FetchFails(f) ==
    /\ Throws(f)
    /\ fetch' = [fetch EXCEPT ![f] = "done"]
    /\ UNCHANGED <<syncLock, runtime, stable, behind, sync, refreshed>>

\* persistSpace, persistOrg, persistRegionOrgs, each at the end of its collection.  An org
\* that cannot be targeted, or a listing that fails, persists nothing.
Refreshes(p, what, r, o) ==
    /\ p \notin refreshed /\ Unlocked
    /\ LET Merged(nodes) == Part(Node(nodes, r), what, o)
           lost == IF what \in {"spaceFails", "orgFails"} THEN {r} ELSE {}
       IN /\ runtime' = IF runtime = NoState THEN runtime
                        ELSE PartMerged(runtime, r, Merged(runtime.nodes), lost)
          /\ IF runtime.status = "running"
             THEN UNCHANGED <<section, behind>> /\ refreshed' = refreshed \cup {p}
             ELSE /\ WroteRuntime(p, WithRegion(stable, r, Merged(stable)), behind \cup {r}, behind)
                  /\ UNCHANGED refreshed
    /\ UNCHANGED <<syncLock, stable, sync, fetch>>

PublishesRefresh(p) ==
    /\ WritesSnapshot(p)
    /\ refreshed' = refreshed \cup {p}
    /\ UNCHANGED <<syncLock, runtime, sync, fetch>>

RefreshFails(p) ==
    /\ Throws(p)
    /\ refreshed' = refreshed \cup {p}
    /\ UNCHANGED <<syncLock, runtime, stable, behind, sync, fetch>>

TopologyNext ==
    \/ \E s \in Syncs :
          \/ TriesSyncLock(s) \/ RetriesSyncLock(s) \/ WritesSyncLock(s) \/ ReadsSyncLock(s)
          \/ WeighsSyncLock(s) \/ RemovesSyncLock(s) \/ MarksRuntime(s) \/ WaiterReturns(s)
          \/ InitializesRuntime(s) \/ CompletesSync(s) \/ PublishesSync(s)
          \/ SnapshotFails(s) \/ FailsSync(s)
          \/ MergesRegion(s) \/ ReleasesSyncLock(s) \/ SyncKilled(s)
          \/ \E r \in Regions : SkipsRegion(s, r) \/ CollectsRegion(s, r)
    \/ \E f \in Fetchers :
          \/ PersistsRegion(f) \/ PublishesRegion(f) \/ FetchFails(f)
          \/ \E r \in Regions : FetchesRegion(f, r)
    \/ \E p \in Targeted :
          \/ PublishesRefresh(p) \/ RefreshFails(p)
          \/ \E what \in Kinds, r \in Regions, o \in Named : Refreshes(p, what, r, o)

TopologySpec == TopologyInit /\ [][TopologyNext]_topologyvars

----------------------------------------------------------------------------
TopologyTypeOK ==
    /\ syncLock \in [by : Syncs \cup {Nobodys, Earlier}, written : BOOLEAN]
    /\ runtime \in [by : Syncs \cup {Nobodys, Earlier},
                    status : {"none", "running", "completed", "failed"},
                    completed : SUBSET Regions, nodes : Structures, failures : SUBSET Regions]
    /\ stable \in Structures
    /\ section \in [by : Syncs \cup Fetchers \cup Targeted \cup {Nobodys},
                    nodes : Structures, behind : SUBSET Regions]
    /\ behind \subseteq Regions
    /\ sync \in [Syncs -> [at : SyncPcs, read : Syncs \cup {Nobodys, Earlier},
                           left : SUBSET Regions, region : Regions \cup {NoRegion}]]
    /\ fetch \in [Fetchers -> Regions \cup {"new", "done"}]
    /\ refreshed \subseteq Targeted

\* A sync that completes has every org of every region it was asked for, except where a
\* collection failed, and from then on the snapshot agrees with what it reports, refreshed or
\* fetched afterwards: neither a second sync that took its lock, nor regions fetched and parts
\* refreshed while it ran, leave a region half done.  Only in the regions of a section that did
\* not come to write the snapshot, killed or failing between its two files (structure.ts:315
\* and 317, 268 and 272), the snapshot is older.
CompletedSyncIsWhole ==
    runtime.status = "completed" =>
        /\ \A r \in Requested(runtime.by) \ runtime.failures :
              r \in DOMAIN runtime.nodes /\ runtime.nodes[r] = Wholly
        /\ \A r \in Regions \ behind : AgreeIn(r, stable, runtime.nodes)

\* An org leaves the snapshot only by a fetch of its region, or by a sync that completes
\* and lost the region or was not asked for it.
KeepsKnownOrgs ==
    \A r \in Regions, o \in Orgs :
        Node(stable, r)[o] # "missing" /\ Node(stable', r)[o] = "missing"
          => \/ \E f \in Fetchers : fetch[f] = r /\ fetch'[f] = "done"
             \/ \E s \in Syncs : /\ sync[s].at = "publishing" /\ sync'[s].at = "completed"
                                 /\ r \in Requested(s) => r \in runtime.failures

\* What was known of an org is only forgotten with its region: by a fetch of that region, by a
\* sync that was asked for it and failed to collect it, or, as OthersKept says it should not
\* be, by one that was not asked for it.  No refresh of a space or an org, no completion
\* over what was refreshed and fetched meanwhile, and no recovery of a lock loses a sibling
\* (structure-merge.ts).
KnownOrgsStay == [][KeepsKnownOrgs]_topologyvars

\* `--only` "merges them into the existing snapshot without removing other cached regions", and
\* a refresh "preserves sibling orgs" (README): no org leaves the snapshot unasked.
OthersKept ==
    [][\A r \in Regions, o \in Orgs :
          Node(stable, r)[o] # "missing" /\ Node(stable', r)[o] = "missing"
             => \E s \in Syncs : r \in Requested(s)]_topologyvars
=============================================================================
