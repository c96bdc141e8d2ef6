----------------------------- MODULE HanaTunnel -----------------------------
(***************************************************************************)
(* The SSH tunnel to a database that cannot be reached directly, shared by *)
(* the cf-hana processes through one cache file per host (tunnel/cache.ts, *)
(* tunnel/fallback.ts).  The file holds the marker of the process that is  *)
(* establishing a tunnel, or the record of a ready one; it is created      *)
(* exclusively, but it is removed and overwritten by path, whatever is     *)
(* there by then.  Tunnels are detached and outlive the process that       *)
(* spawned them.                                                           *)
(*                                                                         *)
(* The clock is abstract: whether a ready record has expired, and whether  *)
(* the marker of an owner that is connecting (bounded by the connect       *)
(* timeout only) is older than the budget allows, is open each time.       *)
(***************************************************************************)
EXTENDS Naturals, FiniteSets

CONSTANTS
    Clients,         \* connection attempts, each of a process of its own
    Org,             \* the CF org each of them targets
    Refreshers,      \* those with --refresh-tunnel
    MaxCandidates    \* apps a client tries to tunnel through

ASSUME ClientAssumption == Refreshers \subseteq Clients
ASSUME CandidateAssumption == MaxCandidates \in Nat \ {0}

VARIABLES
    entry,           \* the cache file
    ssh,             \* the tunnel processes
    client,          \* each client: where it is, its candidate, the entry it last read
    abandoned,       \* history: tunnels given up, or left by a killed client, while they ran
    slips            \* history: removals and writes that hit something else than was meant

tunnelvars == <<entry, ssh, client, abandoned, slips>>

\* A tunnel is named by the client that spawns it and the number of the candidate.
SshTunnels == Clients \X (1..MaxCandidates)
NoTunnel == <<>>
NoEntry == [status |-> "none", by |-> NoTunnel]
Entries == [status : {"establishing", "ready"}, by : SshTunnels] \cup {NoEntry}
OwnerOf(e) == e.by[1]

EstablishingPcs == {"spawning", "connecting", "publishing", "publishingError",
                    "givingUp", "discarding"}
ClientPcs == {"new", "reaping", "cached", "refreshing", "evicting", "reusing", "direct", "claim",
              "examine", "takeover", "reclaim", "waiting", "ending", "connected", "failed", "killed"}
             \cup EstablishingPcs

\* misaimed: the entry removed or overwritten was not the one the client had in mind;
\* overtaken: it was the marker of a client still establishing.
Slips == {"misaimed", "overtaken"}

TunnelInit ==
    /\ entry = NoEntry
    /\ ssh = [t \in SshTunnels |-> "none"]
    /\ client = [c \in Clients |-> [at |-> "new", try |-> 1, seen |-> NoEntry, loop |-> FALSE]]
    /\ abandoned = {} /\ slips = {}

ClientAt(c, at) == client[c].at = at
Own(c) == <<c, client[c].try>>
OwnMarker(c) == [status |-> "establishing", by |-> Own(c)]
Establishes(c) == client[c].at \in EstablishingPcs
Advances(c, to) == client' = [client EXCEPT ![c].at = to]
ReadsEntry(c, to) == client' = [client EXCEPT ![c].at = to, ![c].seen = entry]
Alive(t) == ssh[t] = "up"

\* The tunnel a client is establishing, or is about to kill.
InHand(c, t) == \/ Establishes(c) /\ t = Own(c)
                \/ ClientAt(c, "ending") /\ t = client[c].seen.by

\* Another candidate, or none left.
NextCandidate(c) ==
    IF client[c].try < MaxCandidates
      THEN client' = [client EXCEPT ![c].at = "claim", ![c].try = @ + 1]
      ELSE Advances(c, "failed")

\* isEstablishingStale: the owner is gone, or has been at it for too long.
StaleMarker(e) == ~Establishes(OwnerOf(e))
MayBeStale(e) == StaleMarker(e) \/ ClientAt(OwnerOf(e), "connecting")

Hits(c, meant) ==
    slips' = slips \cup (IF entry \notin {NoEntry, meant} THEN {"misaimed"} ELSE {})
                   \cup (IF entry.status = "establishing" /\ entry.by # Own(c) /\ ~StaleMarker(entry)
                           THEN {"overtaken"} ELSE {})

\* rm, by path.
RemovesEntry(c, meant) == entry' = NoEntry /\ Hits(c, meant)

\* rm of a ready entry whose tunnel is not ended: nothing leads to that tunnel any more.
Evicts(c, meant) ==
    /\ RemovesEntry(c, meant)
    /\ abandoned' = abandoned \cup (IF entry.status = "ready" /\ Alive(entry.by)
                                      THEN {entry.by} ELSE {})

Ends(t) == ssh' = IF t \in SshTunnels /\ Alive(t) THEN [ssh EXCEPT ![t] = "down"] ELSE ssh

(***************************************************************************)
(* reapOneFile, at the start of every connection.                          *)
(***************************************************************************)
ReapsNothing(c) ==
    /\ ClientAt(c, "new")
    /\ \/ entry = NoEntry
       \/ entry.status = "establishing" /\ ~StaleMarker(entry)
       \/ entry.status = "ready" /\ Alive(entry.by) /\ Org[OwnerOf(entry)] = Org[c]
    /\ Advances(c, "cached")
    /\ UNCHANGED <<entry, ssh, abandoned, slips>>

\* A stale marker or a dead tunnel is to go; an expired tunnel, or one of another org, is
\* killed first.
ReapsEntry(c) ==
    /\ ClientAt(c, "new") /\ entry # NoEntry
    /\ entry.status = "establishing" => MayBeStale(entry)
    /\ ReadsEntry(c, "reaping")
    /\ Ends(IF entry.status = "ready" THEN entry.by ELSE NoTunnel)
    /\ UNCHANGED <<entry, abandoned, slips>>

RemovesReaped(c) ==
    /\ ClientAt(c, "reaping")
    /\ RemovesEntry(c, client[c].seen) /\ Advances(c, "cached")
    /\ UNCHANGED <<ssh, abandoned>>

(***************************************************************************)
(* tryCachedTunnel and tryReadyRecord.                                     *)
(***************************************************************************)
ReadsSuperseded(c) ==
    /\ ClientAt(c, "cached") /\ c \in Refreshers
    /\ ReadsEntry(c, "refreshing")
    /\ UNCHANGED <<entry, ssh, abandoned, slips>>

\* --refresh-tunnel removes the entry; the tunnel it had read, if any, is killed next.
RefreshesTunnel(c) ==
    /\ ClientAt(c, "refreshing")
    /\ RemovesEntry(c, client[c].seen)
    /\ Advances(c, IF client[c].seen.status = "ready" THEN "ending" ELSE "direct")
    /\ UNCHANGED <<ssh, abandoned>>

\* killTunnelProcess, of a superseded tunnel or of a candidate's own.
EndsTunnel(c) ==
    /\ ClientAt(c, "ending")
    /\ Ends(client[c].seen.by)
    /\ IF client[c].loop THEN NextCandidate(c) ELSE Advances(c, "direct")
    /\ UNCHANGED <<entry, abandoned, slips>>

ReadsCached(c) ==
    /\ ClientAt(c, "cached") /\ c \notin Refreshers
    /\ \/ entry.status # "ready" /\ Advances(c, "direct")
       \/ entry.status = "ready" /\ ReadsEntry(c, "evicting")
       \/ entry.status = "ready" /\ Alive(entry.by) /\ ReadsEntry(c, "reusing")
    /\ UNCHANGED <<entry, ssh, abandoned, slips>>

\* driver.connect through a ready record: it works, it shows that the tunnel does not, or
\* the database rejects the login.
Reuses(c) ==
    /\ ClientAt(c, "reusing")
    /\ \/ Alive(client[c].seen.by) /\ Advances(c, "connected")
       \/ Alive(client[c].seen.by) /\ Advances(c, "failed")
       \/ Advances(c, "evicting")
    /\ UNCHANGED <<entry, ssh, abandoned, slips>>

\* evictTunnelCache; inside the candidate loop the next candidate follows.
EvictsUnusable(c) ==
    /\ ClientAt(c, "evicting")
    /\ Evicts(c, client[c].seen)
    /\ IF client[c].loop THEN NextCandidate(c) ELSE Advances(c, "direct")
    /\ UNCHANGED ssh

\* tryDirectConnect: connected, refused by the database, or unreachable.
TriesDirect(c) ==
    /\ ClientAt(c, "direct")
    /\ \/ \E to \in {"connected", "failed"} : Advances(c, to)
       \/ client' = [client EXCEPT ![c].at = "claim", ![c].loop = TRUE]
    /\ UNCHANGED <<entry, ssh, abandoned, slips>>

(***************************************************************************)
(* claimEstablishing and waitForEstablishment.                             *)
(***************************************************************************)

\* Mutant: the marker is written without the exclusive flag.
WritesMarkerAnyway(c, from, otherwise) ==
    /\ ClientAt(c, from)
    /\ entry' = OwnMarker(c) /\ Advances(c, "spawning")
    /\ UNCHANGED <<ssh, abandoned, slips>>

WritesMarker(c, from, otherwise) ==
    /\ ClientAt(c, from)
    /\ IF entry = NoEntry
         THEN entry' = OwnMarker(c) /\ Advances(c, "spawning")
         ELSE Advances(c, otherwise) /\ UNCHANGED entry
    /\ UNCHANGED <<ssh, abandoned, slips>>

ExaminesEntry(c) ==
    /\ ClientAt(c, "examine")
    /\ \/ entry = NoEntry /\ ReadsEntry(c, "reclaim")
       \/ entry.status = "ready" /\ ReadsEntry(c, "reusing")
       \/ entry.status = "establishing" /\ MayBeStale(entry) /\ ReadsEntry(c, "takeover")
       \/ entry.status = "establishing" /\ ~StaleMarker(entry) /\ ReadsEntry(c, "waiting")
    /\ UNCHANGED <<entry, ssh, abandoned, slips>>

TakesOver(c) ==
    /\ ClientAt(c, "takeover")
    /\ RemovesEntry(c, client[c].seen) /\ Advances(c, "reclaim")
    /\ UNCHANGED <<ssh, abandoned>>

\* A poll that finds the outcome, or the end of the wait.
EndsWait(c) ==
    /\ ClientAt(c, "waiting")
    /\ IF entry.status = "ready" THEN ReadsEntry(c, "reusing") ELSE NextCandidate(c)
    /\ UNCHANGED <<entry, ssh, abandoned, slips>>

(***************************************************************************)
(* tryCandidate and finalizeCandidateConnection.                           *)
(***************************************************************************)
SpawnFails(c) ==
    /\ ClientAt(c, "spawning")
    /\ Advances(c, "givingUp")
    /\ UNCHANGED <<entry, ssh, abandoned, slips>>

SpawnSucceeds(c) ==
    /\ ClientAt(c, "spawning")
    /\ ssh' = [ssh EXCEPT ![Own(c)] = "up"]
    /\ Advances(c, "connecting")
    /\ UNCHANGED <<entry, abandoned, slips>>

\* The first connection through the tunnel: it works, the database rejects it (the tunnel
\* is good), or the tunnel is not.
ConnectsThrough(c) ==
    /\ ClientAt(c, "connecting")
    /\ \/ Alive(Own(c)) /\ \E to \in {"publishing", "publishingError"} : Advances(c, to)
       \/ Advances(c, "discarding")
    /\ UNCHANGED <<entry, ssh, abandoned, slips>>

\* finalizeEstablishingReady: the record replaces whatever is there.
PublishesTunnel(c) ==
    /\ client[c].at \in {"publishing", "publishingError"}
    /\ entry' = [status |-> "ready", by |-> Own(c)] /\ Hits(c, OwnMarker(c))
    /\ Advances(c, IF ClientAt(c, "publishing") THEN "connected" ELSE "failed")
    /\ UNCHANGED <<ssh, abandoned>>

\* The write of the record fails, and is ignored.
PublishingFails(c) ==
    /\ client[c].at \in {"publishing", "publishingError"}
    /\ Advances(c, IF ClientAt(c, "publishing") THEN "connected" ELSE "failed")
    /\ abandoned' = abandoned \cup {Own(c)}
    /\ UNCHANGED <<entry, ssh, slips>>

\* finalizeEstablishingFailed without a tunnel.
GivesUp(c) ==
    /\ ClientAt(c, "givingUp")
    /\ RemovesEntry(c, OwnMarker(c)) /\ NextCandidate(c)
    /\ UNCHANGED <<ssh, abandoned>>

\* Mutant: the tunnel of a rejected candidate is left running.
KeepsRejected(c) ==
    /\ ClientAt(c, "discarding")
    /\ RemovesEntry(c, OwnMarker(c)) /\ NextCandidate(c)
    /\ UNCHANGED <<ssh, abandoned>>

\* finalizeEstablishingFailed; the tunnel is killed next.
Discards(c) ==
    /\ ClientAt(c, "discarding")
    /\ RemovesEntry(c, OwnMarker(c))
    /\ client' = [client EXCEPT ![c].at = "ending", ![c].seen = OwnMarker(c)]
    /\ UNCHANGED <<ssh, abandoned>>

(***************************************************************************)
(* The client is killed; a tunnel ends by itself.                          *)
(***************************************************************************)
ClientKilled(c) ==
    /\ client[c].at \notin {"new", "connected", "failed", "killed"}
    /\ Advances(c, "killed")
    /\ abandoned' = abandoned \cup {t \in SshTunnels : Alive(t) /\ InHand(c, t)}
    /\ UNCHANGED <<entry, ssh, slips>>

TunnelEnds(t) ==
    /\ Alive(t)
    /\ Ends(t)
    /\ UNCHANGED <<entry, client, abandoned, slips>>

ClientStep(c) ==
    \/ ReapsNothing(c) \/ ReapsEntry(c) \/ RemovesReaped(c)
    \/ ReadsSuperseded(c) \/ RefreshesTunnel(c) \/ EndsTunnel(c) \/ ReadsCached(c) \/ Reuses(c) \/ EvictsUnusable(c)
    \/ TriesDirect(c)
    \/ WritesMarker(c, "claim", "examine") \/ ExaminesEntry(c) \/ TakesOver(c)
    \/ WritesMarker(c, "reclaim", "waiting") \/ EndsWait(c)
    \/ SpawnFails(c) \/ SpawnSucceeds(c) \/ ConnectsThrough(c)
    \/ PublishesTunnel(c) \/ PublishingFails(c) \/ GivesUp(c) \/ Discards(c)
    \/ ClientKilled(c)

TunnelNext == (\E c \in Clients : ClientStep(c)) \/ (\E t \in SshTunnels : TunnelEnds(t))

TunnelSpec == TunnelInit /\ [][TunnelNext]_tunnelvars

-----------------------------------------------------------------------------
TunnelTypeOK ==
    /\ entry \in Entries
    /\ ssh \in [SshTunnels -> {"none", "up", "down"}]
    /\ client \in [Clients -> [at : ClientPcs, try : 1..MaxCandidates, seen : Entries,
                               loop : BOOLEAN]]
    /\ abandoned \subseteq SshTunnels /\ slips \subseteq Slips

\* "Attempts to become the sole establisher for a host" (cache.ts:215): two clients
\* establish at once only after a removal or a write has missed its aim, or after the
\* marker of a client still at work was taken as stale or refreshed away.
SoleEstablisher ==
    slips = {} => \A c, d \in Clients : Establishes(c) /\ Establishes(d) => c = d

\* No live SSH path is left unattended (cache.ts:351): as long as nothing slipped, a tunnel
\* that runs and is not being established or killed is the one of the ready record, where the next
\* client finds it and closes it if it is another org's; or it was given up as unusable or
\* left by a killed client.
RunningTunnelIsListed ==
    slips = {} =>
        \A t \in SshTunnels :
            Alive(t) => \/ t \in abandoned
                        \/ entry = [status |-> "ready", by |-> t]
                        \/ \E c \in Clients : InHand(c, t)
=============================================================================
