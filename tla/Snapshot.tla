------------------------------ MODULE Snapshot ------------------------------
(***************************************************************************)
(* What the user and the PCAP sidecar file get to see of the connection    *)
(* table (src/app.rs): the snapshot provider sweeps the tables into the    *)
(* list the UI draws, the cleanup thread moves connections to the archive  *)
(* and writes them to the sidecar, clear_all_connections empties           *)
(* everything, and stop writes what the last snapshot holds.               *)
(*                                                                         *)
(* A member of Conns is one connection, from its first packet to its end;  *)
(* a later one with the same addresses is another member.  DashMap's iter, *)
(* retain and clear go through the entries one by one.  When a connection  *)
(* times out is left open, and the archive is below its limit (module      *)
(* ConnectionTracker has both).                                            *)
(***************************************************************************)
EXTENDS Naturals, FiniteSets

CONSTANTS
  Conns,            \* connections
  FilterLocalhost,  \* Config.filter_localhost, TRUE by default
  MaxClears,        \* bound: calls of clear_all_connections
  MaxToggles,       \* bound: calls of toggle_show_historic
  MaxQuiets         \* bound: times a connection falls silent or speaks again

ASSUME SnapshotAssumption ==
  /\ IsFiniteSet(Conns)
  /\ FilterLocalhost \in BOOLEAN
  /\ MaxClears \in Nat /\ MaxToggles \in Nat /\ MaxQuiets \in Nat

VARIABLES
  table,         \* per connection: "unseen", "active" in the table, or how it left it:
                 \* "expired" through cleanup or "cleared"
  quiet,         \* the connections without traffic for 300 s (not is_active)
  archive,       \* the historic table
  cleanup,       \* the cleanup thread: its step, what is left to visit, what it removed
  provider,      \* the snapshot thread: its step, what is left to visit, its list, and
                 \* (history) what was cleared when its sweep began
  list,          \* App.connections_snapshot: <<connection, is_historic>> pairs
  showHistoric,  \* App.show_historic
  main,          \* the main thread: "ui", the steps of a clear, and those of the exit
  todo,          \* what a clear has still to visit
  shouldStop,    \* App.should_stop
  sidecar,       \* per connection: its lines in <pcap>.connections.jsonl
  cleared,       \* history: the connections seen before the last clear began
  sweptSince,    \* history: what was cleared when the sweep behind list began
  clears, toggles, quiets,  \* how often that happened
  loopback       \* external: the connections between two loopback addresses

vars == <<table, quiet, archive, cleanup, provider, list, showHistoric, main, todo,
          shouldStop, sidecar, cleared, sweptSince, clears, toggles, quiets, loopback>>

Active == {c \in Conns : table[c] = "active"}
Seen == {c \in Conns : table[c] # "unseen"}

(* The last part of enrich_and_filter, applied in both sweeps: loopback    *)
(* connections are left out unless they are asked for.                     *)
Filtered(c) == FilterLocalhost /\ c \in loopback

(* What the sweep of the active table takes: is_active and not filtered.   *)
InUse == {c \in Active \ quiet : ~Filtered(c)}

Init ==
  /\ table = [c \in Conns |-> "unseen"]
  /\ quiet = {} /\ archive = {}
  /\ cleanup = [pc |-> "check", todo |-> {}, removed |-> {}]
  /\ provider = [pc |-> "check", todo |-> {}, list |-> {}, since |-> {}]
  /\ list = {} /\ showHistoric = FALSE
  /\ main = "ui" /\ todo = {} /\ shouldStop = FALSE
  /\ sidecar = [c \in Conns |-> 0]
  /\ cleared = {} /\ sweptSince = {}
  /\ clears = 0 /\ toggles = 0 /\ quiets = 0
  /\ loopback \in SUBSET Conns

Running == main # "exit"

-----------------------------------------------------------------------------
(* Traffic.                                                                *)

(* ingest_at inserts a connection.                                         *)
Create(c) ==
  /\ Running
  /\ table[c] = "unseen"
  /\ table' = [table EXCEPT ![c] = "active"]
  /\ UNCHANGED <<quiet, archive, cleanup, provider, list, showHistoric, main, todo,
                 shouldStop, sidecar, cleared, sweptSince, clears, toggles, quiets, loopback>>

(* A connection has no traffic for 300 s, or has some again.               *)
Quiet(c) ==
  /\ Running
  /\ table[c] = "active"
  /\ quiets < MaxQuiets
  /\ quiets' = quiets + 1
  /\ quiet' = IF c \in quiet THEN quiet \ {c} ELSE quiet \cup {c}
  /\ UNCHANGED <<table, archive, cleanup, provider, list, showHistoric, main, todo,
                 shouldStop, sidecar, cleared, sweptSince, clears, toggles, loopback>>

-----------------------------------------------------------------------------
(* The cleanup thread: ConnectionTracker::cleanup, then a line per removed *)
(* connection.                                                             *)

CleanupUnchanged ==
  UNCHANGED <<quiet, provider, list, showHistoric, main, todo, shouldStop, cleared,
              sweptSince, clears, toggles, quiets, loopback>>

CleanupCheck ==
  /\ Running
  /\ cleanup.pc = "check"
  /\ cleanup' = IF shouldStop THEN [cleanup EXCEPT !.pc = "ended"]
                ELSE [pc |-> "retain", todo |-> Conns, removed |-> {}]
  /\ UNCHANGED <<table, archive, sidecar>> /\ CleanupUnchanged

(* Faulty: an entry is copied for the archive and left in the table.       *)
BugCleanupVisit(c) ==
  /\ Running
  /\ cleanup.pc = "retain" /\ c \in cleanup.todo
  /\ \/ cleanup' = [cleanup EXCEPT !.todo = @ \ {c}]
     \/ /\ table[c] = "active"
        /\ cleanup' = [cleanup EXCEPT !.todo = @ \ {c}, !.removed = @ \cup {c}]
  /\ UNCHANGED <<table, archive, sidecar>> /\ CleanupUnchanged

(* retain keeps an entry or removes it.                                    *)
CleanupVisit(c) ==
  /\ Running
  /\ cleanup.pc = "retain" /\ c \in cleanup.todo
  /\ \/ /\ cleanup' = [cleanup EXCEPT !.todo = @ \ {c}]
        /\ UNCHANGED table
     \/ /\ table[c] = "active"
        /\ table' = [table EXCEPT ![c] = "expired"]
        /\ cleanup' = [cleanup EXCEPT !.todo = @ \ {c}, !.removed = @ \cup {c}]
  /\ UNCHANGED <<archive, sidecar>> /\ CleanupUnchanged

CleanupSwept ==
  /\ Running
  /\ cleanup.pc = "retain" /\ cleanup.todo = {}
  /\ cleanup' = [cleanup EXCEPT !.pc = "archive", !.todo = cleanup.removed]
  /\ UNCHANGED <<table, archive, sidecar>> /\ CleanupUnchanged

CleanupArchive(c) ==
  /\ Running
  /\ cleanup.pc = "archive" /\ c \in cleanup.todo
  /\ archive' = archive \cup {c}
  /\ cleanup' = [cleanup EXCEPT !.todo = @ \ {c}]
  /\ UNCHANGED <<table, sidecar>> /\ CleanupUnchanged

CleanupArchived ==
  /\ Running
  /\ cleanup.pc = "archive" /\ cleanup.todo = {}
  /\ cleanup' = [cleanup EXCEPT !.pc = "log", !.todo = cleanup.removed]
  /\ UNCHANGED <<table, archive, sidecar>> /\ CleanupUnchanged

(* Faulty: only what is still in the archive is logged.                    *)
BugCleanupLog(c) ==
  /\ Running
  /\ cleanup.pc = "log" /\ c \in cleanup.todo
  /\ sidecar' = IF c \in archive THEN [sidecar EXCEPT ![c] = @ + 1] ELSE sidecar
  /\ cleanup' = [cleanup EXCEPT !.todo = @ \ {c}]
  /\ UNCHANGED <<table, archive>> /\ CleanupUnchanged

CleanupLog(c) ==
  /\ Running
  /\ cleanup.pc = "log" /\ c \in cleanup.todo
  /\ sidecar' = [sidecar EXCEPT ![c] = @ + 1]
  /\ cleanup' = [cleanup EXCEPT !.todo = @ \ {c}]
  /\ UNCHANGED <<table, archive>> /\ CleanupUnchanged

CleanupDone ==
  /\ Running
  /\ cleanup.pc = "log" /\ cleanup.todo = {}
  /\ cleanup' = [pc |-> "check", todo |-> {}, removed |-> {}]
  /\ UNCHANGED <<table, archive, sidecar>> /\ CleanupUnchanged

-----------------------------------------------------------------------------
(* The snapshot provider.                                                  *)

ProviderUnchanged ==
  UNCHANGED <<table, quiet, archive, cleanup, showHistoric, main, todo, shouldStop,
              sidecar, cleared, clears, toggles, quiets, loopback>>

ProviderCheck ==
  /\ Running
  /\ provider.pc = "check"
  /\ provider' = IF shouldStop THEN [provider EXCEPT !.pc = "ended"]
                 ELSE [pc |-> "active", todo |-> Conns, list |-> {},
                       since |-> IF main = "ui" THEN cleared ELSE {}]
  /\ UNCHANGED <<list, sweptSince>> /\ ProviderUnchanged

(* The sweep of the active table.                                          *)
ProviderActive(c) ==
  /\ Running
  /\ provider.pc = "active" /\ c \in provider.todo
  /\ provider' = [provider EXCEPT !.todo = @ \ {c},
                                  !.list = IF c \in InUse
                                           THEN @ \cup {<<c, FALSE>>} ELSE @]
  /\ UNCHANGED <<list, sweptSince>> /\ ProviderUnchanged

(* show_historic is read once, after the first sweep.                      *)
ProviderToggle ==
  /\ Running
  /\ provider.pc = "active" /\ provider.todo = {}
  /\ provider' = IF showHistoric THEN [provider EXCEPT !.pc = "historic", !.todo = Conns]
                 ELSE [provider EXCEPT !.pc = "publish"]
  /\ UNCHANGED <<list, sweptSince>> /\ ProviderUnchanged

ProviderHistoric(c) ==
  /\ Running
  /\ provider.pc = "historic" /\ c \in provider.todo
  /\ provider' = [provider EXCEPT !.todo = @ \ {c},
                                  !.list = IF c \in archive /\ ~Filtered(c)
                                           THEN @ \cup {<<c, TRUE>>} ELSE @]
  /\ UNCHANGED <<list, sweptSince>> /\ ProviderUnchanged

ProviderSwept ==
  /\ Running
  /\ provider.pc = "historic" /\ provider.todo = {}
  /\ provider' = [provider EXCEPT !.pc = "publish"]
  /\ UNCHANGED <<list, sweptSince>> /\ ProviderUnchanged

(* Faulty: an empty list is not published.                                 *)
BugProviderPublish ==
  /\ Running
  /\ provider.pc = "publish"
  /\ list' = IF provider.list = {} THEN list ELSE provider.list
  /\ sweptSince' = provider.since
  /\ provider' = [pc |-> "check", todo |-> {}, list |-> {}, since |-> {}]
  /\ ProviderUnchanged

ProviderPublish ==
  /\ Running
  /\ provider.pc = "publish"
  /\ list' = provider.list
  /\ sweptSince' = provider.since
  /\ provider' = [pc |-> "check", todo |-> {}, list |-> {}, since |-> {}]
  /\ ProviderUnchanged

-----------------------------------------------------------------------------
(* The main thread.                                                        *)

ToggleHistoric ==
  /\ main = "ui"
  /\ toggles < MaxToggles
  /\ toggles' = toggles + 1
  /\ showHistoric' = ~showHistoric
  /\ UNCHANGED <<table, quiet, archive, cleanup, provider, list, main, todo,
                 shouldStop, sidecar, cleared, sweptSince, clears, quiets, loopback>>

(* clear_all_connections: the active table, the archive, the toggle and    *)
(* the list, in this order.                                                *)
ClearBegin ==
  /\ main = "ui"
  /\ clears < MaxClears
  /\ clears' = clears + 1
  /\ cleared' = Seen
  /\ main' = "clear_table" /\ todo' = Conns
  /\ UNCHANGED <<table, quiet, archive, cleanup, provider, list, showHistoric,
                 shouldStop, sidecar, sweptSince, toggles, quiets, loopback>>

(* Faulty: only the connections the list would show are dropped.           *)
BugClearTable(c) ==
  /\ main = "clear_table" /\ c \in todo
  /\ todo' = todo \ {c}
  /\ table' = IF c \in Active \ quiet THEN [table EXCEPT ![c] = "cleared"] ELSE table
  /\ UNCHANGED <<quiet, archive, cleanup, provider, list, showHistoric, main,
                 shouldStop, sidecar, cleared, sweptSince, clears, toggles, quiets, loopback>>

ClearTable(c) ==
  /\ main = "clear_table" /\ c \in todo
  /\ todo' = todo \ {c}
  /\ table' = IF c \in Active THEN [table EXCEPT ![c] = "cleared"] ELSE table
  /\ UNCHANGED <<quiet, archive, cleanup, provider, list, showHistoric, main,
                 shouldStop, sidecar, cleared, sweptSince, clears, toggles, quiets, loopback>>

ClearTableDone ==
  /\ main = "clear_table" /\ todo = {}
  /\ main' = "clear_archive" /\ todo' = Conns
  /\ UNCHANGED <<table, quiet, archive, cleanup, provider, list, showHistoric,
                 shouldStop, sidecar, cleared, sweptSince, clears, toggles, quiets, loopback>>

ClearArchive(c) ==
  /\ main = "clear_archive" /\ c \in todo
  /\ todo' = todo \ {c}
  /\ archive' = archive \ {c}
  /\ UNCHANGED <<table, quiet, cleanup, provider, list, showHistoric, main,
                 shouldStop, sidecar, cleared, sweptSince, clears, toggles, quiets, loopback>>

(* The tracker is empty: the toggle is reset ...                           *)
ClearToggle ==
  /\ main = "clear_archive" /\ todo = {}
  /\ showHistoric' = FALSE
  /\ main' = "clear_list"
  /\ UNCHANGED <<table, quiet, archive, cleanup, provider, list, todo, shouldStop,
                 sidecar, cleared, sweptSince, clears, toggles, quiets, loopback>>

(* ... and then the list, under its write lock.                            *)
ClearList ==
  /\ main = "clear_list"
  /\ list' = {}
  /\ main' = "ui"
  /\ UNCHANGED <<table, quiet, archive, cleanup, provider, showHistoric, todo, shouldStop,
                 sidecar, cleared, sweptSince, clears, toggles, quiets, loopback>>

Lines(c) == Cardinality({e \in list : e[1] = c})

(* main calls App::stop after the UI loop ...                              *)
Stop ==
  /\ main = "ui"
  /\ shouldStop' = TRUE
  /\ main' = "stop_write"
  /\ UNCHANGED <<table, quiet, archive, cleanup, provider, list, showHistoric, todo,
                 sidecar, cleared, sweptSince, clears, toggles, quiets, loopback>>

(* ... which writes the list to the sidecar under its read lock ...        *)
StopWrite ==
  /\ main = "stop_write"
  /\ sidecar' = [c \in Conns |-> sidecar[c] + Lines(c)]
  /\ main' = "drop"
  /\ UNCHANGED <<table, quiet, archive, cleanup, provider, list, showHistoric, todo,
                 shouldStop, cleared, sweptSince, clears, toggles, quiets, loopback>>

(* ... and Drop calls App::stop once more before the process ends.         *)
DropWrite ==
  /\ main = "drop"
  /\ sidecar' = [c \in Conns |-> sidecar[c] + Lines(c)]
  /\ main' = "linger"
  /\ UNCHANGED <<table, quiet, archive, cleanup, provider, list, showHistoric, todo,
                 shouldStop, cleared, sweptSince, clears, toggles, quiets, loopback>>

Exit ==
  /\ main = "linger"
  /\ main' = "exit"
  /\ UNCHANGED <<table, quiet, archive, cleanup, provider, list, showHistoric, todo,
                 shouldStop, sidecar, cleared, sweptSince, clears, toggles, quiets, loopback>>

-----------------------------------------------------------------------------
Provider == \/ ProviderCheck \/ ProviderToggle \/ ProviderSwept \/ ProviderPublish
            \/ \E c \in Conns : ProviderActive(c) \/ ProviderHistoric(c)

Cleanup == \/ CleanupCheck \/ CleanupSwept \/ CleanupArchived \/ CleanupDone
           \/ \E c \in Conns : CleanupVisit(c) \/ CleanupArchive(c) \/ CleanupLog(c)

Clear == \/ ClearBegin \/ ClearTableDone \/ ClearToggle \/ ClearList
         \/ \E c \in Conns : ClearTable(c) \/ ClearArchive(c)

Quit == Stop \/ StopWrite \/ DropWrite \/ Exit

Next == \/ \E c \in Conns : Create(c) \/ Quiet(c)
        \/ Provider \/ Cleanup \/ ToggleHistoric \/ Clear \/ Quit
        \/ ~Running /\ UNCHANGED vars

Spec == Init /\ [][Next]_vars

(* The provider and the cleanup thread wake up again and again, and a      *)
(* clear goes on once begun.                                               *)
FairSpec == Spec /\ WF_vars(Provider) /\ WF_vars(Cleanup)
                 /\ WF_vars(\/ ClearTableDone \/ ClearToggle \/ ClearList
                            \/ \E c \in Conns : ClearTable(c) \/ ClearArchive(c))

-----------------------------------------------------------------------------
(* Properties.                                                             *)

(* Every connection the list shows as historic has left the active table,  *)
(* and none is shown before its first packet.                              *)
ListSound ==
  \A e \in list : /\ e[1] \in Seen
                  /\ e[2] => e[1] \notin Active

(* The stale list that a clear can leave behind lasts for one sweep: a     *)
(* sweep that begins after clear_all_connections returned shows none of    *)
(* the connections from before it as active.                               *)
SweepAfterClear == \A e \in list : e[1] \in sweptSince => e[2]

(* A connection the cleanup thread removed is in the sidecar by the time   *)
(* it sleeps, even when a clear empties the archive meanwhile.             *)
RemovedIsLogged ==
  cleanup.pc = "check" => \A c \in Conns : table[c] = "expired" => sidecar[c] >= 1

(* Until the user quits, no connection has two lines in the sidecar.       *)
LoggedOnceSoFar == ~shouldStop => \A c \in Conns : sidecar[c] <= 1

(* "Write remaining active connections [...] (connections that haven't     *)
(* been cleaned up yet)": a connection has one line in the sidecar.        *)
SidecarOnce == \A c \in Conns : sidecar[c] <= 1

(* A connection in use that the localhost filter lets through eventually   *)
(* shows up, and any connection that has left both tables eventually       *)
(* disappears from the list, unless the user quits.                        *)
ListCatchesUp ==
  \A c \in Conns :
    /\ (c \in InUse) ~> (<<c, FALSE>> \in list \/ c \notin InUse \/ shouldStop)
    /\ (table[c] \in {"expired", "cleared"} /\ c \notin archive)
         ~> (Lines(c) = 0 \/ c \in archive \/ shouldStop)
=============================================================================
