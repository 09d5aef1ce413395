--------------------------- MODULE SnapshotProofs ---------------------------
(***************************************************************************)
(* For every set of connections and any number of clears and toggles: what *)
(* the list shows is sound, a sweep begun after a clear shows nothing from *)
(* before it as active, and the cleanup thread logs what it removes once.  *)
(***************************************************************************)
EXTENDS Snapshot, FiniteSetTheorems, TLAPS

TablePcs == {"unseen", "active", "expired", "cleared"}
CleanupPcs == {"check", "retain", "archive", "log", "ended"}
ProviderPcs == {"check", "active", "historic", "publish", "ended"}
Clearing == {"clear_table", "clear_archive", "clear_list"}
Quitting == {"stop_write", "drop", "linger", "exit"}

CleanupState == [pc : CleanupPcs, todo : SUBSET Conns, removed : SUBSET Conns]
ProviderState == [pc : ProviderPcs, todo : SUBSET Conns,
                  list : SUBSET (Conns \X BOOLEAN), since : SUBSET Conns]

(* The values the variables range over.                                    *)
Types ==
  /\ table \in [Conns -> TablePcs]
  /\ archive \subseteq Conns
  /\ cleanup \in CleanupState
  /\ provider \in ProviderState
  /\ list \subseteq Conns \X BOOLEAN
  /\ main \in {"ui"} \cup Clearing \cup Quitting
  /\ todo \subseteq Conns
  /\ shouldStop \in BOOLEAN
  /\ sidecar \in [Conns -> Nat]
  /\ cleared \subseteq Conns

Expired == {c \in Conns : table[c] = "expired"}

(* An entry the provider may have collected: a connection that was seen,   *)
(* and that has left the table if the entry is historic.                   *)
Sound(e) == e[1] \in Seen /\ (e[2] => e[1] \notin Active)

(* Only expired connections reach the archive, by way of cleanup.removed,  *)
(* so that a list under construction is as sound as the published one.     *)
ListInv ==
  /\ archive \subseteq Expired
  /\ cleanup.removed \subseteq Expired
  /\ cleanup.pc \in {"archive", "log"} => cleanup.todo \subseteq cleanup.removed
  /\ \A e \in provider.list : Sound(e)
  /\ \A e \in list : Sound(e)

(* A clear works off todo; once the table is done with, and as far as the  *)
(* provider is concerned for good, no connection from before it is active. *)
ClearInv ==
  /\ cleared \subseteq Seen
  /\ cleared \cap Active \subseteq IF main = "clear_table" THEN todo ELSE {}
  /\ provider.since \subseteq Seen \ Active
  /\ \A e \in provider.list : e[1] \in provider.since => e[2]
  /\ SweepAfterClear

(* What is expired and has no line yet is waiting in the cleanup thread.   *)
LogInv ==
  \A c \in Expired : sidecar[c] = 0 =>
    /\ cleanup.pc \in {"retain", "archive", "log"}
    /\ c \in cleanup.removed
    /\ cleanup.pc = "log" => c \in cleanup.todo

(* Before the exit only the cleanup thread writes: a connection with a     *)
(* line has expired, has one, and is not waiting for another.              *)
OnceInv ==
  ~shouldStop =>
    /\ main \notin Quitting
    /\ \A c \in Conns :
         /\ sidecar[c] <= 1
         /\ sidecar[c] = 1 => c \in Expired
         /\ c \in cleanup.removed /\ cleanup.pc \in {"retain", "archive"} => sidecar[c] = 0
         /\ c \in cleanup.todo /\ cleanup.pc = "log" => sidecar[c] = 0

-----------------------------------------------------------------------------
(* How many lines stop writes for a connection is a number, as the list is *)
(* finite.                                                                 *)
LEMMA LinesType ==
  ASSUME Types, NEW c \in Conns
  PROVE  Lines(c) \in Nat
<1>1. IsFiniteSet(BOOLEAN)
  <2>1. IsFiniteSet({TRUE})
    BY FS_Singleton
  <2>2. IsFiniteSet({TRUE} \cup {FALSE})
    BY <2>1, FS_AddElement
  <2>3. BOOLEAN = {TRUE} \cup {FALSE}
    OBVIOUS
  <2> QED BY <2>2, <2>3
<1>2. IsFiniteSet(Conns \X BOOLEAN)
  BY <1>1, SnapshotAssumption, FS_Product
<1>3. {e \in list : e[1] = c} \subseteq Conns \X BOOLEAN
  BY DEF Types
<1> QED BY <1>2, <1>3, FS_Subset, FS_CardinalityType DEF Lines

(* A step of the cleanup thread touches neither the list nor the clear.    *)
LEMMA CleanupFrame == Cleanup => CleanupUnchanged
BY DEF Cleanup, CleanupCheck, CleanupSwept, CleanupArchived, CleanupDone, CleanupVisit,
       CleanupArchive, CleanupLog

(* A step of the provider touches nothing but its record and the list.     *)
LEMMA ProviderFrame == Provider => ProviderUnchanged
BY DEF Provider, ProviderCheck, ProviderToggle, ProviderSwept, ProviderPublish,
       ProviderActive, ProviderHistoric

(* What the steps with two updates do to the threads' records.             *)
LEMMA VisitEffect ==
  ASSUME Types, NEW c \in Conns, CleanupVisit(c)
  PROVE  \/ /\ cleanup' = [pc |-> "retain", todo |-> cleanup.todo \ {c},
                           removed |-> cleanup.removed]
            /\ table' = table
         \/ /\ cleanup' = [pc |-> "retain", todo |-> cleanup.todo \ {c},
                           removed |-> cleanup.removed \cup {c}]
            /\ table[c] = "active" /\ table' = [table EXCEPT ![c] = "expired"]
BY DEF Types, CleanupState, CleanupVisit

LEMMA ActiveEffect ==
  ASSUME Types, NEW c \in Conns, ProviderActive(c)
  PROVE  /\ provider' \in ProviderState /\ provider'.since = provider.since
         /\ \/ provider'.list = provider.list
            \/ c \in Active /\ provider'.list = provider.list \cup {<<c, FALSE>>}
<1>1. <<c, FALSE>> \in Conns \X BOOLEAN
  OBVIOUS
<1>2. CASE c \in InUse
  BY <1>1, <1>2 DEF Types, ProviderState, ProviderActive, InUse
<1>3. CASE c \notin InUse
  BY <1>3 DEF Types, ProviderState, ProviderActive
<1> QED BY <1>2, <1>3

LEMMA HistoricEffect ==
  ASSUME Types, NEW c \in Conns, ProviderHistoric(c)
  PROVE  /\ provider' \in ProviderState /\ provider'.since = provider.since
         /\ \/ provider'.list = provider.list
            \/ c \in archive /\ provider'.list = provider.list \cup {<<c, TRUE>>}
<1>1. <<c, TRUE>> \in Conns \X BOOLEAN
  OBVIOUS
<1>2. CASE c \in archive /\ ~Filtered(c)
  BY <1>1, <1>2 DEF Types, ProviderState, ProviderHistoric
<1>3. CASE ~(c \in archive /\ ~Filtered(c))
  BY <1>3 DEF Types, ProviderState, ProviderHistoric
<1> QED BY <1>2, <1>3

(* What the steps between the sweeps do to them.                           *)
LEMMA CleanupTurns ==
  ASSUME Types, CleanupCheck \/ CleanupSwept \/ CleanupArchived \/ CleanupDone
  PROVE  /\ cleanup' \in CleanupState
         /\ \/ /\ cleanup.pc = "check" /\ cleanup'.removed = {} /\ cleanup'.pc = "retain"
            \/ /\ cleanup.pc = "check" /\ cleanup'.removed = cleanup.removed
               /\ cleanup'.pc = "ended"
            \/ /\ cleanup.pc = "retain" /\ cleanup'.pc = "archive"
               /\ cleanup'.removed = cleanup.removed /\ cleanup'.todo = cleanup.removed
            \/ /\ cleanup.pc = "archive" /\ cleanup'.pc = "log"
               /\ cleanup'.removed = cleanup.removed /\ cleanup'.todo = cleanup.removed
            \/ /\ cleanup.pc = "log" /\ cleanup.todo = {} /\ cleanup'.pc = "check"
               /\ cleanup'.removed = {}
<1> USE DEF Types, CleanupState, CleanupPcs
<1>1. CASE CleanupCheck
  BY <1>1 DEF CleanupCheck
<1>2. CASE CleanupSwept
  BY <1>2 DEF CleanupSwept
<1>3. CASE CleanupArchived
  BY <1>3 DEF CleanupArchived
<1>4. CASE CleanupDone
  BY <1>4 DEF CleanupDone
<1> QED BY <1>1, <1>2, <1>3, <1>4

LEMMA ProviderTurns ==
  ASSUME Types, ProviderCheck \/ ProviderToggle \/ ProviderSwept \/ ProviderPublish
  PROVE  /\ provider' \in ProviderState
         /\ \/ /\ provider'.list = provider.list /\ provider'.since = provider.since
               /\ list' = list /\ sweptSince' = sweptSince
            \/ /\ provider'.list = {}
               /\ provider'.since = IF main = "ui" THEN cleared ELSE {}
               /\ list' = list /\ sweptSince' = sweptSince
            \/ /\ provider'.list = {} /\ provider'.since = {}
               /\ list' = provider.list /\ sweptSince' = provider.since
<1> USE DEF Types, ProviderState, ProviderPcs
<1>1. CASE ProviderCheck
  BY <1>1 DEF ProviderCheck
<1>2. CASE ProviderToggle
  BY <1>2 DEF ProviderToggle
<1>3. CASE ProviderSwept
  BY <1>3 DEF ProviderSwept
<1>4. CASE ProviderPublish
  BY <1>4 DEF ProviderPublish
<1> QED BY <1>1, <1>2, <1>3, <1>4

LEMMA TypesInit == Init => Types
<1> SUFFICES ASSUME Init PROVE Types
  OBVIOUS
<1>1. cleanup \in CleanupState
  BY DEF Init, CleanupState, CleanupPcs
<1>2. provider \in ProviderState
  BY DEF Init, ProviderState, ProviderPcs
<1> QED BY <1>1, <1>2 DEF Init, Types, TablePcs

LEMMA TypesNext == Types /\ [Next]_vars => Types'
<1> SUFFICES ASSUME Types, [Next]_vars PROVE Types'
  OBVIOUS
<1> USE DEF TablePcs, CleanupPcs, ProviderPcs, Clearing, Quitting
<1>1. ASSUME NEW c \in Conns, Create(c) \/ Quiet(c) PROVE Types'
  BY <1>1 DEF Types, Create, Quiet
<1>2. CASE Cleanup
  <2>r. /\ cleanup \in CleanupState
        /\ cleanup.todo \subseteq Conns /\ cleanup.removed \subseteq Conns
    BY DEF Types, CleanupState
  <2>1. CASE CleanupCheck \/ CleanupSwept \/ CleanupArchived \/ CleanupDone
    <3>1. cleanup' \in CleanupState
      BY <2>1, CleanupTurns
    <3> QED BY <2>1, <3>1 DEF Types, CleanupCheck, CleanupSwept, CleanupArchived,
                              CleanupDone, CleanupUnchanged
  <2>2. ASSUME NEW c \in Conns, CleanupVisit(c) PROVE Types'
    <3>1. cleanup' \in CleanupState
      BY <2>2, <2>r, VisitEffect DEF CleanupState
    <3>2. table' \in [Conns -> TablePcs]
      BY <2>2 DEF Types, CleanupVisit
    <3> QED BY <2>2, <3>1, <3>2 DEF Types, CleanupVisit, CleanupUnchanged
  <2>3. ASSUME NEW c \in Conns, CleanupArchive(c) \/ CleanupLog(c) PROVE Types'
    <3>1. cleanup' \in CleanupState
      BY <2>3, <2>r DEF CleanupArchive, CleanupLog, CleanupState
    <3>2. sidecar' \in [Conns -> Nat] /\ archive' \subseteq Conns
      BY <2>3 DEF Types, CleanupArchive, CleanupLog
    <3> QED BY <2>3, <3>1, <3>2 DEF Types, CleanupArchive, CleanupLog, CleanupUnchanged
  <2> QED BY <1>2, <2>1, <2>2, <2>3 DEF Cleanup
<1>3. CASE Provider
  <2>r. /\ provider \in ProviderState /\ provider.todo \subseteq Conns
        /\ provider.list \subseteq Conns \X BOOLEAN
        /\ cleared \subseteq Conns
    BY DEF Types, ProviderState
  <2>1. provider' \in ProviderState
    BY <1>3, ProviderTurns, ActiveEffect, HistoricEffect DEF Provider
  <2>2. list' \in {list, provider.list}
    BY <1>3 DEF Provider, ProviderCheck, ProviderToggle, ProviderSwept, ProviderPublish,
                ProviderActive, ProviderHistoric
  <2> QED BY <1>3, <2>r, <2>1, <2>2, ProviderFrame DEF Types, ProviderUnchanged
<1>4. CASE Clear \/ ToggleHistoric
  BY <1>4 DEF Types, Seen, Clear, ToggleHistoric, ClearBegin, ClearTable, ClearTableDone,
              ClearArchive, ClearToggle,
              ClearList
<1>5. CASE Stop \/ Exit
  BY <1>5 DEF Types, Stop, Exit
<1>6. CASE StopWrite \/ DropWrite
  <2>1. sidecar' \in [Conns -> Nat]
    BY <1>6, LinesType DEF Types, StopWrite, DropWrite
  <2> QED BY <1>6, <2>1 DEF Types, StopWrite, DropWrite
<1>7. CASE UNCHANGED vars
  BY <1>7 DEF Types, vars
<1> QED BY <1>1, <1>2, <1>3, <1>4, <1>5, <1>6, <1>7 DEF Next, Quit

-----------------------------------------------------------------------------
(* How a connection moves through the table: it is inserted once, and once *)
(* it has left it stays where it is.                                       *)
LEMMA TableStep ==
  ASSUME Types, [Next]_vars
  PROVE  \A c \in Conns :
           /\ c \in Seen => c \in Seen'
           /\ c \in Seen \ Active => c \notin Active'
           /\ c \in Expired => c \in Expired'
<1> USE DEF Seen, Active, Expired
<1>1. ASSUME NEW c \in Conns, Create(c) \/ Quiet(c) \/ CleanupVisit(c) \/ ClearTable(c)
      PROVE  \A d \in Conns :
               /\ d \in Seen => d \in Seen'
               /\ d \in Seen \ Active => d \notin Active'
               /\ d \in Expired => d \in Expired'
  BY <1>1 DEF Types, TablePcs, Create, Quiet, CleanupVisit, ClearTable
<1>2. \/ \E c \in Conns : Create(c) \/ Quiet(c) \/ CleanupVisit(c) \/ ClearTable(c)
      \/ UNCHANGED table
  BY DEF Next, vars, Provider, ProviderCheck, ProviderToggle, ProviderSwept, ProviderPublish,
         ProviderActive, ProviderHistoric, ProviderUnchanged, Cleanup, CleanupCheck,
         CleanupSwept, CleanupArchived, CleanupDone, CleanupArchive, CleanupLog,
         ToggleHistoric, Clear, ClearBegin, ClearTableDone, ClearArchive, ClearToggle,
              ClearList,
         Quit, Stop, StopWrite, DropWrite, Exit
<1> QED BY <1>1, <1>2

(* Entries stay sound as the table moves on.                               *)
LEMMA SoundStep ==
  ASSUME Types, [Next]_vars, NEW L \in SUBSET (Conns \X BOOLEAN), \A e \in L : Sound(e)
  PROVE  \A e \in L : Sound(e)'
BY TableStep DEF Sound

LEMMA ListInit == Init => ListInv
BY DEF Init, ListInv

LEMMA ListNext == Types /\ ListInv /\ [Next]_vars => ListInv'
<1> SUFFICES ASSUME Types, ListInv, [Next]_vars PROVE ListInv'
  OBVIOUS
<1>e. \A c \in Conns : c \in Expired => c \in Expired'
  BY TableStep
<1>l. /\ \A e \in provider.list : Sound(e)'
      /\ \A e \in list : Sound(e)'
  BY SoundStep DEF Types, ProviderState, ListInv
<1>x. Expired \subseteq Conns /\ cleanup.removed \subseteq Conns
  BY DEF Expired, Types, CleanupState
<1>1. CASE Cleanup
  <2>f. provider' = provider /\ list' = list
    BY <1>1, CleanupFrame DEF CleanupUnchanged
  <2>1. CASE CleanupCheck \/ CleanupSwept \/ CleanupArchived \/ CleanupDone
    <3>1. archive' = archive /\ cleanup'.removed \in {{}, cleanup.removed}
      BY <2>1, CleanupTurns DEF CleanupCheck, CleanupSwept, CleanupArchived, CleanupDone
    <3>2. cleanup'.pc \in {"archive", "log"} => cleanup'.todo \subseteq cleanup'.removed
      BY <2>1, CleanupTurns
    <3> QED BY <2>f, <3>1, <3>2, <1>e, <1>l, <1>x DEF ListInv
  <2>2. ASSUME NEW c \in Conns, CleanupVisit(c) PROVE ListInv'
    <3>1. cleanup'.removed \subseteq Expired'
      <4>1. c \in Expired' \/ cleanup'.removed = cleanup.removed
        BY <2>2, VisitEffect DEF Types, Expired
      <4>2. cleanup'.removed \subseteq cleanup.removed \cup {c}
        BY <2>2, VisitEffect
      <4> QED BY <4>1, <4>2, <1>e, <1>x DEF ListInv
    <3>2. cleanup'.pc = "retain" /\ archive' = archive
      BY <2>2, VisitEffect DEF CleanupVisit
    <3> QED BY <2>f, <3>1, <3>2, <1>e, <1>l, <1>x DEF ListInv
  <2>3. ASSUME NEW c \in Conns, CleanupArchive(c) \/ CleanupLog(c) PROVE ListInv'
    <3>1. /\ cleanup.pc \in {"archive", "log"} /\ c \in cleanup.todo
          /\ cleanup'.removed = cleanup.removed /\ cleanup'.todo = cleanup.todo \ {c}
          /\ archive' \subseteq archive \cup {c}
      BY <2>3 DEF CleanupArchive, CleanupLog, Types, CleanupState
    <3>2. c \in Expired
      BY <3>1 DEF ListInv
    <3> QED BY <2>f, <3>1, <3>2, <1>e, <1>l, <1>x DEF ListInv
  <2> QED BY <1>1, <2>1, <2>2, <2>3 DEF Cleanup
<1>2. CASE Provider
  <2>f. table' = table /\ archive' = archive /\ cleanup' = cleanup
    BY <1>2, ProviderFrame DEF ProviderUnchanged
  <2>1. CASE ProviderCheck \/ ProviderToggle \/ ProviderSwept \/ ProviderPublish
    <3>1. provider'.list \subseteq provider.list /\ list' \in {list, provider.list}
      BY <2>1, ProviderTurns
    <3> QED BY <2>f, <3>1, <1>l DEF ListInv, Expired
  <2>2. ASSUME NEW c \in Conns, ProviderActive(c) \/ ProviderHistoric(c) PROVE ListInv'
    <3>1. \/ provider'.list = provider.list
          \/ c \in Active /\ provider'.list = provider.list \cup {<<c, FALSE>>}
          \/ c \in archive /\ provider'.list = provider.list \cup {<<c, TRUE>>}
      BY <2>2, ActiveEffect, HistoricEffect
    <3>2. c \in Active => Sound(<<c, FALSE>>)'
      BY <2>f DEF Sound, Seen, Active
    <3>3. c \in archive => Sound(<<c, TRUE>>)'
      BY <2>f DEF ListInv, Sound, Seen, Active, Expired
    <3>4. \A e \in provider'.list : Sound(e)'
      BY <3>1, <3>2, <3>3, <1>l DEF Sound
    <3>5. list' = list
      BY <2>2 DEF ProviderActive, ProviderHistoric
    <3> QED BY <2>f, <3>4, <3>5, <1>l DEF ListInv, Expired
  <2> QED BY <1>2, <2>1, <2>2 DEF Provider
<1>3. CASE ~(Cleanup \/ Provider)
  <2>1. /\ cleanup' = cleanup /\ provider' = provider
        /\ archive' \subseteq archive /\ list' \subseteq list
    BY <1>3 DEF Next, vars, Create, Quiet, ToggleHistoric, Clear, ClearBegin, ClearTable,
                ClearTableDone, ClearArchive, ClearToggle,
              ClearList, Quit, Stop, StopWrite, DropWrite, Exit
  <2> QED BY <2>1, <1>e, <1>l, <1>x DEF ListInv
<1> QED BY <1>1, <1>2, <1>3

(* What the list shows as historic has left the active table, whatever the *)
(* provider, the cleanup thread and the user interleave.                   *)
THEOREM ListIsSound == Spec => []ListSound
<1>1. Types /\ ListInv => ListSound
  BY DEF ListInv, ListSound, Sound
<1> QED BY <1>1, TypesInit, TypesNext, ListInit, ListNext, PTL DEF Spec

-----------------------------------------------------------------------------
LEMMA ClearInit == Init => ClearInv
BY DEF Init, ClearInv, SweepAfterClear, Seen, Active

LEMMA ClearNext == Types /\ ClearInv /\ [Next]_vars => ClearInv'
<1> SUFFICES ASSUME Types, ClearInv, [Next]_vars PROVE ClearInv'
  OBVIOUS
<1>g. \A c \in Conns : /\ c \in Seen => c \in Seen'
                       /\ c \in Seen \ Active => c \notin Active'
  BY TableStep
<1>s. /\ Seen \subseteq Conns /\ Active \subseteq Seen
      /\ Seen' \subseteq Conns /\ Active' \subseteq Seen'
  BY DEF Seen, Active
<1>c. /\ cleared \subseteq Seen'
      /\ cleared \cap Active' \subseteq cleared \cap Active
      /\ provider.since \subseteq Seen' \ Active'
  BY <1>g, <1>s DEF ClearInv
<1>1. CASE Provider
  <2>f. table' = table /\ main' = main /\ todo' = todo /\ cleared' = cleared
    BY <1>1, ProviderFrame DEF ProviderUnchanged
  <2>1. CASE ProviderCheck \/ ProviderToggle \/ ProviderSwept \/ ProviderPublish
    <3>1. main = "ui" => cleared \subseteq Seen' \ Active'
      BY <1>c DEF ClearInv
    <3>2. provider'.since \subseteq Seen' \ Active'
      BY <2>1, <1>c, <3>1, ProviderTurns
    <3>3. \A e \in provider'.list : e[1] \in provider'.since => e[2]
      BY <2>1, ProviderTurns DEF ClearInv
    <3>4. SweepAfterClear'
      BY <2>1, ProviderTurns DEF ClearInv, SweepAfterClear
    <3> QED BY <2>f, <1>c, <3>2, <3>3, <3>4 DEF ClearInv
  <2>2. ASSUME NEW c \in Conns, ProviderActive(c) \/ ProviderHistoric(c) PROVE ClearInv'
    <3>1. /\ provider'.since = provider.since
          /\ \/ provider'.list = provider.list
             \/ c \in Active /\ provider'.list = provider.list \cup {<<c, FALSE>>}
             \/ provider'.list = provider.list \cup {<<c, TRUE>>}
      BY <2>2, ActiveEffect, HistoricEffect
    <3>2. \A e \in provider'.list : e[1] \in provider'.since => e[2]
      <4> SUFFICES ASSUME NEW e \in provider'.list, e[1] \in provider.since
                   PROVE  e[2]
        BY <3>1
      <4>1. CASE e \in provider.list
        BY <4>1 DEF ClearInv
      <4>2. CASE c \in Active /\ e = <<c, FALSE>>
        BY <4>2 DEF ClearInv
      <4>3. CASE e = <<c, TRUE>>
        BY <4>3
      <4> QED BY <3>1, <4>1, <4>2, <4>3
    <3>3. list' = list /\ sweptSince' = sweptSince
      BY <2>2 DEF ProviderActive, ProviderHistoric
    <3> QED BY <2>f, <1>c, <3>1, <3>2, <3>3 DEF ClearInv, SweepAfterClear
  <2> QED BY <1>1, <2>1, <2>2 DEF Provider
<1>2. CASE Clear
  <2>f. provider' = provider /\ sweptSince' = sweptSince /\ list' \subseteq list
    BY <1>2 DEF Clear, ClearBegin, ClearTable, ClearTableDone, ClearArchive, ClearToggle,
              ClearList
  <2>1. CASE ClearBegin
    BY <2>1, <2>f, <1>c, <1>s DEF ClearBegin, ClearInv, SweepAfterClear, Seen, Active
  <2>2. ASSUME NEW c \in Conns, ClearTable(c) PROVE ClearInv'
    <3>1. /\ main' = "clear_table" /\ main = "clear_table"
          /\ todo' = todo \ {c} /\ cleared' = cleared /\ c \notin Active'
      BY <2>2 DEF ClearTable, Types, Active
    <3> QED BY <3>1, <2>f, <1>c DEF ClearInv, SweepAfterClear
  <2>3. CASE ClearTableDone \/ ClearToggle \/ ClearList \/ \E c \in Conns : ClearArchive(c)
    <3>1. /\ cleared' = cleared /\ main' # "clear_table"
          /\ main = "clear_table" => todo = {}
      BY <2>3 DEF ClearTableDone, ClearToggle, ClearList, ClearArchive
    <3> QED BY <3>1, <2>f, <1>c DEF ClearInv, SweepAfterClear
  <2> QED BY <1>2, <2>1, <2>2, <2>3 DEF Clear
<1>3. CASE ~(Provider \/ Clear)
  <2>1. /\ provider' = provider /\ list' = list /\ sweptSince' = sweptSince
        /\ todo' = todo /\ cleared' = cleared
        /\ \/ main' = main
           \/ main # "clear_table" /\ main' # "clear_table"
    BY <1>3, CleanupFrame DEF CleanupUnchanged, Next, vars, Create, Quiet, ToggleHistoric,
         Quit, Stop, StopWrite, DropWrite, Exit, Quitting
  <2> QED BY <2>1, <1>c DEF ClearInv, SweepAfterClear, Quitting
<1> QED BY <1>1, <1>2, <1>3

(* A sweep begun after a clear returned shows no connection from before it *)
(* as active, however the clear, the sweep before it and new packets       *)
(* interleave.                                                             *)
THEOREM SweepsAfterClear == Spec => []SweepAfterClear
<1>1. ClearInv => SweepAfterClear
  BY DEF ClearInv
<1> QED BY <1>1, TypesInit, TypesNext, ClearInit, ClearNext, PTL DEF Spec

-----------------------------------------------------------------------------
(* What the steps outside the cleanup thread do to the sidecar.            *)
LEMMA SidecarStep ==
  ASSUME Types, [Next]_vars, ~Cleanup
  PROVE  /\ cleanup' = cleanup
         /\ \A c \in Conns : c \in Expired' <=> c \in Expired
         /\ \A c \in Conns : sidecar'[c] >= sidecar[c]
         /\ main \notin Quitting => sidecar' = sidecar
<1>1. CASE StopWrite \/ DropWrite
  <2>1. ASSUME NEW c \in Conns PROVE sidecar'[c] >= sidecar[c]
    <3>1. Lines(c) \in Nat /\ sidecar[c] \in Nat
      BY LinesType DEF Types
    <3>2. sidecar'[c] = sidecar[c] + Lines(c)
      BY <1>1 DEF StopWrite, DropWrite
    <3> QED BY <3>1, <3>2
  <2> QED BY <1>1, <2>1 DEF StopWrite, DropWrite, Quitting, Expired
<1>2. CASE ~(StopWrite \/ DropWrite)
  <2>1. cleanup' = cleanup /\ sidecar' = sidecar
    BY <1>2, ProviderFrame DEF ProviderUnchanged, Next, vars, Create, Quiet, ToggleHistoric,
         Clear, ClearBegin, ClearTable, ClearTableDone, ClearArchive, ClearToggle,
              ClearList, Quit, Stop,
         Exit
  <2>2. \/ table' = table
        \/ \E c \in Conns : table[c] = "unseen" /\ table' = [table EXCEPT ![c] = "active"]
        \/ \E c \in Conns : table[c] = "active" /\ table' = [table EXCEPT ![c] = "cleared"]
    BY <1>2, ProviderFrame DEF ProviderUnchanged, Next, vars, Create, Quiet, ToggleHistoric,
         Clear, ClearBegin, ClearTable, ClearTableDone, ClearArchive, ClearToggle,
              ClearList, Quit, Stop,
         Exit, Active
  <2>3. \A c \in Conns : c \in Expired' <=> c \in Expired
    BY <2>2 DEF Expired, Types
  <2>4. \A c \in Conns : sidecar[c] >= sidecar[c]
    BY DEF Types
  <2> QED BY <2>1, <2>3, <2>4
<1> QED BY <1>1, <1>2

(* What the cleanup thread's step for one connection does.                 *)
LEMMA LogEffect ==
  ASSUME Types, NEW c \in Conns, CleanupArchive(c) \/ CleanupLog(c)
  PROVE  /\ c \in cleanup.todo /\ cleanup'.todo = cleanup.todo \ {c}
         /\ cleanup'.pc = cleanup.pc /\ cleanup'.removed = cleanup.removed
         /\ table' = table
         /\ \/ cleanup.pc = "archive" /\ sidecar' = sidecar
            \/ cleanup.pc = "log" /\ sidecar' = [sidecar EXCEPT ![c] = sidecar[c] + 1]
BY DEF CleanupArchive, CleanupLog, Types, CleanupState

LEMMA LogInit == Init => LogInv
BY DEF Init, LogInv, Expired

LEMMA LogNext == Types /\ LogInv /\ [Next]_vars => LogInv'
<1> SUFFICES ASSUME Types, LogInv, [Next]_vars PROVE LogInv'
  OBVIOUS
<1>x. Expired \subseteq Conns /\ Expired' \subseteq Conns
  BY DEF Expired
<1>1. CASE CleanupCheck \/ CleanupSwept \/ CleanupArchived \/ CleanupDone
  <2>1. table' = table /\ sidecar' = sidecar
    BY <1>1 DEF CleanupCheck, CleanupSwept, CleanupArchived, CleanupDone
  <2> QED BY <1>1, <2>1, CleanupTurns DEF LogInv, Expired
<1>2. ASSUME NEW c \in Conns, CleanupVisit(c) PROVE LogInv'
  <2>1. sidecar' = sidecar /\ cleanup.pc = "retain"
    BY <1>2 DEF CleanupVisit
  <2>2. cleanup'.pc = "retain" /\ cleanup.removed \subseteq cleanup'.removed
    BY <1>2, VisitEffect
  <2>3. c \in Expired' => c \in Expired \/ c \in cleanup'.removed
    BY <1>2, VisitEffect DEF Expired
  <2>4. \A d \in Conns \ {c} : d \in Expired' => d \in Expired
    BY <1>2, VisitEffect DEF Types, Expired
  <2> QED BY <2>1, <2>2, <2>3, <2>4, <1>x DEF LogInv
<1>3. ASSUME NEW c \in Conns, CleanupArchive(c) \/ CleanupLog(c) PROVE LogInv'
  <2>1. \A d \in Conns : sidecar'[d] = 0 =>
          sidecar[d] = 0 /\ (cleanup.pc = "log" => d # c)
    BY <1>3, LogEffect DEF Types
  <2> QED BY <1>3, <2>1, LogEffect DEF LogInv, Expired
<1>4. CASE ~Cleanup
  <2>1. \A c \in Conns : sidecar'[c] = 0 => sidecar[c] = 0
    BY <1>4, SidecarStep, TypesNext DEF Types
  <2> QED BY <1>4, <2>1, <1>x, SidecarStep DEF LogInv
<1> QED BY <1>1, <1>2, <1>3, <1>4 DEF Cleanup

LEMMA OnceInit == Init => OnceInv
BY DEF Init, OnceInv, Quitting

LEMMA OnceNext == Types /\ ListInv /\ OnceInv /\ [Next]_vars => OnceInv'
<1> SUFFICES ASSUME Types, ListInv, OnceInv, [Next]_vars, ~shouldStop' PROVE OnceInv'
  BY DEF OnceInv
<1>s. ~shouldStop /\ main \notin Quitting /\ main' \notin Quitting
  BY CleanupFrame, ProviderFrame
     DEF OnceInv, CleanupUnchanged, ProviderUnchanged, Next, vars, Create, Quiet,
         ToggleHistoric, Clear, ClearBegin, ClearTable, ClearTableDone, ClearArchive,
         ClearToggle, ClearList, Quit, Stop, StopWrite, DropWrite, Exit, Quitting
<1>o. \A c \in Conns :
         /\ sidecar[c] <= 1
         /\ sidecar[c] = 1 => c \in Expired
         /\ c \in cleanup.removed /\ cleanup.pc \in {"retain", "archive"} => sidecar[c] = 0
         /\ c \in cleanup.todo /\ cleanup.pc = "log" => sidecar[c] = 0
  BY <1>s DEF OnceInv
<1>e. \A c \in Conns : c \in Expired => c \in Expired'
  BY TableStep
<1>1. CASE CleanupCheck \/ CleanupSwept \/ CleanupArchived \/ CleanupDone
  <2>1. sidecar' = sidecar
    BY <1>1 DEF CleanupCheck, CleanupSwept, CleanupArchived, CleanupDone
  <2> QED BY <1>1, <1>s, <1>o, <1>e, <2>1, CleanupTurns DEF OnceInv
<1>2. ASSUME NEW c \in Conns, CleanupVisit(c) PROVE OnceInv'
  <2>1. /\ sidecar' = sidecar /\ cleanup.pc = "retain" /\ cleanup'.pc = "retain"
        /\ cleanup'.removed \subseteq cleanup.removed \cup {c}
        /\ cleanup'.removed = cleanup.removed \/ table[c] = "active"
    BY <1>2, VisitEffect DEF CleanupVisit
  <2>2. table[c] = "active" => sidecar[c] = 0
    BY <1>o DEF Types, Expired
  <2> QED BY <1>s, <1>o, <1>e, <2>1, <2>2 DEF OnceInv
<1>3. ASSUME NEW c \in Conns, CleanupArchive(c) \/ CleanupLog(c) PROVE OnceInv'
  <2>1. cleanup.pc \in {"archive", "log"} /\ c \in cleanup.todo
    BY <1>3, LogEffect
  <2>2. c \in Expired
    BY <2>1 DEF ListInv
  <2>3. \A d \in Conns :
          /\ sidecar'[d] <= 1
          /\ sidecar'[d] = 1 => d \in Expired
          /\ (cleanup.pc = "archive" \/ d # c) => sidecar'[d] = sidecar[d]
    BY <1>3, <2>1, <2>2, <1>o, LogEffect DEF Types
  <2> QED BY <1>3, <1>s, <1>o, <1>e, <2>3, LogEffect DEF OnceInv
<1>4. CASE ~Cleanup
  BY <1>4, <1>s, <1>o, SidecarStep DEF OnceInv
<1> QED BY <1>1, <1>2, <1>3, <1>4 DEF Cleanup

(* The cleanup thread never sleeps while a connection it removed has no    *)
(* line in the sidecar, however many clears empty the archive meanwhile.   *)
THEOREM RemovedAreLogged == Spec => []RemovedIsLogged
<1>1. Types /\ LogInv => RemovedIsLogged
  BY DEF Types, LogInv, RemovedIsLogged, Expired
<1> QED BY <1>1, TypesInit, TypesNext, LogInit, LogNext, PTL DEF Spec

(* Until the user quits no connection has two lines in the sidecar.        *)
THEOREM LoggedOnce == Spec => []LoggedOnceSoFar
<1>1. OnceInv => LoggedOnceSoFar
  BY DEF OnceInv, LoggedOnceSoFar
<1> QED BY <1>1, TypesInit, TypesNext, ListInit, ListNext, OnceInit, OnceNext, PTL DEF Spec

=============================================================================
