----------------------------- MODULE MemoryIndex -----------------------------
(***************************************************************************)
(* The index of the memory files: EmbeddedMemoryManager with its default   *)
(* source, which is kept up by a watcher, by searches, by forced syncs     *)
(* and, when intervalMinutes is set (by default it is not), by an          *)
(* interval.  One sync runs at a time; whoever asks for another gets the   *)
(* one that runs.  Files change while it reads them.                       *)
(*                                                                         *)
(* The content of a file is the number of the edit that wrote it, 0 when   *)
(* there is no file: no content comes back.  (One that does while its      *)
(* other version is being indexed keeps the wrong chunks under the right   *)
(* hash.)                                                                  *)
(***************************************************************************)
EXTENDS Naturals, FiniteSets

CONSTANTS
  Files,          \* memory files of a workspace
  MaxFileEdits    \* bound: writes and deletions of files

ASSUME IndexAssumption == MaxFileEdits \in Nat

VARIABLES
  disk,        \* content of a file
  index,       \* its row in files (hash) and its chunks (text)
  hasMeta,     \* the index has metadata of this provider
  dirty,
  noticed,     \* the watcher has an event to deliver
  watchTimer,
  syncAt,      \* idle, listing, indexing
  reindex,        \* needsFullReindex of the sync under way
  listed,      \* its entries: the hash of a file when it was listed
  todo,        \* the entries not yet compared with the index
  fileEdits

syncVars  == <<syncAt, reindex, listed, todo>>
indexVars == <<disk, index, hasMeta, dirty, noticed, watchTimer, syncVars, fileEdits>>

Content == 0..MaxFileEdits
Unindexed   == [hash |-> 0, text |-> 0]

IndexInit ==
  /\ disk = [f \in Files |-> 0]
  /\ index = [f \in Files |-> Unindexed]
  /\ hasMeta = FALSE /\ dirty = TRUE
  /\ noticed = FALSE /\ watchTimer = FALSE
  /\ syncAt = "idle" /\ reindex = FALSE
  /\ listed = disk /\ todo = {}
  /\ fileEdits = 0

\* A tool or the user writes a file, or deletes it.
EditFile(f) ==
  /\ fileEdits < MaxFileEdits /\ fileEdits' = fileEdits + 1
  /\ \/ disk' = [disk EXCEPT ![f] = fileEdits']
     \/ disk[f] # 0 /\ disk' = [disk EXCEPT ![f] = 0]
  /\ noticed' = TRUE
  /\ UNCHANGED <<index, hasMeta, dirty, watchTimer, syncVars>>

\* The watcher's callback: markDirty, and the timer starts again.
Notice ==
  /\ noticed /\ noticed' = FALSE
  /\ dirty' = TRUE /\ watchTimer' = TRUE
  /\ UNCHANGED <<disk, index, hasMeta, syncVars, fileEdits>>

\* sync, and runSync up to its first await; a sync under way is returned.
Sync(force) ==
  IF syncAt # "idle" THEN UNCHANGED <<index, syncVars>>
  ELSE /\ syncAt' = "listing"
       /\ reindex' = (force \/ ~hasMeta)
       /\ index' = IF reindex' THEN [f \in Files |-> Unindexed] ELSE index
       /\ UNCHANGED <<listed, todo>>

WatchTimer ==
  /\ watchTimer /\ watchTimer' = FALSE
  /\ Sync(FALSE)
  /\ UNCHANGED <<disk, hasMeta, dirty, noticed, fileEdits>>

\* Every search warms the session, which by default (onSessionStart) syncs; so
\* does the interval, if there is one.
Search ==
  /\ syncAt = "idle" /\ Sync(FALSE)
  /\ UNCHANGED <<disk, hasMeta, dirty, noticed, watchTimer, fileEdits>>

\* A sync that is asked for with force.
ForcedSync ==
  /\ syncAt = "idle" /\ Sync(TRUE)
  /\ UNCHANGED <<disk, hasMeta, dirty, noticed, watchTimer, fileEdits>>

\* Variant: a clean index has nothing to list.
ListIfDirty ==
  /\ syncAt = "listing"
  /\ listed' = IF dirty \/ reindex THEN disk ELSE [f \in Files |-> index[f].hash]
  /\ todo' = IF dirty \/ reindex THEN {f \in Files : disk[f] # 0} ELSE {}
  /\ syncAt' = "indexing"
  /\ UNCHANGED <<disk, index, hasMeta, dirty, noticed, watchTimer, reindex, fileEdits>>

\* listMemoryFiles and buildFileEntry of each, whatever dirty says.
List ==
  /\ syncAt = "listing"
  /\ listed' = disk
  /\ todo' = {f \in Files : disk[f] # 0}
  /\ syncAt' = "indexing"
  /\ UNCHANGED <<disk, index, hasMeta, dirty, noticed, watchTimer, reindex, fileEdits>>

\* An entry: skipped when its hash is the indexed one; else the file is read
\* again, and recorded under the hash of the listing.
Compare(f) ==
  /\ syncAt = "indexing" /\ f \in todo
  /\ todo' = todo \ {f}
  /\ \/ ~reindex /\ index[f].hash = listed[f] /\ UNCHANGED index
     \/ /\ reindex \/ index[f].hash # listed[f]
        /\ disk[f] # 0
        /\ index' = [index EXCEPT ![f] = [hash |-> listed[f], text |-> disk[f]]]
  /\ UNCHANGED <<disk, hasMeta, dirty, noticed, watchTimer, syncAt, reindex, listed,
                 fileEdits>>

\* It throws: the file is gone, or the provider fails.  The flags stay.
CompareFails(f) ==
  /\ syncAt = "indexing" /\ f \in todo
  /\ reindex \/ index[f].hash # listed[f]
  /\ syncAt' = "idle" /\ todo' = {}
  /\ UNCHANGED <<disk, index, hasMeta, dirty, noticed, watchTimer, reindex, listed, fileEdits>>

ProviderFails == \E f \in Files : disk[f] # 0 /\ CompareFails(f)

\* Rows of files that were not listed are deleted; the index is clean.
SyncEnds ==
  /\ syncAt = "indexing" /\ todo = {}
  /\ index' = [f \in Files |-> IF listed[f] = 0 THEN Unindexed ELSE index[f]]
  /\ dirty' = FALSE /\ hasMeta' = TRUE
  /\ syncAt' = "idle"
  /\ UNCHANGED <<disk, noticed, watchTimer, reindex, listed, todo, fileEdits>>

IndexNext ==
  \/ \E f \in Files : EditFile(f) \/ Compare(f) \/ CompareFails(f)
  \/ Notice
  \/ WatchTimer
  \/ Search
  \/ ForcedSync
  \/ List
  \/ SyncEnds

IndexSpec == IndexInit /\ [][IndexNext]_indexVars

\* The awaits of a sync settle.  Nobody has to search.
IndexFairness ==
  WF_indexVars(List \/ SyncEnds \/ \E f \in Files : Compare(f) \/ CompareFails(f))

---------------------------------------------------------------------------
(* Properties.                                                             *)

IndexTypeOK ==
  /\ disk \in [Files -> Content] /\ listed \in [Files -> Content]
  /\ index \in [Files -> [hash : Content, text : Content]]
  /\ {hasMeta, dirty, noticed, watchTimer, reindex} \subseteq BOOLEAN
  /\ syncAt \in {"idle", "listing", "indexing"} /\ todo \subseteq Files
  /\ fileEdits \in 0..MaxFileEdits

\* Once nobody edits the files, what is found between syncs is what they say, if
\* searches (or an interval) go on asking for syncs and the provider does not go
\* on failing: an edit while the files are read, a sync that was already running
\* when the watcher asked, a cleared dirty flag, a forced sync and one that failed
\* are all made up for by a later sync.  Without a search they need not be: the
\* watcher asks once, and is given the sync that runs.
IndexCatchesUp ==
  []<><<Search>>_indexVars
  => \/ []<><<ProviderFails>>_indexVars
     \/ <>[](syncAt = "idle" => \A f \in Files : index[f].text = disk[f])
===========================================================================
