------------------------------ MODULE DiskPrune ------------------------------
(***************************************************************************)
(* Pruning the disk cache (crates-io-client, disk.rs: Store::prune, run    *)
(* once by every process that starts), between its file system calls.      *)
(*                                                                         *)
(* A pruner lists the directory one entry at a time, adds up what it saw,  *)
(* and, when that is over the capacity, removes the files it saw, oldest   *)
(* first, until its own sum fits.  Processes start together and prune the  *)
(* same directory, stores replace files under it, some files cannot be     *)
(* looked at, some cannot be removed, and the listing itself may fail.     *)
(* Only entries named .mcpc are counted and removed: temporary files are   *)
(* passed over, and are not in this module.                                *)
(***************************************************************************)
EXTENDS Naturals, FiniteSets, Sequences, FiniteSetsExt

CONSTANTS
  Pruners,   \* processes that prune
  Keys,      \* file names of entries (*.mcpc)
  Sizes,     \* the sizes a file may have
  Capacity,  \* disk_cache_capacity_bytes
  Stuck,     \* entries the file system refuses to remove
  Veiled,    \* entries whose metadata may be unreadable although they are there
  MaxStores  \* bound: stores during a run

ASSUME PruneConstants ==
  /\ IsFiniteSet(Keys)
  /\ Sizes \subseteq Nat \ {0}
  /\ Capacity \in Nat
  /\ Stuck \subseteq Keys /\ Veiled \subseteq Keys
  /\ MaxStores \in Nat

Absent == [size |-> 0, modified |-> 0]

VARIABLES
  file,     \* the file of each key, or Absent
  stage,    \* where each pruner is
  unseen,   \* the names read_dir has yet to yield, per pruner
  entries,  \* what each pruner saw: key -> size and modification time
  total,    \* each pruner's running sum
  beyond,   \* history: keys stored since each pruner began, or it could not look at
  stores    \* stores so far (to bound the run)

pruneVars == <<file, stage, unseen, entries, total, beyond, stores>>

Present == {k \in Keys : file[k] # Absent}

\* The bytes of files: each of them with each offset into it.
Bytes(keys) == UNION {{k} \X (1 .. file[k].size) : k \in keys}
SizeOf(keys) == Cardinality(Bytes(keys))

Newest == Max({file[k].modified : k \in Keys} \cup {0})

\* Files found at start: any of them, written at any order of times.
PruneInit ==
  /\ \E found \in SUBSET Keys :
       file \in {f \in [Keys -> {Absent} \cup [size : Sizes, modified : 1 .. Cardinality(Keys)]] :
                   \A k \in Keys : f[k] # Absent <=> k \in found}
  /\ stage = [p \in Pruners |-> "idle"]
  /\ unseen = [p \in Pruners |-> {}]
  /\ entries = [p \in Pruners |-> <<>>]
  /\ total = [p \in Pruners |-> 0]
  /\ beyond = [p \in Pruners |-> {}]
  /\ stores = 0

\* fs::read_dir: every name present now will be yielded, or found gone.
Begin(p) ==
  /\ stage[p] = "idle"
  /\ stage' = [stage EXCEPT ![p] = "list"]
  /\ unseen' = [unseen EXCEPT ![p] = Present]
  /\ UNCHANGED <<file, entries, total, beyond, stores>>

\* read_dir, or an entry of it, is an error: the prune ends and removes nothing.
GiveUp(p) ==
  /\ stage[p] \in {"idle", "list"}
  /\ stage' = [stage EXCEPT ![p] = "failed"]
  /\ UNCHANGED <<file, unseen, entries, total, beyond, stores>>

\* The metadata of an entry cannot be read though it is there: it is passed over.
PassOver(p) ==
  /\ stage[p] = "list"
  /\ \E k \in unseen[p] \cap Veiled :
       /\ file[k] # Absent
       /\ unseen' = [unseen EXCEPT ![p] = @ \ {k}]
       /\ beyond' = [beyond EXCEPT ![p] = @ \cup {k}]
  /\ UNCHANGED <<file, stage, entries, total, stores>>

\* The next entry, if it is still there.
List(p) ==
  /\ stage[p] = "list"
  /\ \E k \in unseen[p] :
       /\ unseen' = [unseen EXCEPT ![p] = @ \ {k}]
       /\ IF file[k] = Absent
            THEN UNCHANGED <<entries, total>>
            ELSE /\ entries' = [entries EXCEPT ![p] =
                      [e \in DOMAIN @ \cup {k} |-> IF e = k THEN file[k] ELSE @[e]]]
                 /\ total' = [total EXCEPT ![p] = @ + file[k].size]
  /\ UNCHANGED <<file, stage, beyond, stores>>

\* The listing ends.
Listed(p) ==
  /\ stage[p] = "list"
  /\ unseen[p] = {}
  /\ stage' = [stage EXCEPT ![p] = IF total[p] <= Capacity THEN "done" ELSE "remove"]
  /\ UNCHANGED <<file, unseen, entries, total, beyond, stores>>

\* Mutant of Oldest: the entries stay in the order they were listed.
AnyEntry(p) == DOMAIN entries[p]

Oldest(p) ==
  {k \in DOMAIN entries[p] :
     \A l \in DOMAIN entries[p] : entries[p][k].modified <= entries[p][l].modified}

\* Mutant of Unlink: the sum is taken down even when the removal fails.
UnlinkHopefully(p, k) ==
  LET gone == file[k] # Absent /\ k \notin Stuck IN
  /\ file' = IF gone THEN [file EXCEPT ![k] = Absent] ELSE file
  /\ total' = [total EXCEPT ![p] = @ - entries[p][k].size]

\* fs::remove_file by name; a failure is skipped and leaves the sum alone.
Unlink(p, k) ==
  LET gone == file[k] # Absent /\ k \notin Stuck IN
  /\ file' = IF gone THEN [file EXCEPT ![k] = Absent] ELSE file
  /\ total' = [total EXCEPT ![p] = IF gone THEN @ - entries[p][k].size ELSE @]

\* Mutant of Over: one file more than needed.
OverOrFull(p) == total[p] >= Capacity

Over(p) == total[p] > Capacity

\* The next of the sorted entries is removed or skipped.
Remove(p) ==
  /\ stage[p] = "remove"
  /\ Over(p)
  /\ \E k \in Oldest(p) :
       /\ Unlink(p, k)
       /\ entries' = [entries EXCEPT ![p] = [e \in DOMAIN @ \ {k} |-> @[e]]]
  /\ UNCHANGED <<stage, unseen, beyond, stores>>

\* The sum fits, or there is nothing left to remove.
Finish(p) ==
  /\ stage[p] = "remove"
  /\ ~Over(p) \/ DOMAIN entries[p] = {}
  /\ stage' = [stage EXCEPT ![p] = "done"]
  /\ UNCHANGED <<file, unseen, entries, total, beyond, stores>>

\* A store renames a new file over a key (DiskStore.tla has the steps); a name
\* that is new may or may not be yielded by a listing under way.
StoreFile ==
  /\ stores < MaxStores
  /\ \E k \in Keys, s \in Sizes :
       /\ file' = [file EXCEPT ![k] = [size |-> s, modified |-> Newest + 1]]
       /\ beyond' = [p \in Pruners |-> IF stage[p] = "idle" THEN beyond[p] ELSE beyond[p] \cup {k}]
       /\ \E seen \in SUBSET {p \in Pruners : stage[p] = "list" /\ k \notin DOMAIN entries[p]} :
            unseen' = [p \in Pruners |-> IF p \in seen THEN unseen[p] \cup {k} ELSE unseen[p]]
  /\ stores' = stores + 1
  /\ UNCHANGED <<stage, entries, total>>

Step(p) ==
  \/ Begin(p) \/ GiveUp(p) \/ List(p) \/ PassOver(p) \/ Listed(p) \/ Remove(p) \/ Finish(p)

PruneNext == (\E p \in Pruners : Step(p)) \/ StoreFile

PruneSpec == PruneInit /\ [][PruneNext]_pruneVars

-----------------------------------------------------------------------------
(* Properties *)

\* Files have sizes and times; a pruner never holds an entry it has yet to list.
PruneTypeOK ==
  /\ file \in [Keys -> {Absent} \cup [size : Sizes, modified : Nat \ {0}]]
  /\ stage \in [Pruners -> {"idle", "list", "remove", "done", "failed"}]
  /\ \A p \in Pruners :
       /\ unseen[p] \cup DOMAIN entries[p] \subseteq Keys
       /\ unseen[p] \cap DOMAIN entries[p] = {}
       /\ total[p] \in Nat
       /\ beyond[p] \subseteq Keys

\* A prune that does not fail has done its work: what is left of the files it could
\* look at fits in the capacity, however many others pruned at the same time, unless
\* files that cannot be removed are all that is left.  Files stored while it ran are
\* not its concern (disk.rs prune; lib.rs with_ttl).
Fits ==
  \A p \in Pruners : stage[p] = "done" =>
    LET kept == Present \ beyond[p] IN
    SizeOf(kept) <= Capacity \/ kept \subseteq Stuck

\* Alone, a pruner spends no more than it must: while no other prunes, nothing is
\* stored and nothing is passed over it removes only as long as the directory is over
\* the capacity, which it knows by its own sum alone (disk.rs prune, the check before
\* each removal).  Two at once remove more: see the README.
OnlyWhenOver ==
  [][\A p \in Pruners :
       (/\ Remove(p) /\ file' # file
        /\ beyond[p] = {}
        /\ \A q \in Pruners \ {p} : stage[q] = "idle")
       => SizeOf(Present) > Capacity]_pruneVars

\* A pruner never removes a file while it keeps an older one that it could look at and
\* could remove, though others remove and replace files between its listing and its
\* removals (disk.rs prune, the sort by modification time).
OldestFirst ==
  [][\A p \in Pruners : Remove(p) => \A k, l \in Keys \ (beyond[p] \cup Stuck) :
       file'[k] # file[k] /\ file'[l] # Absent => file[l].modified >= file[k].modified]_pruneVars
=============================================================================
