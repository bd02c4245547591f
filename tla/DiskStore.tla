------------------------------ MODULE DiskStore ------------------------------
(***************************************************************************)
(* One key of the disk cache (crates-io-client, disk.rs: Store::load and   *)
(* Store::store), between the file system calls they make.                 *)
(*                                                                         *)
(* The key has one file name, path, shared by every process, and one       *)
(* temporary name per process, tmp.  Both are links to inodes; a file that *)
(* is open keeps its inode when its name is replaced or removed.  A store  *)
(* creates (or truncates) the temporary file, writes it part by part and   *)
(* renames it; a load opens the file, reads it part by part, and either    *)
(* decodes it or removes the name.  Blocking threads of several processes  *)
(* do these steps in any order, processes die between them, and another    *)
(* process may prune the file.                                             *)
(*                                                                         *)
(* A part of a file is <<layout, artifact, part>>: the layout of the build *)
(* that wrote it (MAGIC, SCHEMA_VERSION and BITCODE_FORMAT), what it is a  *)
(* part of, and which.  A file of layout Alien lacks the magic.            *)
(***************************************************************************)
EXTENDS Naturals, FiniteSets, Sequences

CONSTANTS
  Processes,  \* server processes sharing the directory
  Crews,      \* the blocking threads, <<process, thread>>, that may use this key together
  LayoutOf,   \* the layout each process writes and reads
  Artifacts,  \* what is stored under the key
  Parts,      \* how many writes each artifact takes
  Found,      \* what the file may hold at first: "whole", "cut", "alien"
  Faults,     \* what may go wrong: "fail", "stuck" (a file is not removed), "crash",
              \* "prune"
  Nothing     \* no inode

Alien == 0
Layouts == {LayoutOf[p] : p \in Processes}
Workers == UNION Crews
Home(w) == w[1]

ASSUME StoreConstants ==
  /\ Processes # {} /\ IsFiniteSet(Processes)
  /\ IsFiniteSet(Crews)
  /\ \A c \in Crews : c # {} /\ IsFiniteSet(c) /\ \A w \in c : Home(w) \in Processes
  /\ LayoutOf \in [Processes -> Nat \ {Alien}]
  /\ Parts \in [Artifacts -> Nat \ {0}]
  /\ Found \subseteq {"whole", "cut", "alien"}
  /\ Faults \subseteq {"fail", "stuck", "crash", "prune"}
  /\ Nothing \notin Nat

VARIABLES
  crew,     \* the workers of this run
  path,     \* the inode named by the key, or Nothing
  tmp,      \* the inode named by each process's temporary name, or Nothing
  content,  \* the bytes of each inode
  pc,       \* where each worker is
  job,      \* what a storing worker writes: the whole file
  fd,       \* the inode a worker has open
  got,      \* what a loading worker has read
  opened,   \* history: the bytes of the file when a loading worker opened it
  given     \* history: the files processes were asked to store, or found

vars == <<crew, path, tmp, content, pc, job, fd, got, opened, given>>

\* encode: header and checksummed frame of an artifact.
Whole(layout, artifact) ==
  [i \in 1 .. Parts[artifact] |-> <<layout, artifact, i>>]

Wholes == {Whole(l, a) : l \in Layouts, a \in Artifacts}
Cuts == {<<>>} \cup {SubSeq(f, 1, Len(f) - 1) : f \in Wholes}
Aliens == {<<(<<Alien, a, 1>>)>> : a \in Artifacts}

FirstFiles ==
  (IF "whole" \in Found THEN Wholes ELSE {})
    \cup (IF "cut" \in Found THEN Cuts ELSE {})
    \cup (IF "alien" \in Found THEN Aliens ELSE {})

\* Mutant of Accepts: a file of any layout.
AcceptsAnyLayout(p, raw) ==
  raw \in Wholes

\* decode: the header names this build's layout and the frame's checksum holds.
Accepts(p, raw) ==
  /\ raw # <<>>
  /\ Head(raw)[1] = LayoutOf[p]
  /\ raw \in Wholes

\* As many inodes as names and open files can keep.
Inodes == 1 .. (Cardinality(Processes) + Cardinality(Workers))
Linked == {path} \cup {tmp[p] : p \in Processes} \cup {fd[w] : w \in Workers}
FreshInode == CHOOSE i \in Inodes \ Linked : TRUE

\* pwrite of one part; a gap below it reads as zeroes.
Overwrite(file, i, part) ==
  [k \in 1 .. (IF i > Len(file) THEN i ELSE Len(file)) |->
     IF k = i THEN part ELSE IF k \in DOMAIN file THEN file[k] ELSE <<Alien, Nothing, 0>>]

\* An inode that no name and no open file leads to is gone.
Reclaim ==
  content' = [i \in Inodes |-> IF i \in Linked' THEN content[i] ELSE <<>>]

\* Between calls: none since the process started, a store that returned, well or
\* not, a load that answered.
Rest == {"idle", "stored", "answered"}

Init ==
  /\ crew \in Crews
  /\ \/ path = Nothing /\ content = [i \in Inodes |-> <<>>] /\ given = {}
     \/ \E f \in FirstFiles :
          /\ path = 1
          /\ content = [i \in Inodes |-> IF i = 1 THEN f ELSE <<>>]
          /\ given = {f} \cap Wholes
  /\ tmp = [p \in Processes |-> Nothing]
  /\ pc = [w \in Workers |-> "idle"]
  /\ job = [w \in Workers |-> <<>>]
  /\ fd = [w \in Workers |-> Nothing]
  /\ got = [w \in Workers |-> <<>>]
  /\ opened = [w \in Workers |-> <<>>]

-----------------------------------------------------------------------------
(* Store::store *)

\* A store begins; got is reused to count the parts written.
Store(w) ==
  /\ pc[w] \in Rest
  /\ \E a \in Artifacts :
       LET file == Whole(LayoutOf[Home(w)], a) IN
       /\ job' = [job EXCEPT ![w] = file]
       /\ given' = given \cup {file}
  /\ pc' = [pc EXCEPT ![w] = "create"]
  /\ got' = [got EXCEPT ![w] = <<>>]
  /\ opened' = [opened EXCEPT ![w] = <<>>]
  /\ UNCHANGED <<path, tmp, content, fd>>

\* Mutant of Create: the artifact is written in place.
CreateInPlace(w) ==
  LET inode == IF path = Nothing THEN FreshInode ELSE path IN
  /\ pc[w] = "create"
  /\ path' = inode
  /\ tmp' = [tmp EXCEPT ![Home(w)] = inode]
  /\ fd' = [fd EXCEPT ![w] = inode]
  /\ content' = [content EXCEPT ![inode] = <<>>]
  /\ pc' = [pc EXCEPT ![w] = "write"]
  /\ UNCHANGED <<job, got, opened, given>>

\* Mutant of Create: a temporary file that is there is written over, not truncated.
CreateOver(w) ==
  LET p == Home(w)
      inode == IF tmp[p] = Nothing THEN FreshInode ELSE tmp[p] IN
  /\ pc[w] = "create"
  /\ tmp' = [tmp EXCEPT ![p] = inode]
  /\ fd' = [fd EXCEPT ![w] = inode]
  /\ pc' = [pc EXCEPT ![w] = "write"]
  /\ UNCHANGED <<path, content, job, got, opened, given>>

\* fs::write opens the temporary name, creating or truncating it.
Create(w) ==
  LET p == Home(w)
      inode == IF tmp[p] = Nothing THEN FreshInode ELSE tmp[p] IN
  /\ pc[w] = "create"
  /\ tmp' = [tmp EXCEPT ![p] = inode]
  /\ fd' = [fd EXCEPT ![w] = inode]
  /\ content' = [content EXCEPT ![inode] = <<>>]
  /\ pc' = [pc EXCEPT ![w] = "write"]
  /\ UNCHANGED <<path, job, got, opened, given>>

\* fs::write writes the next part at its own offset.
Write(w) ==
  LET i == Len(got[w]) + 1 IN
  /\ pc[w] = "write"
  /\ i <= Len(job[w])
  /\ content' = [content EXCEPT ![fd[w]] = Overwrite(@, i, job[w][i])]
  /\ got' = [got EXCEPT ![w] = Append(@, job[w][i])]
  /\ UNCHANGED <<path, tmp, pc, job, fd, opened, given>>

Finished(w) ==
  /\ job' = [job EXCEPT ![w] = <<>>]
  /\ fd' = [fd EXCEPT ![w] = Nothing]
  /\ got' = [got EXCEPT ![w] = <<>>]

\* Mutant of Rename: the name moves as soon as the file exists.
RenameEarly(w) ==
  LET p == Home(w) IN
  /\ pc[w] = "write"
  /\ IF tmp[p] = Nothing
       THEN pc' = [pc EXCEPT ![w] = "cleanup"] /\ UNCHANGED <<path, tmp>>
       ELSE /\ path' = tmp[p]
            /\ tmp' = [tmp EXCEPT ![p] = Nothing]
            /\ pc' = [pc EXCEPT ![w] = "stored"]
  /\ Finished(w)
  /\ Reclaim
  /\ UNCHANGED <<opened, given>>

\* fs::rename of the temporary name, if it still exists.
Rename(w) ==
  LET p == Home(w) IN
  /\ pc[w] = "write"
  /\ Len(got[w]) = Len(job[w])
  /\ IF tmp[p] = Nothing
       THEN pc' = [pc EXCEPT ![w] = "cleanup"] /\ UNCHANGED <<path, tmp>>
       ELSE /\ path' = tmp[p]
            /\ tmp' = [tmp EXCEPT ![p] = Nothing]
            /\ pc' = [pc EXCEPT ![w] = "stored"]
  /\ Finished(w)
  /\ Reclaim
  /\ UNCHANGED <<opened, given>>

\* encode, the opening, a write or the rename fails.
Fail(w) ==
  /\ "fail" \in Faults
  /\ pc[w] \in {"create", "write"}
  /\ pc' = [pc EXCEPT ![w] = "cleanup"]
  /\ Finished(w)
  /\ UNCHANGED <<path, tmp, opened, given>>
  /\ Reclaim

\* if outcome.is_err() { let _ = fs::remove_file(&temporary) }: what failed the write
\* may fail this too, and nobody is told.
Cleanup(w) ==
  /\ pc[w] = "cleanup"
  /\ \/ tmp' = [tmp EXCEPT ![Home(w)] = Nothing]
     \/ "stuck" \in Faults /\ UNCHANGED tmp
  /\ pc' = [pc EXCEPT ![w] = "stored"]
  /\ UNCHANGED <<path, job, fd, got, opened, given>>
  /\ Reclaim

\* create_dir_all fails: the store returns before it has a temporary name.
NoDirectory(w) ==
  /\ "fail" \in Faults
  /\ pc[w] = "create"
  /\ pc' = [pc EXCEPT ![w] = "stored"]
  /\ Finished(w)
  /\ UNCHANGED <<path, tmp, opened, given>>
  /\ Reclaim

-----------------------------------------------------------------------------
(* Store::load *)

\* fs::read opens the file; a missing file is a miss and changes nothing.
Load(w) ==
  /\ pc[w] \in Rest
  /\ path # Nothing
  /\ fd' = [fd EXCEPT ![w] = path]
  /\ opened' = [opened EXCEPT ![w] = content[path]]
  /\ got' = [got EXCEPT ![w] = <<>>]
  /\ pc' = [pc EXCEPT ![w] = "read"]
  /\ UNCHANGED <<path, tmp, content, job, given>>

\* fs::read reads on to the end of the open file.
Read(w) ==
  LET i == Len(got[w]) + 1 IN
  /\ pc[w] = "read"
  /\ i <= Len(content[fd[w]])
  /\ got' = [got EXCEPT ![w] = Append(@, content[fd[w]][i])]
  /\ UNCHANGED <<path, tmp, content, pc, job, fd, opened, given>>

\* decode answers or rejects what was read.
Decode(w) ==
  /\ pc[w] = "read"
  /\ Len(got[w]) >= Len(content[fd[w]])
  /\ pc' = [pc EXCEPT ![w] = IF Accepts(Home(w), got[w]) THEN "answered" ELSE "discard"]
  /\ fd' = [fd EXCEPT ![w] = Nothing]
  /\ UNCHANGED <<path, tmp, job, got, opened, given>>
  /\ Reclaim

\* fs::read fails half-way: a miss.
ReadFails(w) ==
  /\ "fail" \in Faults
  /\ pc[w] = "read"
  /\ pc' = [pc EXCEPT ![w] = "idle"]
  /\ Finished(w)
  /\ opened' = [opened EXCEPT ![w] = <<>>]
  /\ UNCHANGED <<path, tmp, given>>
  /\ Reclaim

\* let _ = fs::remove_file(&path): the name, whatever it names by now.
Discard(w) ==
  /\ pc[w] = "discard"
  /\ \/ path' = Nothing
     \/ "stuck" \in Faults /\ UNCHANGED path
  /\ pc' = [pc EXCEPT ![w] = "idle"]
  /\ got' = [got EXCEPT ![w] = <<>>]
  /\ opened' = [opened EXCEPT ![w] = <<>>]
  /\ UNCHANGED <<tmp, job, fd, given>>
  /\ Reclaim

-----------------------------------------------------------------------------
(* The world around *)

\* A process dies; the next process to use its id finds its temporary file.
Crash(p) ==
  /\ "crash" \in Faults
  /\ \E w \in crew : Home(w) = p /\ pc[w] # "idle"
  /\ pc' = [w \in Workers |-> IF Home(w) = p THEN "idle" ELSE pc[w]]
  /\ job' = [w \in Workers |-> IF Home(w) = p THEN <<>> ELSE job[w]]
  /\ fd' = [w \in Workers |-> IF Home(w) = p THEN Nothing ELSE fd[w]]
  /\ got' = [w \in Workers |-> IF Home(w) = p THEN <<>> ELSE got[w]]
  /\ opened' = [w \in Workers |-> IF Home(w) = p THEN <<>> ELSE opened[w]]
  /\ UNCHANGED <<path, tmp, given>>
  /\ Reclaim

\* Some process prunes the directory and this entry is among the oldest.
Prune ==
  /\ "prune" \in Faults
  /\ path # Nothing
  /\ path' = Nothing
  /\ UNCHANGED <<tmp, pc, job, fd, got, opened, given>>
  /\ Reclaim

Next ==
  /\ \/ \E w \in crew :
          \/ Store(w) \/ Create(w) \/ Write(w) \/ Rename(w) \/ Fail(w) \/ Cleanup(w)
          \/ NoDirectory(w)
          \/ Load(w) \/ Read(w) \/ ReadFails(w) \/ Decode(w) \/ Discard(w)
     \/ \E p \in Processes : Crash(p)
     \/ Prune
  /\ UNCHANGED crew

Spec == Init /\ [][Next]_vars

-----------------------------------------------------------------------------
(* Properties *)

\* No two workers of the crew share a temporary name.
Apart == \A v, w \in crew : v # w => Home(v) # Home(w)

\* Every name and every open file has an inode, and workers are in known places.
TypeOK ==
  /\ crew \in Crews
  /\ path \in Inodes \cup {Nothing}
  /\ tmp \in [Processes -> Inodes \cup {Nothing}]
  /\ DOMAIN content = Inodes
  /\ pc \in [Workers -> Rest \cup {"create", "write", "cleanup", "read", "discard"}]
  /\ job \in [Workers -> Wholes \cup {<<>>}]
  /\ fd \in [Workers -> Inodes \cup {Nothing}]
  /\ DOMAIN got = Workers /\ DOMAIN opened = Workers
  /\ given \subseteq Wholes
  /\ \A w \in Workers : pc[w] \in {"write", "read"} <=> fd[w] # Nothing

\* "A damaged cache costs a refetch and can never produce a wrong answer":
\* what a load returns is, to the last part, a file its own layout was asked
\* to store - however many threads, processes and builds share the key, and
\* whatever failed half-way (disk.rs decode, and the frame checksum).
NoWrongAnswer ==
  \A w \in crew : pc[w] = "answered" =>
    /\ got[w] \in given
    /\ Head(got[w])[1] = LayoutOf[Home(w)]

\* Among processes of one thread each, a load reads one version of the file, the
\* one it opened, although others replace, remove and prune the name while it
\* reads: so a load takes effect at one instant (disk.rs load, against store's
\* rename).
LoadsAtomically ==
  Apart => \A w \in crew : pc[w] \in {"answered", "discard"} => got[w] = opened[w]

\* Among processes of one thread each, a store that reports success has given the
\* key's name exactly the artifact it was asked to store, whatever an earlier store
\* under the same temporary name left behind: one that could not remove its file, or
\* whose process died and left its id to another (disk.rs store, truncation and
\* rename).
StoresLand ==
  [][Apart => \A w \in crew :
       pc[w] = "write" /\ pc'[w] = "stored" => path' # Nothing /\ content'[path'] = job[w]]_vars

\* The name of the key always leads to a whole artifact, once whole: "a reader
\* only ever sees a name that arrived there whole, by rename" (disk.rs store).
PathWhole == path # Nothing => content[path] \in Wholes

\* For processes of one thread each the key behaves as a cell that is only ever
\* replaced whole or dropped (disk.rs: "replacing any previous one atomically").
Cell == INSTANCE DiskCell WITH
  Artifacts <- Wholes,
  Initial <- FirstFiles,
  Empty <- Nothing,
  cell <- IF path = Nothing \/ ~Apart THEN Nothing ELSE content[path]
ImplementsCell == Cell!Spec
=============================================================================
