----------------------------- MODULE DiskProofs -----------------------------
(***************************************************************************)
(* What the disk cache answers, and what a prune of it removes, for any    *)
(* number of processes, threads, builds, files and sizes, artifacts of any *)
(* length, and whichever faults the constants allow.                       *)
(*                                                                         *)
(* One key (DiskStore).  Threads of one process share a temporary name, so *)
(* a file may well be torn: written by two of them at once, renamed        *)
(* half-way, truncated while it is read.  The argument does not say        *)
(* otherwise.  It says what a file can be torn into: every part of it was  *)
(* part of something some process was asked to store (Clean), or the file  *)
(* was found at the start and nobody writes to it (Harmless).  What a      *)
(* reader has read is made of the same.  A file that is whole, as its      *)
(* checksum says, is known by any one of its parts; so what decodes is     *)
(* what was stored.                                                        *)
(*                                                                         *)
(* The directory (DiskPrune).  A pruner decides by what it listed, while   *)
(* others remove and replace the files.  The induction says what its list  *)
(* is still worth: of a file that nobody stored since, the list tells the  *)
(* truth or the file is gone (Remembered), and a file that is there is in  *)
(* the list, or still to be listed, or it was tried and could not be       *)
(* removed (Covered).                                                      *)
(***************************************************************************)
EXTENDS DiskStore, DiskPrune, FiniteSetTheorems, TLAPS

\* The bytes under a part that nobody has written yet.
Gap == <<Alien, Nothing, 0>>
AllParts == (Layouts \cup {Alien}) \X (Artifacts \cup {Nothing}) \X Nat
Files == Seq(AllParts)

PartsOf(raw) == {raw[k] : k \in DOMAIN raw}
Written == (UNION {PartsOf(raw) : raw \in given}) \cup {Gap}

FromStores(raw) == \A k \in DOMAIN raw : raw[k] \in Written

Harmless == {raw \in FirstFiles : raw \in Wholes => raw \in given}

\* Somebody has a name or an open file to write to this inode.
Writable(i) ==
  \/ \E p \in Processes : tmp[p] = i
  \/ \E w \in Workers : pc[w] = "write" /\ fd[w] = i

Clean(i) == FromStores(content[i])

InodeOK(i) == Clean(i) \/ (content[i] \in Harmless /\ ~Writable(i))

StorerOK(w) == pc[w] \in {"create", "write"} => job[w] \in given

\* A reader of a clean file has read clean parts; a reader of a file that was found
\* has read its beginning.
ReaderOK(w) ==
  pc[w] = "read" =>
    IF Clean(fd[w])
      THEN FromStores(got[w])
      ELSE /\ Len(got[w]) <= Len(content[fd[w]])
           /\ \A k \in 1 .. Len(got[w]) : got[w][k] = content[fd[w]][k]

AnswerOK(w) ==
  pc[w] = "answered" => got[w] \in given /\ Head(got[w])[1] = LayoutOf[Home(w)]

Typed ==
  /\ crew \in Crews
  /\ path \in Inodes \cup {Nothing}
  /\ tmp \in [Processes -> Inodes \cup {Nothing}]
  /\ content \in [Inodes -> Files]
  /\ pc \in [Workers -> Rest \cup {"create", "write", "cleanup", "read", "discard"}]
  /\ job \in [Workers -> Files]
  /\ fd \in [Workers -> Inodes \cup {Nothing}]
  /\ got \in [Workers -> Files]
  /\ given \subseteq Wholes
  /\ \A w \in Workers : pc[w] \in {"write", "read"} <=> fd[w] # Nothing

IInv ==
  /\ Typed
  /\ \A i \in Inodes : InodeOK(i)
  /\ \A w \in Workers : StorerOK(w) /\ ReaderOK(w) /\ AnswerOK(w)

-----------------------------------------------------------------------------
(* Files and their parts *)

\* A whole file is made of parts, the first of which names it.
LEMMA WholeFacts ==
  ASSUME NEW raw \in Wholes
  PROVE  /\ raw \in Files
         /\ 1 \in DOMAIN raw /\ raw # <<>>
         /\ \E l \in Layouts, a \in Artifacts :
              /\ raw = Whole(l, a)
              /\ \A i \in DOMAIN raw : raw[i] = <<l, a, i>>
<1>1. PICK l \in Layouts, a \in Artifacts : raw = Whole(l, a)
  BY DEF Wholes
<1>2. Parts[a] \in Nat \ {0}
  BY StoreConstants
<1>3. raw = [i \in 1 .. Parts[a] |-> <<l, a, i>>]
  BY <1>1 DEF Whole
<1>4. \A i \in 1 .. Parts[a] : <<l, a, i>> \in AllParts
  BY DEF AllParts
<1>5. raw \in Files
  BY <1>2, <1>3, <1>4 DEF Files
<1>6. 1 \in DOMAIN raw /\ raw # <<>>
  BY <1>2, <1>3
<1> QED
  BY <1>1, <1>3, <1>5, <1>6

\* A whole file made of parts of stored files is a stored file.
LEMMA KnownByItsParts ==
  ASSUME given \subseteq Wholes, NEW raw \in Wholes, FromStores(raw)
  PROVE  raw \in given
<1>1. PICK l \in Layouts, a \in Artifacts : /\ raw = Whole(l, a)
                                            /\ \A i \in DOMAIN raw : raw[i] = <<l, a, i>>
  BY WholeFacts
<1>2. 1 \in DOMAIN raw /\ raw[1] = <<l, a, 1>>
  BY <1>1, WholeFacts
<1>3. raw[1] \in Written
  BY <1>2 DEF FromStores
<1>4. raw[1] # Gap
  BY <1>2 DEF Gap
<1>5. PICK other \in given : raw[1] \in PartsOf(other)
  BY <1>3, <1>4 DEF Written
<1>6. PICK i \in DOMAIN other : raw[1] = other[i]
  BY <1>5 DEF PartsOf
<1>7. PICK m \in Layouts, b \in Artifacts : /\ other = Whole(m, b)
                                            /\ \A j \in DOMAIN other : other[j] = <<m, b, j>>
  BY WholeFacts
<1>8. m = l /\ b = a
  BY <1>2, <1>6, <1>7
<1> QED
  BY <1>1, <1>5, <1>7, <1>8

\* The parts of a stored file are written ones.
LEMMA StoredParts ==
  ASSUME NEW raw \in given
  PROVE  FromStores(raw)
  BY DEF FromStores, Written, PartsOf

\* The files found at the start are made of parts.
LEMMA FoundFiles == FirstFiles \subseteq Files
<1>1. Wholes \subseteq Files
  BY WholeFacts
<1>2. Cuts \subseteq Files
  <2>1. ASSUME NEW raw \in Wholes PROVE SubSeq(raw, 1, Len(raw) - 1) \in Files
    BY <1>1, WholeFacts DEF Files
  <2>2. <<>> \in Files
    BY DEF Files
  <2> QED BY <2>1, <2>2 DEF Cuts
<1>3. Aliens \subseteq Files
  <2>1. ASSUME NEW a \in Artifacts PROVE <<(<<Alien, a, 1>>)>> \in Files
    <3>1. <<Alien, a, 1>> \in AllParts
      BY DEF AllParts
    <3> QED BY <3>1 DEF Files
  <2> QED BY <2>1 DEF Aliens
<1> QED
  BY <1>1, <1>2, <1>3 DEF FirstFiles

-----------------------------------------------------------------------------
(* There is always an inode to take *)

\* There are finitely many workers and processes.
LEMMA FinitelyMany ==
  /\ IsFiniteSet(Processes) /\ Cardinality(Processes) \in Nat
  /\ IsFiniteSet(Workers) /\ Cardinality(Workers) \in Nat
  BY StoreConstants, FS_UNION, FS_CardinalityType DEF Workers

\* A worker that creates a file without a temporary one finds a free inode.
LEMMA FreeInode ==
  ASSUME Typed, NEW w \in Workers, pc[w] = "create", tmp[Home(w)] = Nothing
  PROVE  FreshInode \in Inodes \ Linked
<1> DEFINE p == Home(w)
           Names == {tmp[q] : q \in Processes \ {p}}
           Opens == {fd[v] : v \in Workers \ {w}}
           Taken == (Names \cup Opens) \cup {path}
<1>1. p \in Processes
  BY StoreConstants DEF Workers
<1>2. IsFiniteSet(Names) /\ Cardinality(Names) <= Cardinality(Processes) - 1 /\ Cardinality(Names) \in Nat
  <2>1. [q \in Processes \ {p} |-> tmp[q]] \in Surjection(Processes \ {p}, Names)
    BY DEF Surjection
  <2>2. IsFiniteSet(Processes \ {p}) /\ Cardinality(Processes \ {p}) = Cardinality(Processes) - 1
    BY <1>1, FinitelyMany, FS_RemoveElement
  <2> QED BY <2>1, <2>2, FS_Surjection, FS_CardinalityType
<1>3. IsFiniteSet(Opens) /\ Cardinality(Opens) <= Cardinality(Workers) - 1 /\ Cardinality(Opens) \in Nat
  <2>1. [v \in Workers \ {w} |-> fd[v]] \in Surjection(Workers \ {w}, Opens)
    BY DEF Surjection
  <2>2. IsFiniteSet(Workers \ {w}) /\ Cardinality(Workers \ {w}) = Cardinality(Workers) - 1
    BY FinitelyMany, FS_RemoveElement
  <2> QED BY <2>1, <2>2, FS_Surjection, FS_CardinalityType
<1> HIDE DEF Names, Opens
<1>4. IsFiniteSet(Taken) /\ Cardinality(Taken) <= Cardinality(Names) + Cardinality(Opens) + 1
  <2>1. IsFiniteSet(Names \cup Opens) /\ Cardinality(Names \cup Opens) <= Cardinality(Names) + Cardinality(Opens)
        /\ Cardinality(Names \cup Opens) \in Nat
    <3>1. /\ IsFiniteSet(Names \cup Opens)
          /\ Cardinality(Names \cup Opens)
               = Cardinality(Names) + Cardinality(Opens) - Cardinality(Names \cap Opens)
      BY <1>2, <1>3, FS_Union
    <3>2. Cardinality(Names \cap Opens) \in Nat /\ Cardinality(Names \cup Opens) \in Nat
      BY <1>2, <3>1, FS_Intersection, FS_CardinalityType
    <3> QED BY <1>2, <1>3, <3>1, <3>2
  <2>2. /\ IsFiniteSet(Taken)
        /\ Cardinality(Taken) = IF path \in Names \cup Opens THEN Cardinality(Names \cup Opens)
                                                           ELSE Cardinality(Names \cup Opens) + 1
    BY <2>1, FS_AddElement
  <2> QED BY <1>2, <1>3, <2>1, <2>2
<1>5. Cardinality(Inodes) = Cardinality(Processes) + Cardinality(Workers)
  BY FinitelyMany, FS_Interval DEF Inodes
<1>6. ~(Inodes \subseteq Taken)
  <2> SUFFICES ASSUME Inodes \subseteq Taken PROVE FALSE
    OBVIOUS
  <2>1. Cardinality(Inodes) <= Cardinality(Taken)
    BY <1>4, FS_Subset
  <2>2. Cardinality(Taken) \in Nat
    BY <1>4, FS_CardinalityType
  <2> QED BY <1>2, <1>3, <1>4, <1>5, <2>1, <2>2, FinitelyMany
<1>7. Nothing \notin Inodes
  BY StoreConstants DEF Inodes
<1>8. fd[w] = Nothing
  BY DEF Typed
<1>9. Linked \subseteq Taken \cup {Nothing}
  BY <1>8 DEF Linked, Names, Opens
<1>10. Inodes \ Linked # {}
  BY <1>6, <1>7, <1>9
<1> QED
  BY <1>10 DEF FreshInode

-----------------------------------------------------------------------------
(* The steps *)

\* What was written stays written.
LEMMA WrittenStays ==
  ASSUME given \subseteq given'
  PROVE  Written \subseteq Written'
  BY DEF Written

\* Nothing has been written, and nobody is at work.
LEMMA InitHolds == Init => IInv
<1> SUFFICES ASSUME Init PROVE IInv
  OBVIOUS
<1>1. <<>> \in Files
  BY DEF Files
<1>2. path \in Inodes \cup {Nothing} /\ content \in [Inodes -> Files] /\ given \subseteq Wholes
  <2>1. 1 \in Inodes
    <3>1. Cardinality(Processes) > 0
      BY StoreConstants, FinitelyMany, FS_EmptySet
    <3> QED BY <3>1, FinitelyMany DEF Inodes
  <2>2. CASE path = Nothing /\ content = [i \in Inodes |-> <<>>] /\ given = {}
    BY <1>1, <2>2
  <2>3. CASE \E f \in FirstFiles : /\ path = 1
                                   /\ content = [i \in Inodes |-> IF i = 1 THEN f ELSE <<>>]
                                   /\ given = {f} \cap Wholes
    BY <1>1, <2>1, <2>3, FoundFiles
  <2> QED BY <2>2, <2>3 DEF Init
<1>3. Typed
  BY <1>1, <1>2 DEF Init, Typed, Rest
<1>4. ASSUME NEW i \in Inodes PROVE InodeOK(i)
  <2>1. ~Writable(i)
    <3>1. i # Nothing
      BY StoreConstants DEF Inodes
    <3> QED BY <3>1 DEF Init, Writable
  <2>2. CASE content[i] = <<>>
    BY <2>2 DEF InodeOK, Clean, FromStores
  <2>3. CASE content[i] # <<>>
    <3>1. PICK f \in FirstFiles : /\ content = [j \in Inodes |-> IF j = 1 THEN f ELSE <<>>]
                                  /\ given = {f} \cap Wholes
      BY <2>3 DEF Init
    <3>2. content[i] = f
      BY <2>3, <3>1
    <3> QED BY <2>1, <3>1, <3>2 DEF InodeOK, Harmless
  <2> QED BY <2>2, <2>3
<1>5. \A w \in Workers : StorerOK(w) /\ ReaderOK(w) /\ AnswerOK(w)
  BY DEF Init, StorerOK, ReaderOK, AnswerOK
<1> QED
  BY <1>3, <1>4, <1>5 DEF IInv

\* A step that only closes files, moves or removes names and frees inodes.
LEMMA ReclaimHolds ==
  ASSUME IInv, Typed', Reclaim, given' = given,
         \A i \in Inodes : Writable(i)' => Writable(i),
         \A v \in Workers : pc'[v] \in {"create", "write"} => pc[v] = pc'[v] /\ job'[v] = job[v],
         \A v \in Workers : pc'[v] = "read" => pc[v] = "read" /\ fd'[v] = fd[v] /\ got'[v] = got[v],
         \A v \in Workers : AnswerOK(v)'
  PROVE  IInv'
<1>1. Written' = Written /\ Harmless' = Harmless
  BY DEF Written, Harmless
<1>2. \A i \in Inodes : content'[i] = IF i \in Linked' THEN content[i] ELSE <<>>
  BY DEF Reclaim
<1>3. ASSUME NEW i \in Inodes PROVE InodeOK(i)'
  <2>1. CASE i \notin Linked'
    BY <1>2, <2>1 DEF InodeOK, Clean, FromStores
  <2>2. CASE i \in Linked'
    BY <1>1, <1>2, <2>2 DEF IInv, InodeOK, Clean, FromStores
  <2> QED BY <2>1, <2>2
<1>4. ASSUME NEW v \in Workers PROVE StorerOK(v)'
  BY DEF IInv, StorerOK
<1>5. ASSUME NEW v \in Workers PROVE ReaderOK(v)'
  <2> SUFFICES ASSUME pc'[v] = "read" PROVE ReaderOK(v)'
    BY DEF ReaderOK
  <2>1. pc[v] = "read" /\ fd'[v] = fd[v] /\ got'[v] = got[v]
    OBVIOUS
  <2>2. fd'[v] \in Inodes /\ fd'[v] \in Linked'
    BY DEF Typed, Linked
  <2>3. content'[fd'[v]] = content[fd[v]]
    BY <1>2, <2>1, <2>2
  <2>4. Clean(fd[v])' <=> Clean(fd[v])
    BY <1>1, <2>1, <2>3 DEF Clean, FromStores
  <2>5. FromStores(got[v])' <=> FromStores(got[v])
    BY <1>1, <2>1 DEF FromStores
  <2>6. ReaderOK(v)
    BY DEF IInv
  <2> QED BY <2>1, <2>3, <2>4, <2>5, <2>6 DEF ReaderOK
<1> QED
  BY <1>3, <1>4, <1>5 DEF IInv

\* What an inode holds after Reclaim is a file.
LEMMA ReclaimTypes ==
  ASSUME Typed, Reclaim
  PROVE  content' \in [Inodes -> Files]
  BY DEF Typed, Reclaim, Files

\* A worker's process, and what is no inode.
LEMMA HomeTypes ==
  ASSUME NEW w \in Workers
  PROVE  Home(w) \in Processes /\ Nothing \notin Inodes /\ <<>> \in Files
  BY StoreConstants DEF Workers, Inodes, Files

\* A renamed file is what it was; only its name is another.
LEMMA RenameHolds ==
  ASSUME IInv, NEW w \in Workers, Rename(w), UNCHANGED crew
  PROVE  IInv'
<1> USE DEF IInv, Typed
<1>0. Home(w) \in Processes /\ Nothing \notin Inodes /\ <<>> \in Files
  BY HomeTypes
<1>1. Typed'
  <2>1. content' \in [Inodes -> Files]
    BY ReclaimTypes DEF Rename
  <2>2. CASE tmp[Home(w)] = Nothing
    BY <1>0, <2>1, <2>2 DEF Rename, Finished, Rest
  <2>3. CASE tmp[Home(w)] # Nothing
    BY <1>0, <2>1, <2>3 DEF Rename, Finished, Rest
  <2> QED BY <2>2, <2>3
<1>2. \A i \in Inodes : Writable(i)' => Writable(i)
  <2>1. /\ \A q \in Processes : tmp'[q] \in {tmp[q], Nothing}
        /\ \A v \in Workers : pc'[v] = "write" => pc[v] = "write" /\ fd'[v] = fd[v]
    BY <1>0 DEF Rename, Finished
  <2> QED BY <1>0, <2>1 DEF Writable
<1>3. \A v \in Workers : pc'[v] \in {"create", "write"} => pc[v] = pc'[v] /\ job'[v] = job[v]
  BY DEF Rename, Finished
<1>4. \A v \in Workers : pc'[v] = "read" => pc[v] = "read" /\ fd'[v] = fd[v] /\ got'[v] = got[v]
  BY DEF Rename, Finished
<1>5. \A v \in Workers : AnswerOK(v)'
  BY DEF Rename, Finished, AnswerOK
<1> HIDE DEF IInv, Typed
<1> QED
  BY <1>1, <1>2, <1>3, <1>4, <1>5, ReclaimHolds DEF Rename

\* A store that fails, its cleaning up, and a load that fails write nothing.
LEMMA FailHolds ==
  ASSUME IInv, NEW w \in Workers, Fail(w) \/ Cleanup(w) \/ NoDirectory(w) \/ ReadFails(w), UNCHANGED crew
  PROVE  IInv'
<1> USE DEF IInv, Typed
<1>0. Home(w) \in Processes /\ Nothing \notin Inodes /\ <<>> \in Files
  BY HomeTypes
<1>1. Typed'
  <2>1. content' \in [Inodes -> Files]
    BY ReclaimTypes DEF Fail, Cleanup, NoDirectory, ReadFails
  <2>2. CASE Fail(w) \/ NoDirectory(w) \/ ReadFails(w)
    BY <1>0, <2>1, <2>2 DEF Fail, NoDirectory, ReadFails, Finished, Rest
  <2>3. CASE Cleanup(w)
    <3>1. tmp' \in [Processes -> Inodes \cup {Nothing}]
      BY <1>0, <2>3 DEF Cleanup
    <3> QED BY <2>1, <2>3, <3>1 DEF Cleanup, Rest
  <2> QED BY <2>2, <2>3
<1>2. \A i \in Inodes : Writable(i)' => Writable(i)
  <2>1. /\ \A q \in Processes : tmp'[q] \in {tmp[q], Nothing}
        /\ \A v \in Workers : pc'[v] = "write" => pc[v] = "write" /\ fd'[v] = fd[v]
    BY <1>0 DEF Fail, Cleanup, NoDirectory, ReadFails, Finished
  <2> QED BY <1>0, <2>1 DEF Writable
<1>3. \A v \in Workers : pc'[v] \in {"create", "write"} => pc[v] = pc'[v] /\ job'[v] = job[v]
  BY DEF Fail, Cleanup, NoDirectory, ReadFails, Finished
<1>4. \A v \in Workers : pc'[v] = "read" => pc[v] = "read" /\ fd'[v] = fd[v] /\ got'[v] = got[v]
  BY DEF Fail, Cleanup, NoDirectory, ReadFails, Finished
<1>5. \A v \in Workers : AnswerOK(v)'
  BY DEF Fail, Cleanup, NoDirectory, ReadFails, Finished, AnswerOK
<1> HIDE DEF IInv, Typed
<1> QED
  BY <1>1, <1>2, <1>3, <1>4, <1>5, ReclaimHolds DEF Fail, Cleanup, NoDirectory, ReadFails

\* A discarded name, a crash or a prune writes nothing either.
LEMMA WorldHolds ==
  ASSUME IInv, (\E w \in Workers : Discard(w)) \/ (\E p \in Processes : Crash(p)) \/ Prune, UNCHANGED crew
  PROVE  IInv'
<1> USE DEF IInv, Typed
<1>1. Typed'
  <2>1. content' \in [Inodes -> Files] /\ <<>> \in Files
    BY ReclaimTypes DEF Discard, Crash, Prune, Files
  <2>2. CASE \E w \in Workers : Discard(w)
    BY <2>1, <2>2 DEF Discard, Rest
  <2>3. CASE \E p \in Processes : Crash(p)
    BY <2>1, <2>3 DEF Crash, Rest
  <2>4. CASE Prune
    BY <2>1, <2>4 DEF Prune
  <2> QED BY <2>2, <2>3, <2>4
<1>2. \A i \in Inodes : Writable(i)' => Writable(i)
  BY DEF Discard, Crash, Prune, Writable
<1>3. \A v \in Workers : pc'[v] \in {"create", "write"} => pc[v] = pc'[v] /\ job'[v] = job[v]
  BY DEF Discard, Crash, Prune
<1>4. \A v \in Workers : pc'[v] = "read" => pc[v] = "read" /\ fd'[v] = fd[v] /\ got'[v] = got[v]
  BY DEF Discard, Crash, Prune
<1>5. \A v \in Workers : AnswerOK(v)'
  BY DEF Discard, Crash, Prune, AnswerOK
<1> HIDE DEF IInv, Typed
<1> QED
  BY <1>1, <1>2, <1>3, <1>4, <1>5, ReclaimHolds DEF Discard, Crash, Prune

\* What decodes is a whole file made of stored parts, or the file that was found.
LEMMA DecodeHolds ==
  ASSUME IInv, NEW w \in Workers, Decode(w), UNCHANGED crew
  PROVE  IInv'
<1> USE DEF IInv, Typed
<1>1. Typed'
  <2>1. content' \in [Inodes -> Files] /\ <<>> \in Files
    BY ReclaimTypes DEF Decode, Files
  <2> QED BY <2>1 DEF Decode, Rest
<1>2. \A i \in Inodes : Writable(i)' => Writable(i)
  BY DEF Decode, Writable
<1>3. \A v \in Workers : pc'[v] \in {"create", "write"} => pc[v] = pc'[v] /\ job'[v] = job[v]
  BY DEF Decode
<1>4. \A v \in Workers : pc'[v] = "read" => pc[v] = "read" /\ fd'[v] = fd[v] /\ got'[v] = got[v]
  BY DEF Decode
<1>5. ASSUME Accepts(Home(w), got[w])
      PROVE  got[w] \in given /\ Head(got[w])[1] = LayoutOf[Home(w)]
  <2>1. got[w] \in Wholes /\ Head(got[w])[1] = LayoutOf[Home(w)]
    BY <1>5 DEF Accepts
  <2>2. CASE Clean(fd[w])
    <3>1. FromStores(got[w])
      BY <2>2 DEF Decode, ReaderOK
    <3> QED BY <2>1, <3>1, KnownByItsParts
  <2>3. CASE ~Clean(fd[w])
    <3>1. fd[w] \in Inodes /\ content[fd[w]] \in Harmless
      BY <2>3 DEF Decode, InodeOK
    <3>2. /\ Len(got[w]) = Len(content[fd[w]])
          /\ \A k \in 1 .. Len(got[w]) : got[w][k] = content[fd[w]][k]
      BY <2>3, <3>1 DEF Decode, ReaderOK, Files
    <3>3. got[w] = content[fd[w]]
      BY <3>1, <3>2 DEF Files
    <3> QED BY <2>1, <3>1, <3>3 DEF Harmless
  <2> QED BY <2>2, <2>3
<1>6. \A v \in Workers : AnswerOK(v)'
  BY <1>5 DEF Decode, AnswerOK
<1> HIDE DEF IInv, Typed
<1> QED
  BY <1>1, <1>2, <1>3, <1>4, <1>6, ReclaimHolds DEF Decode

\* A store that begins is of a file that is given.
LEMMA StoreHolds ==
  ASSUME IInv, NEW w \in Workers, Store(w), UNCHANGED crew
  PROVE  IInv'
<1>1. PICK a \in Artifacts : /\ job' = [job EXCEPT ![w] = Whole(LayoutOf[Home(w)], a)]
                             /\ given' = given \cup {Whole(LayoutOf[Home(w)], a)}
  BY DEF Store
<1> DEFINE raw == Whole(LayoutOf[Home(w)], a)
<1>2. raw \in Wholes /\ raw \in Files /\ <<>> \in Files
  <2>1. raw \in Wholes
    BY <1>1, HomeTypes DEF Wholes, Layouts
  <2> QED BY <2>1, WholeFacts, HomeTypes
<1> HIDE DEF raw
<1>3. /\ job' = [job EXCEPT ![w] = raw] /\ given' = given \cup {raw}
      /\ pc[w] \in Rest /\ pc' = [pc EXCEPT ![w] = "create"] /\ got' = [got EXCEPT ![w] = <<>>]
      /\ UNCHANGED <<path, tmp, content, fd>>
  BY <1>1 DEF Store, raw
<1>4. Typed'
  BY <1>2, <1>3 DEF IInv, Typed, Rest
<1>5. Written \subseteq Written'
  BY <1>3, WrittenStays
<1>6. ASSUME NEW i \in Inodes PROVE InodeOK(i)'
  <2>1. Writable(i)' => Writable(i)
    BY <1>3 DEF Writable, IInv, Typed
  <2>2. content[i] \in Harmless => content'[i] \in Harmless'
    BY <1>3 DEF Harmless
  <2>3. Clean(i) => Clean(i)'
    BY <1>3, <1>5 DEF Clean, FromStores
  <2> QED BY <2>1, <2>2, <2>3 DEF IInv, InodeOK
<1>7. ASSUME NEW v \in Workers PROVE StorerOK(v)' /\ AnswerOK(v)'
  BY <1>3 DEF IInv, Typed, StorerOK, AnswerOK
<1>8. ASSUME NEW v \in Workers PROVE ReaderOK(v)'
  <2> SUFFICES ASSUME pc'[v] = "read" PROVE ReaderOK(v)'
    BY DEF ReaderOK
  <2>1. pc[v] = "read" /\ fd'[v] = fd[v] /\ got'[v] = got[v]
    BY <1>3 DEF IInv, Typed
  <2>2. content'[fd'[v]] = content[fd[v]] /\ got[v] \in Files
    BY <1>3, <2>1 DEF IInv, Typed
  <2>3. CASE Clean(fd[v])
    <3>1. FromStores(content[fd[v]]) /\ FromStores(got[v])
      BY <2>1, <2>3 DEF IInv, ReaderOK, Clean
    <3> QED BY <1>5, <2>1, <2>2, <3>1 DEF ReaderOK, Clean, FromStores
  <2>4. CASE ~Clean(fd[v])
    <3>1. /\ Len(got[v]) <= Len(content[fd[v]])
          /\ \A k \in 1 .. Len(got[v]) : got[v][k] = content[fd[v]][k]
      BY <2>1, <2>4 DEF IInv, ReaderOK
    <3>2. content[fd[v]] \in Files
      BY <2>1 DEF IInv, Typed
    <3>3. Clean(fd[v])' => FromStores(got[v])'
      <4>1. DOMAIN got[v] = 1 .. Len(got[v]) /\ DOMAIN content[fd[v]] = 1 .. Len(content[fd[v]])
            /\ Len(got[v]) \in Nat /\ Len(content[fd[v]]) \in Nat
        BY <2>2, <3>2 DEF Files
      <4>2. \A k \in 1 .. Len(got[v]) : k \in 1 .. Len(content[fd[v]])
        BY <3>1, <4>1
      <4> QED BY <2>1, <2>2, <3>1, <4>1, <4>2 DEF Clean, FromStores
    <3> QED BY <2>1, <2>2, <3>1, <3>3 DEF ReaderOK
  <2> QED BY <2>3, <2>4
<1> QED
  BY <1>4, <1>6, <1>7, <1>8 DEF IInv

\* A step of a worker that leaves all files but one alone, and that one clean.
LEMMA WriterHolds ==
  ASSUME IInv, Typed', NEW w \in Workers, NEW i \in Inodes, given' = given,
         \A j \in Inodes \ {i} : content'[j] = content[j] /\ (Writable(j)' => Writable(j)),
         Clean(i) \/ \A v \in Workers : ~(pc[v] = "read" /\ fd[v] = i),
         Clean(i)',
         pc[w] # "read" /\ pc'[w] \notin {"create", "read", "answered"}, job' = job, pc[w] \in {"create", "write"},
         \A v \in Workers \ {w} : pc'[v] = pc[v] /\ fd'[v] = fd[v] /\ got'[v] = got[v]
  PROVE  IInv'
<1>1. Written' = Written /\ Harmless' = Harmless
  BY DEF Written, Harmless
<1>2. ASSUME NEW j \in Inodes PROVE InodeOK(j)'
  BY <1>1 DEF IInv, InodeOK, Clean, FromStores
<1>3. ASSUME NEW v \in Workers PROVE StorerOK(v)' /\ AnswerOK(v)'
  BY DEF IInv, StorerOK, AnswerOK
<1>4. ASSUME NEW v \in Workers PROVE ReaderOK(v)'
  <2> SUFFICES ASSUME pc'[v] = "read" PROVE ReaderOK(v)'
    BY DEF ReaderOK
  <2>1. pc[v] = "read" /\ fd'[v] = fd[v] /\ got'[v] = got[v] /\ fd[v] \in Inodes
    BY DEF IInv, Typed
  <2>2. CASE fd[v] = i
    BY <1>1, <2>1, <2>2 DEF IInv, ReaderOK, FromStores
  <2>3. CASE fd[v] # i
    <3>1. content'[fd'[v]] = content[fd[v]] /\ ReaderOK(v)
      BY <2>1, <2>3 DEF IInv
    <3>2. Clean(fd[v])' <=> Clean(fd[v])
      BY <1>1, <2>1, <3>1 DEF Clean, FromStores
    <3>3. FromStores(got[v])' <=> FromStores(got[v])
      BY <1>1, <2>1 DEF FromStores
    <3> QED BY <2>1, <3>1, <3>2, <3>3 DEF ReaderOK
  <2> QED BY <2>2, <2>3
<1> QED
  BY <1>2, <1>3, <1>4 DEF IInv

\* The temporary file is created empty, on an inode of its own or of its process.
LEMMA CreateHolds ==
  ASSUME IInv, NEW w \in Workers, Create(w), UNCHANGED crew
  PROVE  IInv'
<1> DEFINE p == Home(w)
<1>0. PICK i : i = IF tmp[p] = Nothing THEN FreshInode ELSE tmp[p]
  OBVIOUS
<1>1. p \in Processes /\ Nothing \notin Inodes /\ <<>> \in Files
  BY HomeTypes
<1>2. /\ pc[w] = "create" /\ pc' = [pc EXCEPT ![w] = "write"]
      /\ tmp' = [tmp EXCEPT ![p] = i] /\ fd' = [fd EXCEPT ![w] = i]
      /\ content' = [content EXCEPT ![i] = <<>>]
      /\ UNCHANGED <<path, job, got, opened, given>>
  BY <1>0 DEF Create
<1>3. /\ i \in Inodes
      /\ Clean(i) \/ \A v \in Workers : ~(pc[v] = "read" /\ fd[v] = i)
  <2>1. CASE tmp[p] = Nothing
    <3>1. FreshInode \in Inodes \ Linked
      BY <1>2, <2>1, FreeInode DEF IInv
    <3> QED BY <1>0, <2>1, <3>1 DEF Linked
  <2>2. CASE tmp[p] # Nothing
    <3>1. i = tmp[p] /\ i \in Inodes
      BY <1>0, <1>1, <2>2 DEF IInv, Typed
    <3>2. Writable(i)
      BY <1>1, <3>1 DEF Writable
    <3> QED BY <3>1, <3>2 DEF IInv, InodeOK
  <2> QED BY <2>1, <2>2
<1>4. Typed'
  BY <1>1, <1>2, <1>3 DEF IInv, Typed
<1>5. content'[i] = <<>> /\ Clean(i)'
  BY <1>2, <1>3 DEF IInv, Typed, Clean, FromStores
<1>6. ASSUME NEW j \in Inodes \ {i} PROVE content'[j] = content[j] /\ (Writable(j)' => Writable(j))
  <2>1. content'[j] = content[j]
    BY <1>2 DEF IInv, Typed
  <2>2. \A q \in Processes : tmp'[q] = j => tmp[q] = j
    BY <1>1, <1>2 DEF IInv, Typed
  <2>3. \A v \in Workers : pc'[v] = "write" /\ fd'[v] = j => pc[v] = "write" /\ fd[v] = j
    BY <1>2 DEF IInv, Typed
  <2> QED BY <2>1, <2>2, <2>3 DEF Writable
<1>7. \A v \in Workers \ {w} : pc'[v] = pc[v] /\ fd'[v] = fd[v] /\ got'[v] = got[v]
  BY <1>2 DEF IInv, Typed
<1>8. pc'[w] = "write"
  BY <1>2 DEF IInv, Typed
<1> QED
  BY <1>2, <1>3, <1>4, <1>5, <1>6, <1>7, <1>8, WriterHolds

\* A part that is written was part of a file that is given.
LEMMA WriteHolds ==
  ASSUME IInv, NEW w \in Workers, Write(w), UNCHANGED crew
  PROVE  IInv'
<1>0. PICK n, i : n = Len(got[w]) + 1 /\ i = fd[w]
  OBVIOUS
<1>1. /\ pc[w] = "write" /\ n <= Len(job[w])
      /\ content' = [content EXCEPT ![i] = Overwrite(content[i], n, job[w][n])]
      /\ got' = [got EXCEPT ![w] = Append(@, job[w][n])]
      /\ UNCHANGED <<path, tmp, pc, job, fd, opened, given>>
  BY <1>0 DEF Write
<1>2. /\ i \in Inodes /\ job[w] \in given /\ job[w] \in Files /\ got[w] \in Files /\ content[i] \in Files
      /\ Writable(i)
  BY <1>0, <1>1 DEF IInv, Typed, StorerOK, Writable
<1>3. n \in Nat \ {0} /\ n \in DOMAIN job[w] /\ job[w][n] \in AllParts /\ job[w][n] \in Written
  <2>1. n \in Nat \ {0} /\ n \in DOMAIN job[w] /\ job[w][n] \in AllParts
    BY <1>0, <1>1, <1>2 DEF Files
  <2> QED BY <1>2, <2>1, StoredParts DEF FromStores
<1>4. Clean(i)
  BY <1>2 DEF IInv, InodeOK
<1>5. PICK new, size : /\ new = Overwrite(content[i], n, job[w][n])
                       /\ size = IF n > Len(content[i]) THEN n ELSE Len(content[i])
  OBVIOUS
<1>6. /\ size \in Nat
      /\ new = [k \in 1 .. size |->
                  IF k = n THEN job[w][n] ELSE IF k \in DOMAIN content[i] THEN content[i][k] ELSE Gap]
  BY <1>2, <1>3, <1>5 DEF Overwrite, Gap, Files
<1>7. Gap \in AllParts /\ Gap \in Written
  BY DEF Gap, AllParts, Written
<1>8. \A k \in 1 .. size : new[k] \in AllParts /\ new[k] \in Written
  <2>1. \A k \in DOMAIN content[i] : content[i][k] \in AllParts /\ content[i][k] \in Written
    BY <1>2, <1>4 DEF Clean, FromStores, Files
  <2> QED BY <1>3, <1>6, <1>7, <2>1
<1>9. new \in Files /\ FromStores(new)
  BY <1>6, <1>8 DEF Files, FromStores
<1>10. content' = [content EXCEPT ![i] = new]
  BY <1>1, <1>5
<1>11. Typed'
  <2>1. got' \in [Workers -> Files]
    <3>1. Append(got[w], job[w][n]) \in Files
      BY <1>2, <1>3 DEF Files
    <3> QED BY <1>1, <3>1 DEF IInv, Typed
  <2>2. content' \in [Inodes -> Files]
    BY <1>2, <1>9, <1>10 DEF IInv, Typed
  <2> QED BY <1>1, <2>1, <2>2 DEF IInv, Typed
<1>12. Clean(i)'
  <2>1. content'[i] = new /\ given' = given
    BY <1>1, <1>2, <1>10 DEF IInv, Typed
  <2> QED BY <1>9, <2>1 DEF Clean, FromStores, Written
<1>13. ASSUME NEW j \in Inodes \ {i} PROVE content'[j] = content[j] /\ (Writable(j)' => Writable(j))
  BY <1>1, <1>10 DEF IInv, Typed, Writable
<1>14. \A v \in Workers \ {w} : pc'[v] = pc[v] /\ fd'[v] = fd[v] /\ got'[v] = got[v]
  BY <1>1 DEF IInv, Typed
<1> QED
  BY <1>1, <1>2, <1>4, <1>11, <1>12, <1>13, <1>14, WriterHolds

\* A reader opens a file, and reads on.
LEMMA ReadHolds ==
  ASSUME IInv, NEW w \in Workers, Load(w) \/ Read(w), UNCHANGED crew
  PROVE  IInv'
<1>1. /\ UNCHANGED <<path, tmp, content, job, given>>
      /\ pc' = [pc EXCEPT ![w] = "read"]
      /\ \A v \in Workers \ {w} : fd'[v] = fd[v] /\ got'[v] = got[v]
      /\ fd' = [fd EXCEPT ![w] = fd'[w]] /\ fd'[w] \in Inodes
      /\ got' = [got EXCEPT ![w] = got'[w]]
      /\ pc[w] \in Rest \cup {"read"}
  BY DEF IInv, Typed, Load, Read
<1>2. Written' = Written /\ Harmless' = Harmless
  BY <1>1 DEF Written, Harmless
<1>3. got'[w] \in Files /\ ReaderOK(w)'
  <2>1. CASE Load(w)
    <3>1. got'[w] = <<>> /\ <<>> \in Files
      BY <2>1, HomeTypes DEF Load, IInv, Typed
    <3>2. content[fd'[w]] \in Files
      BY <1>1 DEF IInv, Typed
    <3> QED BY <1>1, <3>1, <3>2 DEF ReaderOK, FromStores, Files
  <2>2. CASE Read(w)
    <3> DEFINE i == Len(got[w]) + 1
               raw == content[fd[w]]
    <3>1. /\ pc[w] = "read" /\ fd'[w] = fd[w] /\ content' = content
          /\ i <= Len(raw) /\ got'[w] = Append(got[w], raw[i])
      BY <2>2 DEF Read, IInv, Typed
    <3>2. got[w] \in Files /\ raw \in Files
      BY <3>1 DEF IInv, Typed
    <3>3. i \in DOMAIN raw /\ raw[i] \in AllParts
      BY <3>1, <3>2 DEF Files
    <3>4. /\ got'[w] \in Files /\ Len(got'[w]) = i /\ got'[w][i] = raw[i]
          /\ \A k \in 1 .. Len(got[w]) : got'[w][k] = got[w][k]
          /\ DOMAIN got[w] = 1 .. Len(got[w]) /\ DOMAIN got'[w] = 1 .. i /\ Len(got[w]) \in Nat
      BY <3>1, <3>2, <3>3 DEF Files
    <3> HIDE DEF i
    <3>5. \A k \in 1 .. i : k = i \/ k \in 1 .. Len(got[w])
      BY <3>4 DEF i
    <3>6. CASE Clean(fd[w])
      <4>1. FromStores(got[w]) /\ FromStores(raw)
        BY <3>1, <3>6 DEF IInv, ReaderOK, Clean
      <4>2. FromStores(got'[w])
        BY <3>3, <3>4, <3>5, <4>1 DEF FromStores
      <4>3. FromStores(got[w])'
        BY <1>2, <4>2 DEF FromStores
      <4>4. Clean(fd[w])'
        BY <1>2, <3>1, <3>6 DEF Clean, FromStores
      <4> QED BY <3>1, <3>4, <4>3, <4>4 DEF ReaderOK
    <3>7. CASE ~Clean(fd[w])
      <4>1. \A k \in 1 .. Len(got[w]) : got[w][k] = raw[k]
        BY <3>1, <3>7 DEF IInv, ReaderOK
      <4>2. ~Clean(fd[w])'
        BY <1>2, <3>1, <3>7 DEF Clean, FromStores
      <4>3. \A k \in 1 .. i : got'[w][k] = raw[k]
        BY <3>4, <3>5, <4>1
      <4> QED BY <3>1, <3>4, <4>2, <4>3 DEF ReaderOK
    <3> QED BY <3>4, <3>6, <3>7
  <2> QED BY <2>1, <2>2
<1>4. Typed'
  <2>1. got' \in [Workers -> Files] /\ fd' \in [Workers -> Inodes \cup {Nothing}]
    BY <1>1, <1>3 DEF IInv, Typed
  <2> QED BY <1>1, <2>1, HomeTypes DEF IInv, Typed
<1>5. ASSUME NEW j \in Inodes PROVE InodeOK(j)'
  <2>1. Writable(j)' => Writable(j)
    BY <1>1 DEF IInv, Typed, Writable
  <2> QED BY <1>1, <1>2, <2>1 DEF IInv, InodeOK, Clean, FromStores
<1>6. ASSUME NEW v \in Workers PROVE StorerOK(v)' /\ AnswerOK(v)'
  BY <1>1 DEF IInv, Typed, StorerOK, AnswerOK
<1>7. ASSUME NEW v \in Workers \ {w} PROVE ReaderOK(v)'
  BY <1>1, <1>2 DEF IInv, Typed, ReaderOK, Clean, FromStores
<1> QED
  BY <1>3, <1>4, <1>5, <1>6, <1>7 DEF IInv

\* Every step keeps the inductive invariant.
LEMMA NextHolds == IInv /\ [Next]_vars => IInv'
<1> SUFFICES ASSUME IInv, [Next]_vars PROVE IInv'
  OBVIOUS
<1>1. crew \subseteq Workers
  BY DEF IInv, Typed, Workers
<1>2. CASE Next
  BY <1>1, <1>2, StoreHolds, CreateHolds, WriteHolds, RenameHolds, FailHolds, ReadHolds, DecodeHolds, WorldHolds
     DEF Next
<1>3. CASE UNCHANGED vars
  BY <1>3 DEF vars, IInv, Typed, InodeOK, Clean, FromStores, Written, Harmless, Writable, StorerOK, ReaderOK, AnswerOK,
              Inodes
<1> QED
  BY <1>2, <1>3

\* Every reachable state satisfies the inductive invariant.
THEOREM Invariant == Spec => []IInv
  BY InitHolds, NextHolds, PTL DEF Spec

\* "A damaged cache costs a refetch and can never produce a wrong answer": whatever
\* threads and processes tear, crash over, prune or find in the directory, a load
\* returns what its own build was asked to store.
THEOREM NeverWrong == Spec => []NoWrongAnswer
<1>1. IInv => NoWrongAnswer
  BY DEF IInv, Typed, AnswerOK, NoWrongAnswer, Workers
<1> QED
  BY <1>1, Invariant, PTL

-----------------------------------------------------------------------------
(* One thread of each process: the key is an atomic cell *)

\* No inode has two names.
NamesApart ==
  /\ \A p, q \in Processes : p # q /\ tmp[p] # Nothing => tmp[p] # tmp[q]
  /\ path # Nothing => \A p \in Processes : tmp[p] # path

\* A storing worker has its temporary file to itself, and has written its beginning.
StoresAlone(w) ==
  /\ pc[w] = "create" => got[w] = <<>>
  /\ pc[w] = "write" =>
       /\ fd[w] = tmp[Home(w)]
       /\ Len(got[w]) <= Len(job[w])
       /\ content[fd[w]] = [k \in 1 .. Len(got[w]) |-> job[w][k]]

\* A loading worker's file stays as it was opened, and the worker has read its beginning.
LoadsAlone(w) ==
  /\ pc[w] = "read" =>
       /\ \A p \in Processes : tmp[p] # fd[w]
       /\ opened[w] = content[fd[w]]
       /\ Len(got[w]) <= Len(opened[w])
       /\ \A k \in 1 .. Len(got[w]) : got[w][k] = opened[w][k]
  /\ pc[w] \in {"answered", "discard"} => got[w] = opened[w]

Alone ==
  /\ opened = [w \in Workers |-> opened[w]]
  /\ NamesApart
  /\ path # Nothing => content[path] \in FirstFiles \cup Wholes
  /\ \A w \in Workers : /\ pc[w] # "idle" => w \in crew
                        /\ StoresAlone(w) /\ LoadsAlone(w)

\* What the cell holds.
Held == IF path = Nothing \/ ~Apart THEN Nothing ELSE content[path]

\* A step the cell allows.
CellStep == Held' = Held \/ Held' = Nothing \/ Held' \in Wholes

\* A worker at work is the only one of its process.
LEMMA OnlyOne ==
  ASSUME Apart, Alone, NEW v \in Workers, NEW w \in Workers, pc[v] # "idle", pc[w] # "idle", Home(v) = Home(w)
  PROVE  v = w
  BY DEF Apart, Alone

\* At first nobody is at work, and the file that was found is all the key holds.
LEMMA AloneInit == Init => Alone /\ (path # Nothing => content[path] \in FirstFiles)
<1> SUFFICES ASSUME Init PROVE Alone /\ (path # Nothing => content[path] \in FirstFiles)
  OBVIOUS
<1>1. 1 \in Inodes
  <2>1. Cardinality(Processes) > 0
    BY StoreConstants, FinitelyMany, FS_EmptySet
  <2> QED BY <2>1, FinitelyMany DEF Inodes
<1>2. 1 # Nothing
  BY StoreConstants
<1> QED
  BY <1>1, <1>2 DEF Init, Alone, NamesApart, StoresAlone, LoadsAlone

\* A step that closes files, removes names and frees inodes keeps them apart.
LEMMA AloneReclaims ==
  ASSUME IInv, Typed', Apart, Alone, Reclaim, UNCHANGED crew,
         \A p \in Processes : tmp'[p] \in {tmp[p], Nothing},
         path' \in {path, Nothing},
         opened' = [v \in Workers |-> opened'[v]],
         \A v \in Workers : pc'[v] = "create" => pc[v] = "create" /\ got'[v] = got[v],
         \A v \in Workers : pc'[v] = "write" =>
           /\ pc[v] = "write" /\ fd'[v] = fd[v] /\ got'[v] = got[v] /\ job'[v] = job[v]
           /\ tmp'[Home(v)] = tmp[Home(v)],
         \A v \in Workers : pc'[v] = "read" =>
           pc[v] = "read" /\ fd'[v] = fd[v] /\ got'[v] = got[v] /\ opened'[v] = opened[v],
         \A v \in Workers : pc'[v] \in {"answered", "discard"} => got'[v] = opened'[v],
         \A v \in Workers : pc'[v] # "idle" => v \in crew
  PROVE  Alone' /\ CellStep
<1>1. \A i \in Inodes : i \in Linked' => content'[i] = content[i]
  BY DEF Reclaim
<1>2. Nothing \notin Inodes
  BY StoreConstants DEF Inodes
<1>3. NamesApart'
  BY DEF Alone, NamesApart
<1>4. path' # Nothing => path' = path /\ content'[path'] = content[path]
  BY <1>1, <1>2 DEF Typed, Linked
<1>5. ASSUME NEW v \in Workers PROVE StoresAlone(v)'
  <2>1. CASE pc'[v] = "write"
    <3>1. fd[v] \in Inodes /\ fd'[v] \in Linked'
      BY <2>1 DEF IInv, Typed, Linked
    <3>2. content'[fd'[v]] = content[fd[v]]
      BY <1>1, <2>1, <3>1
    <3> QED BY <2>1, <3>2 DEF Alone, StoresAlone
  <2>2. CASE pc'[v] # "write"
    BY <2>2 DEF Alone, StoresAlone
  <2> QED BY <2>1, <2>2
<1>6. ASSUME NEW v \in Workers PROVE LoadsAlone(v)'
  <2>1. CASE pc'[v] = "read"
    <3>1. fd[v] \in Inodes /\ fd'[v] \in Linked'
      BY <2>1 DEF IInv, Typed, Linked
    <3>2. content'[fd'[v]] = content[fd[v]]
      BY <1>1, <2>1, <3>1
    <3>3. \A p \in Processes : tmp'[p] # fd'[v]
      BY <1>2, <2>1, <3>1 DEF Alone, LoadsAlone
    <3> QED BY <2>1, <3>2, <3>3 DEF Alone, LoadsAlone
  <2>2. CASE pc'[v] # "read"
    BY <2>2 DEF LoadsAlone
  <2> QED BY <2>1, <2>2
<1>7. Alone'
  BY <1>3, <1>4, <1>5, <1>6 DEF Alone
<1>8. CellStep
  BY <1>4 DEF CellStep, Held, Apart
<1> QED
  BY <1>7, <1>8

\* A rename gives the key a whole file.
LEMMA AloneRenames ==
  ASSUME IInv, Typed', Apart, Alone, NEW w \in Workers, Rename(w), UNCHANGED crew
  PROVE  Alone' /\ CellStep
<1>1. PICK p, i : p = Home(w) /\ i = fd[w]
  OBVIOUS
<1>2. /\ p \in Processes /\ i \in Inodes /\ Nothing \notin Inodes /\ tmp[p] = i /\ job[w] \in Wholes
      /\ content[i] = job[w]
  <2>1. /\ p \in Processes /\ i \in Inodes /\ Nothing \notin Inodes /\ tmp[p] = i /\ job[w] \in Wholes
        /\ content[i] = [k \in 1 .. Len(job[w]) |-> job[w][k]]
    BY <1>1, HomeTypes DEF Rename, IInv, Typed, StorerOK, Alone, StoresAlone
  <2>2. job[w] \in Files
    BY DEF IInv, Typed
  <2>3. job[w] = [k \in 1 .. Len(job[w]) |-> job[w][k]]
    BY <2>2 DEF Files
  <2> QED BY <2>1, <2>3
<1>3. /\ path' = i /\ tmp' = [tmp EXCEPT ![p] = Nothing] /\ pc' = [pc EXCEPT ![w] = "stored"]
      /\ Finished(w) /\ Reclaim /\ UNCHANGED <<opened, given>>
  BY <1>1, <1>2 DEF Rename
<1>4. \A j \in Inodes : j \in Linked' => content'[j] = content[j]
  BY <1>3 DEF Reclaim
<1>5. content'[path'] = job[w] /\ path' # Nothing
  BY <1>2, <1>3, <1>4 DEF Linked
<1>6. NamesApart'
  <2>1. tmp'[p] = Nothing /\ \A q \in Processes \ {p} : tmp'[q] = tmp[q]
    BY <1>2, <1>3 DEF IInv, Typed
  <2> QED BY <1>2, <1>3, <2>1 DEF Alone, NamesApart
<1>7. ASSUME NEW v \in Workers PROVE StoresAlone(v)' /\ LoadsAlone(v)'
  <2>1. CASE v = w
    BY <1>3, <2>1 DEF IInv, Typed, StoresAlone, LoadsAlone
  <2>2. CASE v # w
    <3>1. pc'[v] = pc[v] /\ fd'[v] = fd[v] /\ got'[v] = got[v] /\ job'[v] = job[v] /\ opened'[v] = opened[v]
      BY <1>3, <2>2 DEF Finished, IInv, Typed
    <3>2. pc[v] = "write" => tmp'[Home(v)] = tmp[Home(v)]
      <4>1. pc[v] = "write" => Home(v) # p /\ Home(v) \in Processes
        BY <1>1, <2>2, OnlyOne, HomeTypes DEF Rename
      <4> QED BY <1>3, <4>1 DEF IInv, Typed
    <3>3. pc[v] \in {"write", "read"} => content'[fd'[v]] = content[fd[v]] /\ fd[v] \in Inodes
      BY <1>4, <3>1 DEF IInv, Typed, Linked
    <3>4. pc[v] = "read" => \A q \in Processes : tmp'[q] # fd'[v]
      BY <1>2, <1>3, <3>1, <3>3 DEF IInv, Typed, Alone, LoadsAlone
    <3> QED BY <3>1, <3>2, <3>3, <3>4 DEF Alone, StoresAlone, LoadsAlone
  <2> QED BY <2>1, <2>2
<1>8. \A v \in Workers : pc'[v] # "idle" => v \in crew'
  BY <1>3 DEF Rename, IInv, Typed, Alone
<1>9. Alone'
  BY <1>2, <1>3, <1>5, <1>6, <1>7, <1>8 DEF Alone
<1>10. CellStep
  BY <1>2, <1>5 DEF CellStep, Held
<1> QED
  BY <1>9, <1>10

\* A worker that fails, cleans up, cannot read, has read its file or throws it away.
LEMMA AloneCloses ==
  ASSUME IInv, Typed', Apart, Alone, NEW w \in Workers,
         Fail(w) \/ Cleanup(w) \/ NoDirectory(w) \/ ReadFails(w) \/ Decode(w) \/ Discard(w), UNCHANGED crew
  PROVE  Alone' /\ CellStep
<1>1. /\ Reclaim /\ UNCHANGED <<crew, given>> /\ path' \in {path, Nothing}
      /\ w \in crew /\ Home(w) \in Processes
  BY HomeTypes DEF Fail, Cleanup, NoDirectory, ReadFails, Decode, Discard, Alone
<1>2. \A p \in Processes : tmp'[p] \in {tmp[p], Nothing}
  BY <1>1 DEF Fail, Cleanup, NoDirectory, ReadFails, Decode, Discard, IInv, Typed
<1>3. opened' = [v \in Workers |-> opened'[v]]
  BY DEF Fail, Cleanup, NoDirectory, ReadFails, Decode, Discard, Alone
<1>4. ASSUME NEW v \in Workers \ {w}
      PROVE  /\ pc'[v] = pc[v] /\ fd'[v] = fd[v] /\ got'[v] = got[v] /\ job'[v] = job[v]
             /\ opened'[v] = opened[v]
             /\ pc[v] = "write" => tmp'[Home(v)] = tmp[Home(v)]
  <2>1. /\ pc'[v] = pc[v] /\ fd'[v] = fd[v] /\ got'[v] = got[v] /\ job'[v] = job[v]
        /\ opened'[v] = opened[v]
    BY <1>3 DEF Fail, Cleanup, NoDirectory, ReadFails, Decode, Discard,
       Finished, IInv, Typed, Alone
  <2>2. CASE Cleanup(w)
    <3>1. pc[v] = "write" => Home(v) # Home(w) /\ Home(v) \in Processes
      BY <2>2, OnlyOne, HomeTypes DEF Cleanup
    <3> QED BY <2>1, <2>2, <3>1 DEF Cleanup, IInv, Typed
  <2>3. CASE ~Cleanup(w)
    BY <2>1, <2>3 DEF Fail, NoDirectory, ReadFails, Decode, Discard
  <2> QED BY <2>2, <2>3
<1>5. pc'[w] \in {"idle", "stored", "cleanup", "answered", "discard"}
  BY DEF Fail, Cleanup, NoDirectory, ReadFails, Decode, Discard, IInv, Typed
<1>6. pc'[w] \in {"answered", "discard"} => got'[w] = opened'[w]
  <2> SUFFICES ASSUME pc'[w] \in {"answered", "discard"} PROVE got'[w] = opened'[w]
    OBVIOUS
  <2>1. Decode(w)
    BY DEF Fail, Cleanup, NoDirectory, ReadFails, Discard, IInv, Typed
  <2>2. /\ pc[w] = "read" /\ Len(got[w]) >= Len(content[fd[w]]) /\ got'[w] = got[w] /\ opened'[w] = opened[w]
    BY <2>1 DEF Decode
  <2>3. /\ opened[w] = content[fd[w]] /\ Len(got[w]) <= Len(opened[w])
        /\ \A k \in 1 .. Len(got[w]) : got[w][k] = opened[w][k]
    BY <2>2 DEF Alone, LoadsAlone
  <2>4. got[w] \in Files /\ opened[w] \in Files
    BY <2>2, <2>3 DEF IInv, Typed
  <2>5. Len(got[w]) = Len(opened[w])
    BY <2>2, <2>3, <2>4 DEF Files
  <2> QED BY <2>2, <2>3, <2>4, <2>5 DEF Files
<1>7. \A v \in Workers : pc'[v] = "create" => pc[v] = "create" /\ got'[v] = got[v]
  BY <1>4, <1>5
<1>8. \A v \in Workers : pc'[v] = "write" =>
           /\ pc[v] = "write" /\ fd'[v] = fd[v] /\ got'[v] = got[v] /\ job'[v] = job[v]
           /\ tmp'[Home(v)] = tmp[Home(v)]
  BY <1>4, <1>5
<1>9. \A v \in Workers : pc'[v] = "read" =>
           pc[v] = "read" /\ fd'[v] = fd[v] /\ got'[v] = got[v] /\ opened'[v] = opened[v]
  BY <1>4, <1>5
<1>10. \A v \in Workers : pc'[v] \in {"answered", "discard"} => got'[v] = opened'[v]
  BY <1>4, <1>6 DEF Alone, LoadsAlone
<1>11. \A v \in Workers : pc'[v] # "idle" => v \in crew
  BY <1>1, <1>4 DEF Alone
<1> QED
  BY <1>1, <1>2, <1>3, <1>7, <1>8, <1>9, <1>10, <1>11, AloneReclaims

\* A process dies, or the entry is pruned.
LEMMA AloneInTheWorld ==
  ASSUME IInv, Typed', Apart, Alone, (\E p \in Processes : Crash(p)) \/ Prune, UNCHANGED crew
  PROVE  Alone' /\ CellStep
<1>1. /\ Reclaim /\ UNCHANGED <<crew, tmp, given>> /\ path' \in {path, Nothing}
      /\ opened' = [v \in Workers |-> opened'[v]]
  BY DEF Crash, Prune, Alone
<1>2. ASSUME NEW v \in Workers
      PROVE  \/ pc'[v] = "idle"
             \/ /\ pc'[v] = pc[v] /\ fd'[v] = fd[v] /\ got'[v] = got[v] /\ job'[v] = job[v]
                /\ opened'[v] = opened[v]
  BY DEF Crash, Prune
<1>3. \A v \in Workers : pc'[v] = "create" => pc[v] = "create" /\ got'[v] = got[v]
  BY <1>2
<1>4. \A v \in Workers : pc'[v] = "write" =>
           /\ pc[v] = "write" /\ fd'[v] = fd[v] /\ got'[v] = got[v] /\ job'[v] = job[v]
           /\ tmp'[Home(v)] = tmp[Home(v)]
  BY <1>1, <1>2
<1>5. \A v \in Workers : pc'[v] = "read" =>
           pc[v] = "read" /\ fd'[v] = fd[v] /\ got'[v] = got[v] /\ opened'[v] = opened[v]
  BY <1>2
<1>6. \A v \in Workers : pc'[v] \in {"answered", "discard"} => got'[v] = opened'[v]
  BY <1>2 DEF Alone, LoadsAlone
<1>7. \A v \in Workers : pc'[v] # "idle" => v \in crew
  BY <1>2 DEF Alone
<1> QED
  BY <1>1, <1>3, <1>4, <1>5, <1>6, <1>7, AloneReclaims

\* A store begins: nothing but its worker changes.
LEMMA AloneStores ==
  ASSUME IInv, Apart, Alone, NEW w \in crew, Store(w), UNCHANGED crew
  PROVE  Alone' /\ CellStep
<1>0. w \in Workers
  BY DEF IInv, Typed, Workers
<1>1. /\ UNCHANGED <<crew, path, tmp, content, fd>> /\ pc' = [pc EXCEPT ![w] = "create"]
      /\ got' = [got EXCEPT ![w] = <<>>] /\ opened' = [opened EXCEPT ![w] = <<>>]
      /\ \A v \in Workers \ {w} : job'[v] = job[v]
  BY DEF Store, IInv, Typed
<1>2. pc'[w] = "create" /\ got'[w] = <<>>
  BY <1>0, <1>1 DEF IInv, Typed
<1>3. \A v \in Workers \ {w} : /\ pc'[v] = pc[v] /\ fd'[v] = fd[v] /\ got'[v] = got[v] /\ job'[v] = job[v]
                               /\ opened'[v] = opened[v]
  BY <1>1 DEF IInv, Typed, Alone
<1>4. ASSUME NEW v \in Workers PROVE StoresAlone(v)' /\ LoadsAlone(v)'
  <2>1. CASE v = w
    BY <1>2, <2>1 DEF StoresAlone, LoadsAlone
  <2>2. CASE v # w
    BY <1>1, <1>3, <2>2 DEF Alone, StoresAlone, LoadsAlone
  <2> QED BY <2>1, <2>2
<1>5. \A v \in Workers : pc'[v] # "idle" => v \in crew'
  BY <1>0, <1>1, <1>3 DEF Alone
<1>6. NamesApart'
  BY <1>1 DEF Alone, NamesApart
<1>7. opened' = [v \in Workers |-> opened'[v]]
  BY <1>1 DEF Alone
<1>8. Alone'
  BY <1>1, <1>4, <1>5, <1>6, <1>7 DEF Alone
<1>9. CellStep
  BY <1>1 DEF CellStep, Held, Apart
<1> QED
  BY <1>8, <1>9

\* A store at its temporary: w, and nobody else, is at inode i, and what is
\* there is what it has written so far.
OnItsOwn(w, i) ==
  /\ w \in crew /\ UNCHANGED <<crew, path, opened>>
  /\ path # i /\ pc'[w] = "write" /\ pc[w] # "idle"
  /\ \A j \in Inodes \ {i} : content'[j] = content[j]
  /\ \A q \in Processes \ {Home(w)} : tmp'[q] = tmp[q] /\ tmp[q] # i
  /\ tmp'[Home(w)] = i /\ fd'[w] = i
  /\ \A v \in Workers : pc[v] = "read" => fd[v] # i
  /\ \A v \in Workers \ {w} : /\ pc'[v] = pc[v] /\ fd'[v] = fd[v]
                              /\ got'[v] = got[v] /\ job'[v] = job[v]
  /\ Len(got'[w]) <= Len(job'[w])
  /\ content'[i] = [k \in 1 .. Len(got'[w]) |-> job'[w][k]]

\* A worker that writes to an inode of its own disturbs nobody.
LEMMA AloneOnItsOwn ==
  ASSUME IInv, Apart, Alone, NEW w \in Workers, NEW i \in Inodes, OnItsOwn(w, i)
  PROVE  Alone' /\ CellStep
<1> USE DEF OnItsOwn
<1>1. Nothing \notin Inodes
  BY StoreConstants DEF Inodes
<1>2. NamesApart'
  BY <1>1 DEF Alone, NamesApart
<1>3. path' # Nothing => path' = path /\ content'[path'] = content[path]
  BY DEF IInv, Typed
<1>4. ASSUME NEW v \in Workers \ {w} PROVE StoresAlone(v)' /\ LoadsAlone(v)'
  <2>1. pc[v] = "write" => Home(v) # Home(w) /\ Home(v) \in Processes /\ fd[v] = tmp[Home(v)] /\ fd[v] \in Inodes
    <3>1. pc[v] = "write" => Home(v) # Home(w) /\ Home(v) \in Processes
      BY OnlyOne, HomeTypes
    <3>2. pc[v] = "write" => fd[v] = tmp[Home(v)]
      BY DEF Alone, StoresAlone
    <3>3. pc[v] = "write" => fd[v] \in Inodes
      BY DEF IInv, Typed
    <3> QED BY <3>1, <3>2, <3>3
  <2>2. pc[v] = "write" => tmp'[Home(v)] = tmp[Home(v)] /\ content'[fd[v]] = content[fd[v]]
    BY <2>1
  <2>3. pc[v] = "read" => fd[v] \in Inodes /\ content'[fd[v]] = content[fd[v]]
    BY DEF IInv, Typed
  <2>4. pc[v] = "read" => \A q \in Processes : tmp'[q] # fd[v]
    BY DEF Alone, LoadsAlone
  <2>5. StoresAlone(v) /\ LoadsAlone(v)
    BY DEF Alone
  <2>6. opened'[v] = opened[v] /\ pc'[v] = pc[v] /\ fd'[v] = fd[v] /\ got'[v] = got[v] /\ job'[v] = job[v]
    OBVIOUS
  <2>7. StoresAlone(v)'
    BY <2>2, <2>5, <2>6 DEF StoresAlone
  <2>8. LoadsAlone(v)'
    BY <2>3, <2>4, <2>5, <2>6 DEF LoadsAlone
  <2> QED BY <2>7, <2>8
<1>5. StoresAlone(w)' /\ LoadsAlone(w)'
  BY DEF StoresAlone, LoadsAlone
<1>6. \A v \in Workers : pc'[v] # "idle" => v \in crew'
  BY DEF Alone
<1>7. opened' = [v \in Workers |-> opened'[v]]
  BY DEF Alone
<1>8. Alone'
  BY <1>2, <1>3, <1>4, <1>5, <1>6, <1>7 DEF Alone
<1>9. CellStep
  BY <1>3 DEF CellStep, Held, Apart
<1> QED
  BY <1>8, <1>9

\* The temporary file is created, or what a dead process left is truncated.
LEMMA AloneCreates ==
  ASSUME IInv, Apart, Alone, NEW w \in crew, Create(w), UNCHANGED crew
  PROVE  Alone' /\ CellStep
<1>0. PICK p, i : p = Home(w) /\ i = (IF tmp[p] = Nothing THEN FreshInode ELSE tmp[p])
  OBVIOUS
<1>1. w \in Workers /\ p \in Processes /\ Nothing \notin Inodes
  BY <1>0, HomeTypes DEF IInv, Typed, Workers
<1>2. /\ pc[w] = "create" /\ pc' = [pc EXCEPT ![w] = "write"]
      /\ tmp' = [tmp EXCEPT ![p] = i] /\ fd' = [fd EXCEPT ![w] = i]
      /\ content' = [content EXCEPT ![i] = <<>>]
      /\ UNCHANGED <<path, job, got, opened, given>>
  BY <1>0 DEF Create
<1>3. /\ i \in Inodes /\ path # i
      /\ \A q \in Processes \ {p} : tmp[q] # i
      /\ \A v \in Workers : pc[v] = "read" => fd[v] # i
  <2>1. CASE tmp[p] = Nothing
    <3>1. FreshInode \in Inodes \ Linked
      BY <1>0, <1>1, <1>2, <2>1, FreeInode DEF IInv
    <3> QED BY <1>0, <2>1, <3>1 DEF Linked
  <2>2. CASE tmp[p] # Nothing
    BY <1>0, <1>1, <2>2 DEF IInv, Typed, Alone, NamesApart, LoadsAlone
  <2> QED BY <2>1, <2>2
<1>4. got[w] = <<>> /\ job[w] \in Files
  BY <1>1, <1>2 DEF IInv, Typed, Alone, StoresAlone
<1>5. \A v \in Workers \ {w} : pc'[v] = pc[v] /\ fd'[v] = fd[v] /\ got'[v] = got[v] /\ job'[v] = job[v]
  BY <1>2 DEF IInv, Typed
<1>6. \A q \in Processes \ {p} : tmp'[q] = tmp[q]
  BY <1>2 DEF IInv, Typed
<1>7. tmp'[p] = i /\ fd'[w] = i /\ pc'[w] = "write" /\ got'[w] = <<>> /\ job'[w] = job[w] /\ content'[i] = <<>>
  BY <1>1, <1>2, <1>3, <1>4 DEF IInv, Typed
<1>8. Len(got'[w]) <= Len(job'[w]) /\ content'[i] = [k \in 1 .. Len(got'[w]) |-> job'[w][k]]
  BY <1>4, <1>7 DEF Files
<1>9. \A j \in Inodes \ {i} : content'[j] = content[j]
  BY <1>2 DEF IInv, Typed
<1>10. p = Home(w) /\ pc[w] # "idle" /\ UNCHANGED <<crew, path, opened>>
  BY <1>0, <1>2
<1>11. OnItsOwn(w, i)
  <2>1. \A q \in Processes \ {Home(w)} : tmp'[q] = tmp[q] /\ tmp[q] # i
    BY <1>3, <1>6, <1>10
  <2>2. tmp'[Home(w)] = i
    BY <1>7, <1>10
  <2> QED BY <1>3, <1>5, <1>7, <1>8, <1>9, <1>10, <2>1, <2>2 DEF OnItsOwn
<1> QED
  BY <1>1, <1>3, <1>11, AloneOnItsOwn

\* The next part is written after the last.
LEMMA AloneWrites ==
  ASSUME IInv, Apart, Alone, NEW w \in crew, Write(w), UNCHANGED crew
  PROVE  Alone' /\ CellStep
<1>0. PICK p, i, n : p = Home(w) /\ i = fd[w] /\ n = Len(got[w]) + 1
  OBVIOUS
<1>1. w \in Workers /\ p \in Processes /\ Nothing \notin Inodes
  BY <1>0, HomeTypes DEF IInv, Typed, Workers
<1>2. /\ pc[w] = "write" /\ n <= Len(job[w])
      /\ content' = [content EXCEPT ![i] = Overwrite(content[i], n, job[w][n])]
      /\ got' = [got EXCEPT ![w] = Append(@, job[w][n])]
      /\ UNCHANGED <<path, tmp, pc, job, fd, opened, given>>
  BY <1>0 DEF Write
<1>3. /\ i \in Inodes /\ tmp[p] = i /\ got[w] \in Files /\ job[w] \in Files
      /\ Len(got[w]) <= Len(job[w]) /\ content[i] = [k \in 1 .. Len(got[w]) |-> job[w][k]]
  BY <1>0, <1>1, <1>2 DEF IInv, Typed, Alone, StoresAlone
<1>4. /\ path # i
      /\ \A q \in Processes \ {p} : tmp[q] # i
      /\ \A v \in Workers : pc[v] = "read" => fd[v] # i
  BY <1>1, <1>3 DEF Alone, NamesApart, LoadsAlone
<1>5. n \in Nat \ {0} /\ n = Len(got[w]) + 1 /\ n \in DOMAIN job[w] /\ job[w][n] \in AllParts
  BY <1>0, <1>2, <1>3 DEF Files
<1>6. Len(got'[w]) = n
  <2>1. got'[w] = Append(got[w], job[w][n])
    BY <1>1, <1>2 DEF IInv, Typed
  <2> QED BY <1>3, <1>5, <2>1 DEF Files
<1>7. content'[i] = [k \in 1 .. n |-> job[w][k]]
  <2>1. content'[i] = Overwrite(content[i], n, job[w][n])
    BY <1>2, <1>3 DEF IInv, Typed
  <2>2. Len(content[i]) = n - 1 /\ DOMAIN content[i] = 1 .. (n - 1)
    BY <1>3, <1>5 DEF Files
  <2>3. content'[i] = [k \in 1 .. n |-> IF k = n THEN job[w][n]
                                        ELSE IF k \in DOMAIN content[i] THEN content[i][k] ELSE Gap]
    BY <1>5, <2>1, <2>2 DEF Overwrite, Gap
  <2>4. \A k \in 1 .. n : content'[i][k] = job[w][k]
    BY <1>3, <1>5, <2>2, <2>3
  <2> QED BY <2>3, <2>4
<1>8. \A v \in Workers \ {w} : pc'[v] = pc[v] /\ fd'[v] = fd[v] /\ got'[v] = got[v] /\ job'[v] = job[v]
  BY <1>2 DEF IInv, Typed
<1>9. \A j \in Inodes \ {i} : content'[j] = content[j]
  BY <1>2 DEF IInv, Typed
<1>10. OnItsOwn(w, i)
  <2>1. \A q \in Processes \ {Home(w)} : tmp'[q] = tmp[q] /\ tmp[q] # i
    BY <1>0, <1>2, <1>4
  <2>2. tmp'[Home(w)] = i /\ fd'[w] = i /\ pc'[w] = "write" /\ job'[w] = job[w]
    BY <1>0, <1>2, <1>3
  <2>3. Len(got'[w]) <= Len(job'[w])
    BY <1>2, <1>3, <1>5, <1>6, <2>2 DEF Files
  <2>4. content'[i] = [k \in 1 .. Len(got'[w]) |-> job'[w][k]]
    BY <1>6, <1>7, <2>2
  <2>5. UNCHANGED <<crew, path, opened>> /\ pc[w] # "idle"
    BY <1>2
  <2> QED BY <1>4, <1>8, <1>9, <2>1, <2>2, <2>3, <2>4, <2>5 DEF OnItsOwn
<1> QED
  BY <1>1, <1>3, <1>10, AloneOnItsOwn

\* A file is opened, and read on.
LEMMA AloneReads ==
  ASSUME IInv, Apart, Alone, NEW w \in crew, Load(w) \/ Read(w), UNCHANGED crew
  PROVE  Alone' /\ CellStep
<1>0. w \in Workers
  BY DEF IInv, Typed, Workers
<1>1. /\ UNCHANGED <<crew, path, tmp, content, job, given>> /\ pc'[w] = "read"
      /\ opened' = [v \in Workers |-> opened'[v]]
      /\ \A v \in Workers \ {w} : /\ pc'[v] = pc[v] /\ fd'[v] = fd[v] /\ got'[v] = got[v]
                                  /\ opened'[v] = opened[v]
  BY <1>0 DEF Load, Read, IInv, Typed, Alone
<1>2. LoadsAlone(w)'
  <2>1. CASE Load(w)
    <3>1. /\ path # Nothing /\ fd'[w] = path /\ got'[w] = <<>>
          /\ opened'[w] = content[path] /\ content[path] \in Files
      BY <1>0, <2>1 DEF Load, IInv, Typed, Alone
    <3>2. Len(got'[w]) = 0 /\ Len(opened'[w]) \in Nat
      BY <3>1 DEF Files
    <3> QED BY <1>1, <3>1, <3>2 DEF Alone, NamesApart, LoadsAlone
  <2>2. CASE Read(w)
    <3>1. /\ pc[w] = "read" /\ fd'[w] = fd[w] /\ opened'[w] = opened[w] /\ opened[w] = content[fd[w]]
          /\ got[w] \in Files /\ opened[w] \in Files
          /\ Len(got[w]) + 1 <= Len(opened[w])
          /\ \A k \in 1 .. Len(got[w]) : got[w][k] = opened[w][k]
      BY <1>0, <2>2 DEF Read, IInv, Typed, Alone, LoadsAlone
    <3>2. got'[w] = Append(got[w], opened[w][Len(got[w]) + 1])
      BY <1>0, <2>2, <3>1 DEF Read, IInv, Typed
    <3>3. PICK n : n = Len(got[w])
      OBVIOUS
    <3>4. n \in Nat /\ n + 1 \in DOMAIN opened[w] /\ opened[w][n + 1] \in AllParts
      BY <3>1, <3>3 DEF Files
    <3>5. /\ Len(got'[w]) = n + 1 /\ got'[w][n + 1] = opened[w][n + 1]
          /\ \A k \in 1 .. n : got'[w][k] = got[w][k]
      BY <3>1, <3>2, <3>3, <3>4 DEF Files
    <3>6. \A k \in 1 .. (n + 1) : got'[w][k] = opened[w][k]
      BY <3>1, <3>3, <3>4, <3>5
    <3>7. \A p \in Processes : tmp'[p] # fd'[w]
      BY <1>0, <1>1, <3>1 DEF Alone, LoadsAlone
    <3>8. opened'[w] = content'[fd'[w]] /\ Len(got'[w]) <= Len(opened'[w])
      BY <1>1, <3>1, <3>3, <3>5
    <3> QED BY <1>1, <3>1, <3>5, <3>6, <3>7, <3>8 DEF LoadsAlone
  <2> QED BY <2>1, <2>2
<1>3. StoresAlone(w)'
  BY <1>1 DEF StoresAlone
<1>4. ASSUME NEW v \in Workers \ {w} PROVE StoresAlone(v)' /\ LoadsAlone(v)'
  BY <1>1 DEF Alone, StoresAlone, LoadsAlone
<1>5. \A v \in Workers : pc'[v] # "idle" => v \in crew'
  BY <1>1 DEF Alone
<1>6. NamesApart'
  BY <1>1 DEF Alone, NamesApart
<1>7. Alone'
  BY <1>1, <1>2, <1>3, <1>4, <1>5, <1>6 DEF Alone
<1>8. CellStep
  BY <1>1 DEF CellStep, Held, Apart
<1> QED
  BY <1>7, <1>8

AloneWhenApart == Apart => Alone

\* Every step keeps the workers apart, and is a step of the cell.
LEMMA NextAlone ==
  ASSUME IInv, IInv', AloneWhenApart, [Next]_vars
  PROVE  AloneWhenApart' /\ CellStep
<1>1. crew' = crew /\ (Apart' <=> Apart)
  BY DEF Next, vars, Apart
<1>2. CASE ~Apart
  BY <1>1, <1>2 DEF AloneWhenApart, CellStep, Held
<1>3. CASE Apart
  <2>1. Alone /\ UNCHANGED crew /\ crew \subseteq Workers /\ Typed'
    BY <1>1, <1>3 DEF AloneWhenApart, IInv, Typed, Workers
  <2>2. CASE Next
    BY <1>3, <2>1, <2>2, AloneStores, AloneCreates, AloneWrites, AloneRenames, AloneCloses, AloneReads,
       AloneInTheWorld
       DEF Next, AloneWhenApart
  <2>3. CASE UNCHANGED vars
    BY <1>1, <2>1, <2>3 DEF vars, Alone, AloneWhenApart, NamesApart, StoresAlone, LoadsAlone, CellStep, Held
  <2> QED BY <2>2, <2>3
<1> QED
  BY <1>2, <1>3

\* Workers of different processes keep out of each other's way in every reachable state.
THEOREM ApartInvariant == Spec => [](IInv /\ AloneWhenApart)
<1>1. Init => IInv /\ AloneWhenApart
  BY InitHolds, AloneInit DEF AloneWhenApart
<1>2. IInv /\ AloneWhenApart /\ [Next]_vars => (IInv /\ AloneWhenApart)'
  BY NextHolds, NextAlone
<1> QED
  BY <1>1, <1>2, PTL DEF Spec

\* A load takes effect at one instant: among processes of one thread each, what it
\* has read is the file it opened, whatever is renamed, removed or pruned meanwhile.
THEOREM LoadsAtOnce == Spec => []LoadsAtomically
<1>1. IInv /\ AloneWhenApart => LoadsAtomically
  BY DEF IInv, Typed, AloneWhenApart, Alone, LoadsAlone, LoadsAtomically, Workers
<1> QED
  BY <1>1, ApartInvariant, PTL

\* "Replacing any previous one atomically": to processes of one thread each the key is
\* the cell of DiskCell, replaced whole or dropped by each step of theirs.
THEOREM KeyIsACell == Spec => ImplementsCell
<1>1. Init => Cell!Init
  BY AloneInit DEF Cell!Init
<1>2. ASSUME IInv, IInv', AloneWhenApart, [Next]_vars
      PROVE  [Cell!Next]_(Held)
  <2>1. CellStep
    BY <1>2, NextAlone
  <2> QED BY <2>1 DEF CellStep, Cell!Next, Cell!Replace, Cell!Drop, Held
<1> QED
  BY <1>1, <1>2, ApartInvariant, PTL DEF Spec, ImplementsCell, Cell!Spec, Held

\* Among processes of one thread each, a store that reports success has given the
\* key's name the whole artifact it was asked to store, whatever was left under its
\* temporary name before.
THEOREM StoresLandWhole == Spec => StoresLand
<1>1. ASSUME IInv, Apart, Alone, [Next]_vars, NEW w \in crew, pc[w] = "write", pc'[w] = "stored"
      PROVE  path' # Nothing /\ content'[path'] = job[w]
  <2>1. w \in Workers /\ crew \subseteq Workers /\ Home(w) \in Processes
    BY <1>1, HomeTypes DEF IInv, Typed, Workers
  <2>2. Rename(w)
    <3>1. ~Prune /\ ~(\E p \in Processes : Crash(p)) /\ ~(UNCHANGED vars)
      BY <1>1, <2>1 DEF Prune, Crash, vars
    <3>2. PICK v \in crew : \/ Store(v) \/ Create(v) \/ Write(v) \/ Rename(v) \/ Fail(v) \/ Cleanup(v)
                           \/ NoDirectory(v) \/ Load(v) \/ Read(v) \/ ReadFails(v) \/ Decode(v) \/ Discard(v)
      BY <1>1, <3>1 DEF Next
    <3>3. v = w
      BY <1>1, <2>1, <3>2 DEF IInv, Typed, Store, Create, Write, Rename, Fail, Cleanup, NoDirectory,
         Load, Read, ReadFails, Decode, Discard
    <3> QED
      BY <1>1, <2>1, <3>2, <3>3 DEF IInv, Typed, Rest, Store, Create, Write, Fail, Cleanup, NoDirectory,
         Load, Read, ReadFails, Decode, Discard
  <2>3. PICK i : i = fd[w]
    OBVIOUS
  <2>4. /\ i \in Inodes /\ i # Nothing /\ tmp[Home(w)] = i /\ job[w] \in Files
        /\ content[i] = [k \in 1 .. Len(job[w]) |-> job[w][k]]
    BY <1>1, <2>1, <2>2, <2>3, HomeTypes DEF Rename, IInv, Typed, Alone, StoresAlone
  <2>5. content[i] = job[w]
    BY <2>4 DEF Files
  <2>6. path' = i /\ content'[i] = content[i]
    BY <2>2, <2>4 DEF Rename, Reclaim, Linked
  <2> QED BY <2>4, <2>5, <2>6
<1>2. IInv /\ AloneWhenApart /\ [Next]_vars =>
        [Apart => \A w \in crew :
           pc[w] = "write" /\ pc'[w] = "stored" => path' # Nothing /\ content'[path'] = job[w]]_vars
  BY <1>1 DEF AloneWhenApart
<1> QED
  BY <1>2, ApartInvariant, PTL DEF Spec, StoresLand

-----------------------------------------------------------------------------
(* Which files a prune removes. *)

Shape ==
  /\ file = [k \in Keys |-> file[k]]
  /\ stage \in [Pruners -> {"idle", "list", "remove", "done", "failed"}]
  /\ unseen \in [Pruners -> SUBSET Keys]
  /\ beyond \in [Pruners -> SUBSET Keys]
  /\ entries = [p \in Pruners |-> entries[p]]
  /\ \A p \in Pruners : DOMAIN entries[p] \subseteq Keys

\* A pruner that has not begun has no list, and nothing is beyond it.
Blank(p) == stage[p] = "idle" => DOMAIN entries[p] = {} /\ beyond[p] = {}

Remembered(p) == \A k \in DOMAIN entries[p] \ beyond[p] : file[k] \in {Absent, entries[p][k]}

Covered(p) ==
  /\ stage[p] = "list" =>
       \A k \in Keys \ beyond[p] : file[k] # Absent => k \in unseen[p] \cup DOMAIN entries[p]
  /\ stage[p] = "remove" =>
       \A k \in Keys \ (beyond[p] \cup Stuck) : file[k] # Absent => k \in DOMAIN entries[p]

PruneInv == Shape /\ \A p \in Pruners : Blank(p) /\ Remembered(p) /\ Covered(p)

\* Nobody has begun.
LEMMA NobodyPruned == PruneInit => PruneInv
<1> SUFFICES ASSUME PruneInit PROVE PruneInv
  OBVIOUS
<1>1. file = [k \in Keys |-> file[k]]
  BY DEF PruneInit
<1>2. DOMAIN <<>> = {}
  OBVIOUS
<1> QED
  BY <1>1, <1>2 DEF PruneInit, PruneInv, Shape, Blank, Remembered, Covered

\* What removing a name does: it is gone, or it cannot be removed.
LEMMA Unlinked ==
  ASSUME Shape, NEW p \in Pruners, NEW k \in Keys, Unlink(p, k)
  PROVE  /\ file' = [l \in Keys |-> file'[l]]
         /\ \A l \in Keys \ {k} : file'[l] = file[l]
         /\ file'[k] \in {Absent, file[k]}
         /\ k \notin Stuck => file'[k] = Absent
  BY DEF Unlink, Shape

\* A step of one pruner keeps what all of them know.
LEMMA PrunerHolds ==
  ASSUME PruneInv, NEW p \in Pruners, Step(p)
  PROVE  PruneInv'
<1> USE DEF PruneInv, Shape, Blank, Remembered, Covered
<1>1. CASE Begin(p)
  BY <1>1 DEF Begin, Present
<1>2. CASE List(p)
  <2>1. PICK k \in unseen[p] :
          /\ unseen' = [unseen EXCEPT ![p] = @ \ {k}]
          /\ IF file[k] = Absent
               THEN UNCHANGED <<entries, total>>
               ELSE entries' = [entries EXCEPT ![p] =
                      [e \in DOMAIN @ \cup {k} |-> IF e = k THEN file[k] ELSE @[e]]]
    BY <1>2 DEF List
  <2>2. UNCHANGED <<file, stage, beyond>> /\ stage[p] = "list"
    BY <1>2 DEF List
  <2>3. CASE file[k] = Absent
    BY <2>1, <2>2, <2>3
  <2>4. CASE file[k] # Absent
    <3>1. entries'[p] = [e \in DOMAIN entries[p] \cup {k} |-> IF e = k THEN file[k] ELSE entries[p][e]]
      BY <2>1, <2>4
    <3>2. \A q \in Pruners \ {p} : entries'[q] = entries[q] /\ unseen'[q] = unseen[q]
      BY <2>1, <2>4
    <3>3. unseen'[p] = unseen[p] \ {k} /\ k \in Keys
      BY <2>1
    <3>4. Shape'
      BY <2>1, <2>2, <2>4, <3>1, <3>2
    <3>5. Blank(p)' /\ Remembered(p)' /\ Covered(p)'
      <4>1. /\ DOMAIN entries'[p] = DOMAIN entries[p] \cup {k}
            /\ \A e \in DOMAIN entries'[p] : entries'[p][e] = IF e = k THEN file[k] ELSE entries[p][e]
        BY <3>1
      <4>2. Blank(p)'
        BY <2>2
      <4>3. Remembered(p)'
        BY <2>2, <4>1
      <4>4. Covered(p)'
        BY <2>2, <3>3, <4>1
      <4> QED BY <4>2, <4>3, <4>4
    <3>6. \A q \in Pruners \ {p} : Blank(q)' /\ Remembered(q)' /\ Covered(q)'
      BY <2>2, <3>2
    <3> QED BY <3>4, <3>5, <3>6
  <2> QED BY <2>3, <2>4
<1>3. CASE Listed(p)
  BY <1>3 DEF Listed
<1>4. CASE Remove(p)
  <2>1. PICK k \in Oldest(p) :
          /\ Unlink(p, k)
          /\ entries' = [entries EXCEPT ![p] = [e \in DOMAIN @ \ {k} |-> @[e]]]
    BY <1>4 DEF Remove
  <2>2. UNCHANGED <<stage, unseen, beyond>> /\ stage[p] = "remove"
    BY <1>4 DEF Remove
  <2>3. k \in Keys /\ k \in DOMAIN entries[p]
    BY DEF Oldest
  <2>4. /\ file' = [l \in Keys |-> file'[l]]
        /\ \A l \in Keys \ {k} : file'[l] = file[l]
        /\ file'[k] \in {Absent, file[k]}
        /\ k \notin Stuck => file'[k] = Absent
    BY <2>1, <2>3, Unlinked
  <2>5. /\ entries'[p] = [e \in DOMAIN entries[p] \ {k} |-> entries[p][e]]
        /\ \A q \in Pruners \ {p} : entries'[q] = entries[q]
    BY <2>1
  <2>6. Shape'
    BY <2>1, <2>2, <2>4, <2>5
  <2>7. Blank(p)' /\ Remembered(p)' /\ Covered(p)'
    BY <2>2, <2>3, <2>4, <2>5
  <2>8. ASSUME NEW q \in Pruners \ {p}
        PROVE  Blank(q)' /\ Remembered(q)' /\ Covered(q)'
    <3>1. entries'[q] = entries[q] /\ stage'[q] = stage[q] /\ beyond'[q] = beyond[q] /\ unseen'[q] = unseen[q]
      BY <2>2, <2>5
    <3>2. \A l \in Keys : file'[l] \in {Absent, file[l]}
      BY <2>4
    <3>3. Blank(q)'
      BY <3>1
    <3>4. Remembered(q)'
      BY <3>1, <3>2
    <3>5. Covered(q)'
      BY <3>1, <3>2
    <3> QED BY <3>3, <3>4, <3>5
  <2> QED BY <2>6, <2>7, <2>8
<1>5. CASE Finish(p)
  BY <1>5 DEF Finish
<1>6. CASE GiveUp(p)
  BY <1>6 DEF GiveUp
<1>7. CASE PassOver(p)
  <2>1. PICK k \in unseen[p] :
          /\ unseen' = [unseen EXCEPT ![p] = @ \ {k}]
          /\ beyond' = [beyond EXCEPT ![p] = @ \cup {k}]
    BY <1>7 DEF PassOver
  <2>2. UNCHANGED <<file, stage, entries>> /\ stage[p] = "list" /\ k \in Keys
    BY <1>7 DEF PassOver
  <2>3. /\ unseen'[p] = unseen[p] \ {k} /\ beyond'[p] = beyond[p] \cup {k}
        /\ \A q \in Pruners \ {p} : unseen'[q] = unseen[q] /\ beyond'[q] = beyond[q]
    BY <2>1
  <2>4. Shape'
    BY <2>1, <2>2, <2>3
  <2>5. \A q \in Pruners : Blank(q)' /\ Remembered(q)'
    BY <2>2, <2>3
  <2>6. \A q \in Pruners : Covered(q)'
    BY <2>2, <2>3
  <2> QED BY <2>4, <2>5, <2>6
<1> QED
  BY <1>1, <1>2, <1>3, <1>4, <1>5, <1>6, <1>7 DEF Step

\* A store is beyond every pruner that has begun.
LEMMA StoreFileHolds ==
  ASSUME PruneInv, StoreFile
  PROVE  PruneInv'
<1> USE DEF PruneInv, Shape, Blank, Remembered, Covered
<1>1. PICK k \in Keys, s \in Sizes :
        /\ file' = [file EXCEPT ![k] = [size |-> s, modified |-> Newest + 1]]
        /\ beyond' = [p \in Pruners |-> IF stage[p] = "idle" THEN beyond[p] ELSE beyond[p] \cup {k}]
        /\ \E seen \in SUBSET {p \in Pruners : stage[p] = "list" /\ k \notin DOMAIN entries[p]} :
             unseen' = [p \in Pruners |-> IF p \in seen THEN unseen[p] \cup {k} ELSE unseen[p]]
  BY DEF StoreFile
<1>2. UNCHANGED <<stage, entries>>
  BY DEF StoreFile
<1>3. /\ file' = [l \in Keys |-> file'[l]]
      /\ \A l \in Keys \ {k} : file'[l] = file[l]
  BY <1>1
<1>4. \A p \in Pruners : /\ unseen[p] \subseteq unseen'[p] /\ unseen'[p] \subseteq Keys
                         /\ beyond'[p] = IF stage[p] = "idle" THEN beyond[p] ELSE beyond[p] \cup {k}
  BY <1>1
<1>5. Shape'
  BY <1>1, <1>2, <1>3, <1>4
<1>6. ASSUME NEW p \in Pruners
      PROVE  Blank(p)' /\ Remembered(p)' /\ Covered(p)'
  <2>1. Blank(p)'
    BY <1>2, <1>4
  <2>2. Remembered(p)'
    BY <1>2, <1>3, <1>4
  <2>3. Covered(p)'
    BY <1>2, <1>3, <1>4
  <2> QED BY <2>1, <2>2, <2>3
<1> QED
  BY <1>5, <1>6

\* Every reachable state satisfies the inductive invariant.
THEOREM PruneInvariant == PruneSpec => []PruneInv
<1>1. PruneInv /\ [PruneNext]_pruneVars => PruneInv'
  <2> SUFFICES ASSUME PruneInv, [PruneNext]_pruneVars PROVE PruneInv'
    OBVIOUS
  <2>1. CASE UNCHANGED pruneVars
    BY <2>1 DEF pruneVars, PruneInv, Shape, Blank, Remembered, Covered
  <2> QED
    BY <2>1, PrunerHolds, StoreFileHolds DEF PruneNext
<1> QED
  BY <1>1, NobodyPruned, PTL DEF PruneSpec

\* No pruner removes a file while it keeps an older one that it listed or could have
\* listed, however many prune and store at the same time.
THEOREM OldestGoFirst == PruneSpec => OldestFirst
<1>1. ASSUME PruneInv, NEW p \in Pruners, Remove(p), NEW k \in Keys \ (beyond[p] \cup Stuck),
             NEW l \in Keys \ (beyond[p] \cup Stuck), file'[k] # file[k], file'[l] # Absent
      PROVE  file[l].modified >= file[k].modified
  <2>1. PICK o \in Oldest(p) : Unlink(p, o)
    BY <1>1 DEF Remove
  <2>2. o \in DOMAIN entries[p] /\ \A e \in DOMAIN entries[p] : entries[p][o].modified <= entries[p][e].modified
    BY DEF Oldest
  <2>3. /\ \A e \in Keys \ {o} : file'[e] = file[e]
        /\ file'[o] \in {Absent, file[o]}
        /\ o \notin Stuck => file'[o] = Absent
    BY <1>1, <2>1, <2>2, Unlinked DEF PruneInv, Shape
  <2>4. k = o /\ file[k] # Absent /\ l # o /\ file[l] # Absent
    BY <1>1, <2>3
  <2>5. file[k] = entries[p][k]
    BY <1>1, <2>2, <2>4 DEF PruneInv, Remembered
  <2>6. l \in DOMAIN entries[p] /\ file[l] = entries[p][l]
    BY <1>1, <2>4 DEF Remove, PruneInv, Covered, Remembered
  <2> QED
    BY <2>2, <2>4, <2>5, <2>6
<1>2. PruneInv /\ [PruneNext]_pruneVars =>
        (\A p \in Pruners : Remove(p) => \A k, l \in Keys \ (beyond[p] \cup Stuck) :
           file'[k] # file[k] /\ file'[l] # Absent => file[l].modified >= file[k].modified)
  BY <1>1
<1> QED
  BY <1>2, PruneInvariant, PTL DEF PruneSpec, OldestFirst

-----------------------------------------------------------------------------
(* How much a prune removes.

   The sum of a pruner is a promise about bytes: no fewer than those it has listed and not
   yet tried, and those of the files it could not remove (Owed).  Sizes are counted as sets
   of bytes, so that what another pruner removes makes the set smaller, and what this
   one removes is taken out of the set as it is out of the sum. *)

One(k, size) == {k} \X (1 .. size)
Weighed(w, keys) == UNION {One(k, w[k].size) : k \in keys}

ListedBytes(p) == Weighed(entries[p], DOMAIN entries[p])

\* The files a pruner is answerable for, and those of them it could not remove.
Kept(p) == Present \ beyond[p]
Missed(p) == IF stage[p] \in {"remove", "done"} THEN Kept(p) \ DOMAIN entries[p] ELSE {}
Owed(p) == ListedBytes(p) \cup Bytes(Missed(p))

Unaccompanied(p) == beyond[p] = {} /\ \A q \in Pruners \ {p} : stage[q] = "idle"

Sized ==
  /\ \A k \in Keys : file[k] = Absent \/ file[k].size \in Sizes
  /\ \A p \in Pruners : \A k \in DOMAIN entries[p] : entries[p][k].size \in Sizes

\* The sum covers what is owed; while it grows it is what was listed.
Summed(p) ==
  /\ total[p] \in Nat
  /\ unseen[p] \cap DOMAIN entries[p] = {}
  /\ stage[p] = "idle" => total[p] = 0
  /\ stage[p] = "list" => total[p] = Cardinality(ListedBytes(p))
  /\ Cardinality(Owed(p)) <= total[p]
  /\ Missed(p) \subseteq Stuck
  /\ stage[p] = "done" => total[p] <= Capacity \/ DOMAIN entries[p] = {}

\* Unaccompanied, what it remembers is there, and there is no less than its sum.
Exact(p) ==
  Unaccompanied(p) /\ stage[p] \in {"list", "remove"} =>
    /\ \A k \in DOMAIN entries[p] : file[k] = entries[p][k]
    /\ stage[p] = "remove" => total[p] <= SizeOf(Present)

SizeInv == PruneInv /\ Sized /\ total = [p \in Pruners |-> total[p]] /\ \A p \in Pruners : Summed(p) /\ Exact(p)

\* The bytes of one file.
LEMMA OneCounts ==
  ASSUME NEW k, NEW n \in Nat
  PROVE  IsFiniteSet(One(k, n)) /\ Cardinality(One(k, n)) = n
<1>1. IsFiniteSet({k}) /\ Cardinality({k}) = 1
  BY FS_Singleton
<1>2. IsFiniteSet(1 .. n) /\ Cardinality(1 .. n) = n
  <2>1. 1 \in Int /\ n \in Int
    OBVIOUS
  <2> QED BY <2>1, FS_Interval
<1>3. IsFiniteSet({k} \X (1 .. n)) /\ Cardinality({k} \X (1 .. n)) = Cardinality({k}) * Cardinality(1 .. n)
  BY <1>1, <1>2, FS_Product
<1> QED
  BY <1>1, <1>2, <1>3 DEF One

\* Finitely many files have finitely many bytes.
LEMMA WeighedFinite ==
  ASSUME NEW w, NEW keys, IsFiniteSet(keys), \A k \in keys : w[k].size \in Nat
  PROVE  IsFiniteSet(Weighed(w, keys))
<1>1. PICK pieces : pieces = {One(k, w[k].size) : k \in keys}
  OBVIOUS
<1>2. PICK f : f = [k \in keys |-> One(k, w[k].size)]
  OBVIOUS
<1>3. f \in Surjection(keys, pieces)
  BY <1>1, <1>2 DEF Surjection
<1>4. IsFiniteSet(pieces)
  BY <1>3, FS_Surjection
<1>5. \A piece \in pieces : IsFiniteSet(piece)
  BY <1>1, OneCounts
<1>6. IsFiniteSet(UNION pieces)
  BY <1>4, <1>5, FS_UNION
<1> QED
  BY <1>1, <1>6 DEF Weighed

\* Each byte of some files is of one of them.
LEMMA WeighedElement ==
  ASSUME NEW w, NEW keys, NEW b
  PROVE  b \in Weighed(w, keys) <=> \E k \in keys : b \in One(k, w[k].size)
  BY DEF Weighed

LEMMA OneElement ==
  ASSUME NEW k, NEW n, NEW b, b \in One(k, n)
  PROVE  b[1] = k
  BY DEF One

LEMMA BytesWeighed == \A keys : Bytes(keys) = Weighed(file, keys)
  BY DEF Bytes, Weighed, One

\* What a part leaves of a finite set.
LEMMA LeftOver ==
  ASSUME NEW S, IsFiniteSet(S), NEW T \in SUBSET S
  PROVE  /\ IsFiniteSet(S \ T)
         /\ Cardinality(S \ T) = Cardinality(S) - Cardinality(T)
<1>1. IsFiniteSet(S \ T) /\ Cardinality(S \ T) = Cardinality(S) - Cardinality(S \cap T)
  BY FS_Difference
<1>2. S \cap T = T
  OBVIOUS
<1> QED
  BY <1>1, <1>2

\* What a pruner lists, and what is there, has finitely many bytes.
LEMMA BytesFinite ==
  ASSUME PruneInv, Sized, NEW p \in Pruners
  PROVE  /\ IsFiniteSet(ListedBytes(p))
         /\ \A keys \in SUBSET Present : IsFiniteSet(Bytes(keys))
         /\ IsFiniteSet(Owed(p))
<1>1. IsFiniteSet(Keys) /\ Sizes \subseteq Nat
  BY PruneConstants
<1>2. IsFiniteSet(ListedBytes(p))
  <2>1. DOMAIN entries[p] \in SUBSET Keys
    BY DEF PruneInv, Shape
  <2>2. IsFiniteSet(DOMAIN entries[p])
    BY <1>1, <2>1, FS_Subset
  <2>3. \A k \in DOMAIN entries[p] : entries[p][k].size \in Nat
    BY <1>1 DEF Sized
  <2> QED BY <2>2, <2>3, WeighedFinite DEF ListedBytes
<1>3. ASSUME NEW keys \in SUBSET Present PROVE IsFiniteSet(Bytes(keys))
  <2>1. keys \in SUBSET Keys
    BY DEF Present
  <2>2. IsFiniteSet(keys)
    BY <1>1, <2>1, FS_Subset
  <2>3. \A k \in keys : file[k].size \in Nat
    BY <1>1, <2>1 DEF Sized, Present
  <2> QED BY <2>2, <2>3, WeighedFinite, BytesWeighed
<1>4. Missed(p) \in SUBSET Present
  BY DEF Missed, Kept
<1>5. IsFiniteSet(Bytes(Missed(p)))
  BY <1>3, <1>4
<1> QED
  BY <1>2, <1>3, <1>5, FS_Union DEF Owed

\* A pruner that keeps its list and its sum keeps its promise: what it is answerable
\* for only gets less.
LEMMA StillSummed ==
  ASSUME SizeInv, NEW q \in Pruners,
         stage'[q] = stage[q], total'[q] = total[q], entries'[q] = entries[q],
         unseen'[q] \cap DOMAIN entries[q] = {},
         Kept(q)' \subseteq Kept(q),
         \A k \in Kept(q)' : file'[k] = file[k]
  PROVE  Summed(q)'
<1>1. Missed(q)' \subseteq Missed(q) /\ \A k \in Missed(q)' : file'[k] = file[k]
  BY DEF Missed
<1>2. ListedBytes(q)' = ListedBytes(q)
  BY DEF ListedBytes, Weighed
<1>3. Bytes(Missed(q))' \subseteq Bytes(Missed(q))
  BY <1>1 DEF Bytes
<1>4. Owed(q)' \in SUBSET Owed(q)
  BY <1>2, <1>3 DEF Owed
<1>5. IsFiniteSet(Owed(q))
  BY BytesFinite DEF SizeInv
<1>6. Cardinality(Owed(q)') <= Cardinality(Owed(q)) /\ IsFiniteSet(Owed(q)')
  BY <1>4, <1>5, FS_Subset
<1>7. Cardinality(Owed(q)') \in Nat /\ Cardinality(Owed(q)) \in Nat
  BY <1>5, <1>6, FS_CardinalityType
<1>8. Cardinality(Owed(q)') <= total[q] /\ total[q] \in Nat
  BY <1>6, <1>7 DEF SizeInv, Summed
<1> QED
  BY <1>1, <1>2, <1>8 DEF SizeInv, Summed

\* While some pruner has begun, no other is alone.
LEMMA NotAlone ==
  ASSUME NEW p \in Pruners, NEW q \in Pruners \ {p}, stage'[p] # "idle"
  PROVE  Exact(q)'
  BY DEF Exact, Unaccompanied

\* A pruner that begins has listed nothing.
LEMMA BeginSums ==
  ASSUME SizeInv, NEW p \in Pruners, Begin(p)
  PROVE  Summed(p)' /\ Exact(p)'
<1>1. /\ stage[p] = "idle" /\ stage'[p] = "list"
      /\ UNCHANGED <<file, entries, total, beyond>>
  BY DEF Begin, SizeInv, PruneInv, Shape
<1>2. DOMAIN entries'[p] = {} /\ total'[p] = 0
  BY <1>1 DEF SizeInv, PruneInv, Blank, Summed
<1>3. Missed(p)' = {}
  BY <1>1 DEF Missed
<1>4. ListedBytes(p)' = {} /\ Owed(p)' = {}
  BY <1>2, <1>3 DEF ListedBytes, Weighed, Owed, Bytes
<1>5. Cardinality({}) = 0
  BY FS_EmptySet
<1>6. Summed(p)'
  BY <1>1, <1>2, <1>3, <1>4, <1>5 DEF Summed
<1>7. Exact(p)'
  BY <1>1, <1>2 DEF Exact
<1> QED
  BY <1>6, <1>7

\* What is listed is added to the sum.
LEMMA ListSums ==
  ASSUME SizeInv, NEW p \in Pruners, List(p)
  PROVE  Summed(p)' /\ Exact(p)'
<1>1. PICK k \in unseen[p] :
        /\ unseen' = [unseen EXCEPT ![p] = @ \ {k}]
        /\ IF file[k] = Absent
             THEN UNCHANGED <<entries, total>>
             ELSE /\ entries' = [entries EXCEPT ![p] =
                       [e \in DOMAIN @ \cup {k} |-> IF e = k THEN file[k] ELSE @[e]]]
                  /\ total' = [total EXCEPT ![p] = @ + file[k].size]
  BY DEF List
<1>2. UNCHANGED <<file, stage, beyond>> /\ stage[p] = "list"
  BY DEF List
<1>3. k \in Keys /\ k \notin DOMAIN entries[p] /\ unseen'[p] = unseen[p] \ {k}
  BY <1>1 DEF SizeInv, Summed, PruneInv, Shape
<1>4. Kept(p)' = Kept(p) /\ Unaccompanied(p)' = Unaccompanied(p) /\ Missed(p)' = {}
  BY <1>2 DEF Kept, Present, Unaccompanied, Missed
<1>5. CASE file[k] = Absent
  <2>1. UNCHANGED <<entries, total>>
    BY <1>1, <1>5
  <2>2. Summed(p)'
    BY <1>2, <1>3, <1>4, <2>1, StillSummed DEF SizeInv, Summed
  <2>3. Exact(p)'
    BY <1>2, <1>4, <2>1 DEF SizeInv, Exact
  <2> QED BY <2>2, <2>3
<1>6. CASE file[k] # Absent
  <2>1. /\ entries'[p] = [e \in DOMAIN entries[p] \cup {k} |-> IF e = k THEN file[k] ELSE entries[p][e]]
        /\ total'[p] = total[p] + file[k].size
    BY <1>1, <1>6 DEF SizeInv, PruneInv, Shape
  <2>2. file[k].size \in Nat
    BY <1>3, <1>6, PruneConstants DEF SizeInv, Sized
  <2>3. ListedBytes(p)' = ListedBytes(p) \cup One(k, file[k].size)
    <3>1. DOMAIN entries'[p] = DOMAIN entries[p] \cup {k}
      BY <2>1
    <3>2. \A e \in DOMAIN entries[p] : entries'[p][e] = entries[p][e]
      BY <1>3, <2>1
    <3>3. entries'[p][k] = file[k]
      BY <2>1
    <3> QED BY <3>1, <3>2, <3>3 DEF ListedBytes, Weighed
  <2>4. ListedBytes(p) \cap One(k, file[k].size) = {}
    BY <1>3, OneElement, WeighedElement DEF ListedBytes
  <2>5. IsFiniteSet(ListedBytes(p)) /\ IsFiniteSet(One(k, file[k].size))
        /\ Cardinality(One(k, file[k].size)) = file[k].size
    BY <2>2, BytesFinite, OneCounts DEF SizeInv
  <2>6. Cardinality(ListedBytes(p)') = Cardinality(ListedBytes(p)) + file[k].size
    <3>1. Cardinality(ListedBytes(p) \cup One(k, file[k].size)) =
            Cardinality(ListedBytes(p)) + Cardinality(One(k, file[k].size)) - Cardinality({})
      BY <2>4, <2>5, FS_Union
    <3>2. Cardinality(ListedBytes(p)) \in Nat /\ Cardinality({}) = 0
      BY <2>5, FS_CardinalityType, FS_EmptySet
    <3> QED BY <2>2, <2>3, <2>5, <3>1, <3>2
  <2>7. Owed(p)' = ListedBytes(p)'
    BY <1>4 DEF Owed, Bytes
  <2>8. total[p] = Cardinality(ListedBytes(p)) /\ total[p] \in Nat
    BY <1>2 DEF SizeInv, Summed
  <2>9. total'[p] = Cardinality(ListedBytes(p)') /\ total'[p] \in Nat
    BY <2>1, <2>2, <2>6, <2>8
  <2>10. Summed(p)'
    <3>1. unseen'[p] \cap DOMAIN entries'[p] = {}
      BY <1>3, <2>1 DEF SizeInv, Summed
    <3> QED BY <1>2, <1>4, <2>7, <2>9, <3>1 DEF Summed
  <2>11. Exact(p)'
    BY <1>2, <1>3, <1>4, <2>1 DEF SizeInv, Exact
  <2> QED BY <2>10, <2>11
<1> QED
  BY <1>5, <1>6

\* A pruner that passes a file over is not answerable for it; one that gives up is not
\* answerable for anything.
LEMMA PassOverSums ==
  ASSUME SizeInv, NEW p \in Pruners, PassOver(p) \/ GiveUp(p)
  PROVE  Summed(p)' /\ Exact(p)'
<1>1. UNCHANGED <<file, entries, total>>
  BY DEF PassOver, GiveUp
<1>2. CASE PassOver(p)
  <2>1. /\ stage' = stage /\ unseen'[p] \subseteq unseen[p] /\ beyond[p] \subseteq beyond'[p]
        /\ beyond'[p] # {}
    BY <1>2 DEF PassOver, SizeInv, PruneInv, Shape
  <2>2. Kept(p)' \subseteq Kept(p) /\ \A k \in Kept(p)' : file'[k] = file[k]
    BY <1>1, <2>1 DEF Kept, Present
  <2>3. Summed(p)'
    BY <1>1, <2>1, <2>2, StillSummed DEF SizeInv, Summed
  <2> QED BY <2>1, <2>3 DEF Exact, Unaccompanied
<1>3. CASE GiveUp(p)
  <2>1. /\ stage[p] \in {"idle", "list"} /\ stage'[p] = "failed" /\ unseen' = unseen
    BY <1>3 DEF GiveUp, SizeInv, PruneInv, Shape
  <2>2. Missed(p) = {} /\ Missed(p)' = {} /\ ListedBytes(p)' = ListedBytes(p)
    BY <1>1, <2>1 DEF Missed, ListedBytes, Weighed
  <2>3. Owed(p)' = Owed(p)
    BY <2>2 DEF Owed, Bytes
  <2>4. Summed(p)'
    BY <1>1, <2>1, <2>2, <2>3 DEF SizeInv, Summed
  <2> QED BY <2>1, <2>4 DEF Exact
<1> QED
  BY <1>2, <1>3

\* At the end of a listing nothing is missed, and the sum is what is there.
LEMMA ListedSums ==
  ASSUME SizeInv, NEW p \in Pruners, Listed(p)
  PROVE  Summed(p)' /\ Exact(p)'
<1>1. /\ stage[p] = "list" /\ unseen[p] = {}
      /\ UNCHANGED <<file, unseen, entries, total, beyond>>
      /\ stage'[p] = IF total[p] <= Capacity THEN "done" ELSE "remove"
      /\ \A q \in Pruners \ {p} : stage'[q] = stage[q]
  BY DEF Listed, SizeInv, PruneInv, Shape
<1>2. Kept(p) \subseteq DOMAIN entries[p]
  BY <1>1 DEF Kept, Present, SizeInv, PruneInv, Covered
<1>3. Missed(p)' = {} /\ Missed(p) = {} /\ ListedBytes(p)' = ListedBytes(p)
  BY <1>1, <1>2 DEF Missed, Kept, Present, ListedBytes, Weighed
<1>4. Owed(p)' = Owed(p)
  BY <1>3 DEF Owed, Bytes
<1>5. Summed(p)'
  BY <1>1, <1>3, <1>4 DEF SizeInv, Summed
<1>6. ASSUME Unaccompanied(p)', stage'[p] \in {"list", "remove"} PROVE total[p] <= SizeOf(Present)
  <2>1. \A k \in DOMAIN entries[p] : file[k] = entries[p][k]
    BY <1>1, <1>6 DEF Unaccompanied, SizeInv, Exact
  <2>2. \A k \in DOMAIN entries[p] : file[k].size \in Nat \ {0} /\ k \in Keys
    BY <2>1, PruneConstants DEF SizeInv, Sized, PruneInv, Shape
  <2>3. DOMAIN entries[p] \subseteq Present
    BY <2>2 DEF Present, Absent
  <2>4. ListedBytes(p) \in SUBSET Bytes(Present)
    BY <2>1, <2>3, BytesWeighed DEF ListedBytes, Weighed
  <2>5. IsFiniteSet(Bytes(Present)) /\ IsFiniteSet(ListedBytes(p))
    BY BytesFinite DEF SizeInv
  <2>6. Cardinality(ListedBytes(p)) <= Cardinality(Bytes(Present))
    BY <2>4, <2>5, FS_Subset
  <2> QED BY <1>1, <2>6 DEF SizeOf, SizeInv, Summed
<1>7. Exact(p)'
  BY <1>1, <1>6 DEF SizeInv, Exact, Unaccompanied, SizeOf, Present, Bytes
<1> QED
  BY <1>5, <1>7

\* What a removal takes out of the sum it takes out of what is owed; a file that cannot be
\* removed is owed as before.
LEMMA RemoveSums ==
  ASSUME SizeInv, NEW p \in Pruners, Remove(p)
  PROVE  Summed(p)' /\ Exact(p)'
<1>1. PICK k \in Oldest(p) :
        /\ Unlink(p, k)
        /\ entries' = [entries EXCEPT ![p] = [e \in DOMAIN @ \ {k} |-> @[e]]]
  BY DEF Remove
<1>2. UNCHANGED <<stage, unseen, beyond>> /\ stage[p] = "remove"
  BY DEF Remove
<1>3. k \in DOMAIN entries[p] /\ k \in Keys
  BY DEF Oldest, SizeInv, PruneInv, Shape
<1>4. entries'[p] = [e \in DOMAIN entries[p] \ {k} |-> entries[p][e]]
  BY <1>1 DEF SizeInv, PruneInv, Shape
<1>5. PICK size : size = entries[p][k].size
  OBVIOUS
<1>6. size \in Nat \ {0}
  BY <1>3, <1>5, PruneConstants DEF SizeInv, Sized
<1>7. ListedBytes(p) = ListedBytes(p)' \cup One(k, size)
  <2>1. /\ DOMAIN entries'[p] = DOMAIN entries[p] \ {k}
        /\ \A e \in DOMAIN entries'[p] : entries'[p][e] = entries[p][e]
    BY <1>4
  <2> QED BY <1>3, <1>5, <2>1 DEF ListedBytes, Weighed
<1>8. ListedBytes(p)' \cap One(k, size) = {}
  <2>1. \A b \in ListedBytes(p)' : b[1] # k
    <3> SUFFICES ASSUME NEW e \in DOMAIN entries'[p], NEW b \in One(e, entries'[p][e].size)
                 PROVE  b[1] # k
      BY DEF ListedBytes, Weighed
    <3> QED BY <1>4, OneElement
  <2> QED BY <2>1, OneElement
<1>9. /\ IsFiniteSet(Owed(p)) /\ IsFiniteSet(ListedBytes(p)) /\ IsFiniteSet(Bytes(Present))
      /\ Cardinality(Owed(p)) <= total[p] /\ total[p] \in Nat
  BY BytesFinite DEF SizeInv, Summed
<1>10. IsFiniteSet(One(k, size)) /\ Cardinality(One(k, size)) = size
  BY <1>6, OneCounts
<1>11. unseen'[p] \cap DOMAIN entries'[p] = {}
  BY <1>2, <1>4 DEF SizeInv, Summed
<1>12. ASSUME Unaccompanied(p)'
       PROVE  /\ Unaccompanied(p) /\ \A e \in DOMAIN entries[p] : file[e] = entries[p][e]
              /\ total[p] <= SizeOf(Present)
  BY <1>2, <1>12 DEF Unaccompanied, SizeInv, Exact
<1>13. CASE file[k] # Absent /\ k \notin Stuck
  <2>1. /\ file' = [file EXCEPT ![k] = Absent]
        /\ total'[p] = total[p] - size
    BY <1>1, <1>5, <1>13 DEF Unlink, SizeInv
  <2>2. /\ file'[k] = Absent
        /\ \A l \in Keys \ {k} : file'[l] = file[l]
    BY <1>3, <2>1 DEF SizeInv, PruneInv, Shape
  <2>3. Missed(p)' \subseteq Missed(p) /\ k \notin Missed(p)' /\ k \notin Missed(p)
    BY <1>2, <1>3, <1>4, <2>2 DEF Missed, Kept, Present
  <2>4. Bytes(Missed(p))' \subseteq Bytes(Missed(p))
    BY <2>2, <2>3 DEF Bytes, Missed, Kept, Present
  <2>5. Bytes(Missed(p))' \cap One(k, size) = {}
    <3> SUFFICES ASSUME NEW l \in Missed(p), NEW b \in One(l, file[l].size) PROVE b[1] # k
      BY <2>4, OneElement, BytesWeighed DEF Weighed
    <3> QED BY <2>3, OneElement
  <2>6. Owed(p)' \in SUBSET (Owed(p) \ One(k, size)) /\ One(k, size) \in SUBSET Owed(p)
    BY <1>7, <1>8, <2>4, <2>5 DEF Owed
  <2>7. /\ IsFiniteSet(Owed(p) \ One(k, size))
        /\ Cardinality(Owed(p) \ One(k, size)) = Cardinality(Owed(p)) - size
    BY <1>9, <1>10, <2>6, LeftOver
  <2>8. Cardinality(Owed(p)') <= Cardinality(Owed(p)) - size /\ IsFiniteSet(Owed(p)')
    BY <2>6, <2>7, FS_Subset
  <2>9. Cardinality(Owed(p)') \in Nat /\ Cardinality(Owed(p)) \in Nat
    BY <1>9, <2>8, FS_CardinalityType
  <2>10. Cardinality(Owed(p)') <= total'[p] /\ total'[p] \in Nat
    BY <1>6, <1>9, <2>1, <2>8, <2>9
  <2>11. Summed(p)'
    BY <1>2, <1>11, <2>3, <2>10 DEF SizeInv, Summed
  <2>12. ASSUME Unaccompanied(p)' PROVE total'[p] <= SizeOf(Present)'
    <3>1. file[k] = entries[p][k] /\ k \in Present
      BY <1>3, <1>12, <1>13, <2>12 DEF Present
    <3>2. Present' = Present \ {k}
      BY <1>3, <2>2 DEF Present
    <3>3. One(k, size) \subseteq Bytes(Present)
      BY <1>5, <3>1, BytesWeighed DEF Weighed
    <3>4. Bytes(Present)' = Bytes(Present) \ One(k, size)
      <4>1. Bytes(Present)' = Weighed(file, Present \ {k})
        BY <2>2, <3>2 DEF Bytes, Weighed, One, Present
      <4>2. \A b \in Weighed(file, Present \ {k}) : b[1] # k
        <5> SUFFICES ASSUME NEW l \in Present \ {k}, NEW b \in One(l, file[l].size) PROVE b[1] # k
          BY DEF Weighed
        <5> QED BY OneElement
      <4>3. Weighed(file, Present) = Weighed(file, Present \ {k}) \cup One(k, size)
        BY <1>5, <3>1 DEF Weighed
      <4> QED BY <4>1, <4>2, <4>3, OneElement, BytesWeighed
    <3>5. Cardinality(Bytes(Present) \ One(k, size)) = Cardinality(Bytes(Present)) - size
      <4>1. One(k, size) \in SUBSET Bytes(Present)
        BY <3>3
      <4> QED BY <1>9, <1>10, <4>1, LeftOver
    <3>6. Cardinality(Bytes(Present)) \in Nat
      BY <1>9, FS_CardinalityType
    <3>7. total[p] <= Cardinality(Bytes(Present))
      BY <1>12, <2>12 DEF SizeOf
    <3> QED BY <1>6, <1>9, <2>1, <3>4, <3>5, <3>6, <3>7 DEF SizeOf
  <2>13. Exact(p)'
    BY <1>2, <1>4, <1>12, <2>2, <2>12 DEF Exact, SizeInv, PruneInv, Shape
  <2> QED BY <2>11, <2>13
<1>14. CASE ~(file[k] # Absent /\ k \notin Stuck)
  <2>1. UNCHANGED <<file, total>>
    BY <1>1, <1>14 DEF Unlink, SizeInv
  <2>2. Missed(p)' \subseteq Missed(p) \cup {k} /\ (k \in Missed(p)' => k \in Stuck /\ file[k] = entries[p][k])
    <3>1. Missed(p)' \subseteq Missed(p) \cup {k}
      BY <1>2, <1>4, <2>1 DEF Missed, Kept, Present
    <3>2. ASSUME k \in Missed(p)' PROVE k \in Stuck /\ file[k] = entries[p][k]
      <4>1. file[k] # Absent /\ k \notin beyond[p]
        BY <1>2, <2>1, <3>2 DEF Missed, Kept, Present
      <4> QED BY <1>3, <1>14, <4>1 DEF SizeInv, PruneInv, Remembered
    <3> QED BY <3>1, <3>2
  <2>3. Bytes(Missed(p))' \subseteq Bytes(Missed(p)) \cup One(k, size)
    BY <1>5, <2>1, <2>2 DEF Bytes, One
  <2>4. Owed(p)' \in SUBSET Owed(p)
    BY <1>7, <2>3 DEF Owed
  <2>5. Cardinality(Owed(p)') <= Cardinality(Owed(p)) /\ IsFiniteSet(Owed(p)')
    BY <1>9, <2>4, FS_Subset
  <2>6. Cardinality(Owed(p)') \in Nat /\ Cardinality(Owed(p)) \in Nat
    BY <1>9, <2>5, FS_CardinalityType
  <2>7. Cardinality(Owed(p)') <= total'[p] /\ total'[p] \in Nat
    BY <1>9, <2>1, <2>5, <2>6
  <2>8. Missed(p)' \subseteq Stuck
    BY <2>2 DEF SizeInv, Summed
  <2>9. Summed(p)'
    BY <1>2, <1>11, <2>7, <2>8 DEF Summed
  <2>10. Exact(p)'
    BY <1>2, <1>4, <1>12, <2>1 DEF Exact, SizeOf, Present, Bytes
  <2> QED BY <2>9, <2>10
<1> QED
  BY <1>13, <1>14
\* A prune that stops has a sum that fits, or nothing left to try.
LEMMA FinishSums ==
  ASSUME SizeInv, NEW p \in Pruners, Finish(p)
  PROVE  Summed(p)' /\ Exact(p)'
<1>1. /\ stage[p] = "remove" /\ stage'[p] = "done"
      /\ UNCHANGED <<file, unseen, entries, total, beyond>>
      /\ total[p] > Capacity => DOMAIN entries[p] = {}
  BY DEF Finish, Over, SizeInv, PruneInv, Shape
<1>2. Missed(p)' = Missed(p) /\ ListedBytes(p)' = ListedBytes(p)
  BY <1>1 DEF Missed, Kept, Present, ListedBytes, Weighed
<1>3. Owed(p)' = Owed(p)
  BY <1>1, <1>2 DEF Owed, Bytes
<1>4. stage'[p] = "done" => total'[p] <= Capacity \/ DOMAIN entries'[p] = {}
  BY <1>1, PruneConstants DEF SizeInv, Summed
<1>5. Summed(p)'
  BY <1>1, <1>2, <1>3, <1>4 DEF SizeInv, Summed
<1> QED
  BY <1>1, <1>5 DEF Exact

\* A pruner's step is nothing to the sum of another.
LEMMA OthersSum ==
  ASSUME SizeInv, NEW p \in Pruners, NEW q \in Pruners \ {p},
         Step(p)
  PROVE  Summed(q)' /\ Exact(q)'
<1> USE DEF SizeInv, PruneInv, Shape
<1>1. /\ stage'[q] = stage[q] /\ total'[q] = total[q] /\ entries'[q] = entries[q]
      /\ unseen'[q] = unseen[q] /\ beyond'[q] = beyond[q] /\ stage'[p] # "idle"
  <2>1. CASE Begin(p)
    BY <2>1 DEF Begin
  <2>2. CASE List(p)
    BY <2>2 DEF List
  <2>3. CASE Listed(p)
    BY <2>3 DEF Listed
  <2>4. CASE Remove(p)
    BY <2>4 DEF Remove, Unlink
  <2>5. CASE Finish(p)
    BY <2>5 DEF Finish
  <2>6. CASE GiveUp(p)
    BY <2>6 DEF GiveUp
  <2>7. CASE PassOver(p)
    BY <2>7 DEF PassOver
  <2> QED BY <2>1, <2>2, <2>3, <2>4, <2>5, <2>6, <2>7 DEF Step
<1>2. \A k \in Keys : file'[k] \in {Absent, file[k]}
  <2>1. CASE Remove(p)
    <3>1. PICK k \in DOMAIN entries[p] : Unlink(p, k)
      BY <2>1 DEF Remove, Oldest
    <3> QED BY <3>1, Unlinked
  <2>2. CASE Begin(p) \/ GiveUp(p) \/ List(p) \/ PassOver(p) \/ Listed(p) \/ Finish(p)
    BY <2>2 DEF Begin, GiveUp, List, PassOver, Listed, Finish
  <2> QED BY <2>1, <2>2 DEF Step
<1>3. Kept(q)' \subseteq Kept(q) /\ \A k \in Kept(q)' : file'[k] = file[k]
  BY <1>1, <1>2 DEF Kept, Present
<1>4. unseen[q] \cap DOMAIN entries[q] = {}
  BY DEF Summed
<1>5. Summed(q)'
  BY <1>1, <1>3, <1>4, StillSummed
<1> QED
  BY <1>1, <1>5, NotAlone

\* What a store writes is no concern of the pruners that have begun.
LEMMA StoreFileSums ==
  ASSUME SizeInv, StoreFile, NEW p \in Pruners
  PROVE  Summed(p)' /\ Exact(p)'
<1> USE DEF SizeInv, PruneInv, Shape
<1>1. PICK k \in Keys, s \in Sizes :
        /\ file' = [file EXCEPT ![k] = [size |-> s, modified |-> Newest + 1]]
        /\ beyond' = [q \in Pruners |-> IF stage[q] = "idle" THEN beyond[q] ELSE beyond[q] \cup {k}]
        /\ \E seen \in SUBSET {q \in Pruners : stage[q] = "list" /\ k \notin DOMAIN entries[q]} :
             unseen' = [q \in Pruners |-> IF q \in seen THEN unseen[q] \cup {k} ELSE unseen[q]]
  BY DEF StoreFile
<1>2. UNCHANGED <<stage, entries, total>>
  BY DEF StoreFile
<1>3. unseen'[p] \cap DOMAIN entries[p] = {}
  <2>1. unseen[p] \cap DOMAIN entries[p] = {}
    BY DEF Summed
  <2>2. unseen'[p] = unseen[p] \/ (unseen'[p] = unseen[p] \cup {k} /\ k \notin DOMAIN entries[p])
    BY <1>1
  <2> QED BY <2>1, <2>2
<1>4. CASE stage[p] = "idle"
  <2>1. Missed(p)' = {} /\ Missed(p) = {} /\ ListedBytes(p)' = ListedBytes(p)
    BY <1>2, <1>4 DEF Missed, ListedBytes, Weighed
  <2>2. Owed(p)' = Owed(p)
    BY <2>1 DEF Owed, Bytes
  <2>3. Summed(p)'
    BY <1>2, <1>3, <1>4, <2>1, <2>2 DEF Summed
  <2> QED BY <1>2, <1>4, <2>3 DEF Exact
<1>5. CASE stage[p] # "idle"
  <2>1. beyond'[p] = beyond[p] \cup {k}
    BY <1>1, <1>5
  <2>2. Kept(p)' \subseteq Kept(p) /\ \A l \in Kept(p)' : file'[l] = file[l]
    BY <1>1, <2>1 DEF Kept, Present
  <2>3. Summed(p)'
    BY <1>2, <1>3, <2>2, StillSummed
  <2> QED BY <2>1, <2>3 DEF Exact, Unaccompanied
<1> QED
  BY <1>4, <1>5

\* Sizes stay sizes, and every pruner keeps a sum.
LEMMA StillSized ==
  ASSUME SizeInv, PruneNext
  PROVE  Sized' /\ total' = [p \in Pruners |-> total'[p]]
<1> USE DEF SizeInv, PruneInv, Shape, Sized
<1>1. ASSUME NEW p \in Pruners, Begin(p) \/ GiveUp(p) \/ PassOver(p) \/ Listed(p) \/ Finish(p)
      PROVE  Sized' /\ total' = [q \in Pruners |-> total'[q]]
  BY <1>1 DEF Begin, GiveUp, PassOver, Listed, Finish
<1>2. ASSUME NEW p \in Pruners, List(p)
      PROVE  Sized' /\ total' = [q \in Pruners |-> total'[q]]
  <2>1. PICK k \in unseen[p] :
          IF file[k] = Absent
            THEN UNCHANGED <<entries, total>>
            ELSE /\ entries' = [entries EXCEPT ![p] =
                      [e \in DOMAIN @ \cup {k} |-> IF e = k THEN file[k] ELSE @[e]]]
                 /\ total' = [total EXCEPT ![p] = @ + file[k].size]
    BY <1>2 DEF List
  <2>2. UNCHANGED file /\ k \in Keys
    BY <1>2 DEF List
  <2>3. CASE file[k] = Absent
    BY <2>1, <2>2, <2>3
  <2>4. CASE file[k] # Absent
    <3>1. entries'[p] = [e \in DOMAIN entries[p] \cup {k} |-> IF e = k THEN file[k] ELSE entries[p][e]]
      BY <2>1, <2>4
    <3>2. \A q \in Pruners \ {p} : entries'[q] = entries[q]
      BY <2>1, <2>4
    <3>3. \A e \in DOMAIN entries'[p] : entries'[p][e].size \in Sizes
      BY <2>2, <2>4, <3>1
    <3> QED BY <2>1, <2>2, <2>4, <3>2, <3>3
  <2> QED BY <2>3, <2>4
<1>3. ASSUME NEW p \in Pruners, Remove(p)
      PROVE  Sized' /\ total' = [q \in Pruners |-> total'[q]]
  <2>1. PICK k \in DOMAIN entries[p] :
          /\ Unlink(p, k)
          /\ entries' = [entries EXCEPT ![p] = [e \in DOMAIN @ \ {k} |-> @[e]]]
    BY <1>3 DEF Remove, Oldest
  <2>2. \A l \in Keys : file'[l] \in {Absent, file[l]}
    BY <2>1, Unlinked
  <2>3. entries'[p] = [e \in DOMAIN entries[p] \ {k} |-> entries[p][e]]
    BY <2>1
  <2>4. \A q \in Pruners \ {p} : entries'[q] = entries[q]
    BY <2>1
  <2>5. total' = [q \in Pruners |-> total'[q]]
    BY <2>1 DEF Unlink
  <2> QED BY <2>2, <2>3, <2>4, <2>5
<1>4. CASE StoreFile
  <2>1. PICK k \in Keys, s \in Sizes : file' = [file EXCEPT ![k] = [size |-> s, modified |-> Newest + 1]]
    BY <1>4 DEF StoreFile
  <2>2. UNCHANGED <<entries, total>>
    BY <1>4 DEF StoreFile
  <2> QED BY <2>1, <2>2
<1> QED
  BY <1>1, <1>2, <1>3, <1>4 DEF PruneNext, Step

\* Nothing is summed yet.
LEMMA NothingSummed == PruneInit => SizeInv
<1> SUFFICES ASSUME PruneInit PROVE SizeInv
  OBVIOUS
<1>1. PruneInv
  BY NobodyPruned
<1>2. DOMAIN <<>> = {} /\ Cardinality({}) = 0
  BY FS_EmptySet
<1>3. Sized /\ total = [p \in Pruners |-> total[p]]
  BY <1>2 DEF PruneInit, Sized
<1>4. ASSUME NEW p \in Pruners PROVE Summed(p) /\ Exact(p)
  <2>1. /\ stage[p] = "idle" /\ unseen[p] = {} /\ DOMAIN entries[p] = {} /\ total[p] = 0
    BY <1>2 DEF PruneInit
  <2>2. Owed(p) = {} /\ Missed(p) = {}
    BY <2>1 DEF Owed, ListedBytes, Weighed, Bytes, Missed
  <2> QED BY <1>2, <2>1, <2>2 DEF Summed, Exact
<1> QED
  BY <1>1, <1>3, <1>4 DEF SizeInv

\* Every reachable state keeps the promise of the sums.
THEOREM SumInvariant == PruneSpec => []SizeInv
<1>1. ASSUME SizeInv, [PruneNext]_pruneVars PROVE SizeInv'
  <2>1. CASE PruneNext
    <3>1. PruneInv'
      BY <1>1, <2>1, PrunerHolds, StoreFileHolds DEF SizeInv, PruneNext
    <3>2. Sized' /\ total' = [p \in Pruners |-> total'[p]]
      BY <1>1, <2>1, StillSized
    <3>3. ASSUME NEW q \in Pruners PROVE Summed(q)' /\ Exact(q)'
      <4>1. CASE StoreFile
        BY <1>1, <4>1, StoreFileSums
      <4>2. ASSUME NEW p \in Pruners, Step(p)
            PROVE  Summed(q)' /\ Exact(q)'
        <5>1. CASE q = p
          BY <1>1, <4>2, <5>1, BeginSums, ListSums, PassOverSums, ListedSums, RemoveSums, FinishSums
            DEF Step
        <5>2. CASE q # p
          BY <1>1, <4>2, <5>2, OthersSum
        <5> QED BY <5>1, <5>2
      <4> QED BY <2>1, <4>1, <4>2 DEF PruneNext
    <3> QED BY <3>1, <3>2, <3>3 DEF SizeInv
  <2>2. CASE UNCHANGED pruneVars
    <3>1. UNCHANGED <<file, stage, unseen, entries, total, beyond>>
      BY <2>2 DEF pruneVars
    <3>2. PruneInv'
      BY <1>1, <3>1 DEF SizeInv, PruneInv, Shape, Blank, Remembered, Covered
    <3>3. Sized' /\ total' = [p \in Pruners |-> total'[p]]
      BY <1>1, <3>1 DEF SizeInv, Sized
    <3>4. ASSUME NEW p \in Pruners PROVE Summed(p)' /\ Exact(p)'
      <4>1. Missed(p)' = Missed(p) /\ ListedBytes(p)' = ListedBytes(p) /\ Bytes(Present)' = Bytes(Present)
        BY <3>1 DEF Missed, Kept, Present, ListedBytes, Weighed, Bytes
      <4>2. Owed(p)' = Owed(p)
        BY <3>1, <4>1 DEF Owed, Bytes
      <4>3. Unaccompanied(p)' = Unaccompanied(p)
        BY <3>1 DEF Unaccompanied
      <4> QED BY <1>1, <3>1, <4>1, <4>2, <4>3 DEF SizeInv, Summed, Exact, SizeOf
    <3> QED BY <3>2, <3>3, <3>4 DEF SizeInv
  <2> QED BY <1>1, <2>1, <2>2
<1> QED
  BY <1>1, NothingSummed, PTL DEF PruneSpec

\* A prune that is over leaves no more of the files it found than the capacity, or files
\* alone that cannot be removed, however many prune and store at the same time.
THEOREM PrunesFit == PruneSpec => []Fits
<1>1. ASSUME SizeInv, NEW p \in Pruners, stage[p] = "done"
      PROVE  SizeOf(Kept(p)) <= Capacity \/ Kept(p) \subseteq Stuck
  <2>1. CASE DOMAIN entries[p] = {}
    BY <1>1, <2>1 DEF SizeInv, Summed, Missed
  <2>2. CASE total[p] <= Capacity
    <3>1. Bytes(Kept(p)) \in SUBSET Owed(p)
      <4>1. ASSUME NEW k \in Kept(p), k \in DOMAIN entries[p] PROVE file[k] = entries[p][k]
        BY <1>1, <4>1 DEF Kept, Present, SizeInv, PruneInv, Remembered
      <4>2. ASSUME NEW k \in Kept(p), k \notin DOMAIN entries[p] PROVE k \in Missed(p)
        BY <1>1, <4>2 DEF Missed
      <4> QED BY <4>1, <4>2 DEF Owed, ListedBytes, Weighed, Bytes, One
    <3>2. IsFiniteSet(Owed(p))
      BY <1>1, BytesFinite DEF SizeInv
    <3>3. IsFiniteSet(Bytes(Kept(p))) /\ Cardinality(Bytes(Kept(p))) <= Cardinality(Owed(p))
      BY <3>1, <3>2, FS_Subset
    <3>4. Cardinality(Bytes(Kept(p))) \in Nat /\ Cardinality(Owed(p)) \in Nat
      BY <3>2, <3>3, FS_CardinalityType
    <3>5. Cardinality(Owed(p)) <= total[p] /\ total[p] \in Nat /\ Capacity \in Nat
      BY <1>1, PruneConstants DEF SizeInv, Summed
    <3> QED BY <2>2, <3>3, <3>4, <3>5 DEF SizeOf
  <2> QED BY <1>1, <2>1, <2>2 DEF SizeInv, Summed
<1>2. SizeInv => Fits
  BY <1>1 DEF Fits, Kept
<1> QED
  BY <1>2, SumInvariant, PTL

\* While no other prunes and nothing is stored, a pruner removes a file only from a
\* directory that is over the capacity.
THEOREM RemovesOnlyWhenOver == PruneSpec => OnlyWhenOver
<1>1. ASSUME SizeInv, NEW p \in Pruners, Remove(p), beyond[p] = {}, \A q \in Pruners \ {p} : stage[q] = "idle"
      PROVE  SizeOf(Present) > Capacity
  <2>1. total[p] <= SizeOf(Present) /\ total[p] \in Nat /\ total[p] > Capacity
    BY <1>1 DEF Remove, Over, SizeInv, Exact, Unaccompanied, Summed
  <2>2. SizeOf(Present) \in Nat
    <3>1. IsFiniteSet(Bytes(Present))
      BY <1>1, BytesFinite DEF SizeInv
    <3> QED BY <3>1, FS_CardinalityType DEF SizeOf
  <2> QED BY <2>1, <2>2, PruneConstants
<1>2. SizeInv /\ [PruneNext]_pruneVars =>
        \A p \in Pruners :
          (/\ Remove(p) /\ file' # file
           /\ beyond[p] = {}
           /\ \A q \in Pruners \ {p} : stage[q] = "idle")
          => SizeOf(Present) > Capacity
  BY <1>1
<1> QED
  BY <1>2, SumInvariant, PTL DEF PruneSpec, OnlyWhenOver
=============================================================================
