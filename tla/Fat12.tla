-------------------------------- MODULE Fat12 --------------------------------
(***************************************************************************)
(* The FAT12 driver (fat12.rs, fat_common.rs): the FAT and the directory   *)
(* entries on the disk, the copy of the FAT a mount keeps in memory, and   *)
(* the operations that change them.  The driver plans an operation from    *)
(* what it reads (the cached FAT, the directory's sectors) and then issues *)
(* sector writes one by one; each of them is a step of its own here, so    *)
(* that a power loss or an I/O error can fall between any two of them.     *)
(*                                                                         *)
(* Abstractions: a cluster is one sector; a data block is a member of a    *)
(* small set; a long name takes one VFAT entry; a deleted slot is only its *)
(* 0xE5 mark, since every reader tests that byte first; a FAT entry is     *)
(* written alone, without the half of a neighbour in the same two bytes.   *)
(* Directories nest one level deep.                                        *)
(***************************************************************************)
EXTENDS Integers, Sequences, FiniteSets, SequencesExt, FiniteSetsExt

CONSTANTS
    LastCluster,      \* data clusters are 2..LastCluster
    RootSlots,        \* entries of the fixed-size root directory
    SlotsPerCluster,  \* entries of one cluster of a subdirectory
    ShortNames,       \* names that fit 8.3, as a user may give them
    LongNames,        \* names that need a VFAT entry
    Aliases,          \* what generate_short_alias tries for them, in order
    Checksum,         \* lfn_checksum of a short name: eight bits, so not injective
    Blocks,           \* what a cluster of a file may hold
    Contents,         \* file contents: sequences of blocks
    MaxFailures       \* how many power losses and I/O errors

\* A short entry, and the VFAT entry before it, fit in one fresh cluster
\* (find_free_entry_run_in, fat12.rs 472); a new directory has room for its dots.
ASSUME SlotsFit == /\ SlotsPerCluster \in Nat \ {0, 1}
                   /\ LastCluster \in Nat \ {0} /\ RootSlots \in Nat

\* A long name is no short one; the aliases are, and a user may give them too.
ASSUME NamesAssumption ==
    /\ Contents \subseteq Seq(Blocks) /\ Aliases \in Seq(Range(Aliases))
    /\ LongNames \cap (ShortNames \cup Range(Aliases)) = {}
    /\ Checksum \in [ShortNames \cup Range(Aliases) -> 0 .. 255]
    /\ MaxFailures \in Nat

VARIABLES
    disk,      \* cluster (or Root) -> its slots or its one data block
    fat,       \* the FAT on the disk
    cache,     \* the mount's copy of it, Fat12Info.fat_bytes
    op,        \* the operation under way: its remaining writes and its outcome
    files,     \* history: the files and directories that must be there
    lost,      \* history: slots of the entries a failure has damaged
    failures

vars == <<disk, fat, cache, op, files, lost, failures>>

Clusters == 2 .. LastCluster
Root == 0
Free == 0
Eoc == -1
Names == ShortNames \cup LongNames

Slot(kind, name, sum, dir, start, size) ==
    [kind |-> kind, name |-> name, sum |-> sum, dir |-> dir, start |-> start, size |-> size]

Unused == Slot("unused", "", 0, FALSE, 0, 0)
Deleted == Slot("deleted", "", 0, FALSE, 0, 0)
Lfn(name, alias) == Slot("lfn", name, Checksum[alias], FALSE, 0, 0)
Dot(start) == Slot("dot", "", 0, TRUE, start, 0)
Entry(short, dir, start, size) == Slot("short", short, 0, dir, start, size)
Zeroed == [j \in 1 .. SlotsPerCluster |-> Unused]
Block(data) == [j \in 1 .. SlotsPerCluster |-> Slot("data", data, 0, FALSE, 0, 0)]

(***************************************************************************)
(* Reading: chains, directories and names.  s is a disk, f a FAT, ls the   *)
(* slots of a directory.                                                   *)
(***************************************************************************)

\* The clusters next_cluster visits from c, as far as it gets: up to the end
\* mark, to a free entry (where it returns an error), or round a cycle.
Chain(f, c) ==
    LET walk[n \in 0 .. LastCluster] ==
          IF n = 0 THEN <<c>>
          ELSE LET soFar == walk[n - 1]
                   next == f[Last(soFar)]
               IN  IF next \in Clusters THEN Append(soFar, next) ELSE soFar
    IN  walk[LastCluster]

Ends(f, c) == f[Last(Chain(f, c))] = Eoc

\* directory_sectors fails on a chain that does not end; every operation on a
\* directory calls it before it writes.
Walkable(f, d) == d = Root \/ Ends(f, d)

\* directory_sectors and the 32-byte slots in them, as <<cluster, index>>.
RootLocs == [j \in 1 .. RootSlots |-> <<Root, j>>]

SlotsOf(ch) == [k \in 1 .. Len(ch) * SlotsPerCluster |->
                  <<ch[(k - 1) \div SlotsPerCluster + 1], ((k - 1) % SlotsPerCluster) + 1>>]

Locs(f, d) == IF d = Root THEN RootLocs ELSE SlotsOf(Chain(f, d))

At(s, l) == s[l[1]][l[2]]
Kind(s, l) == At(s, l).kind

\* Positions a listing reaches: those before the first 0x00.
Scanned(s, ls) == {i \in DOMAIN ls : \A j \in 1 .. i : Kind(s, ls[j]) # "unused"}

\* The name of the short entry at position i: the long name before it if its
\* checksum is that of this short name (take_verified), else its own.
NameAt(s, ls, i) ==
    IF i > 1 /\ Kind(s, ls[i - 1]) = "lfn" /\ At(s, ls[i - 1]).sum = Checksum[At(s, ls[i]).name]
    THEN At(s, ls[i - 1]).name ELSE At(s, ls[i]).name

EntryAt(s, ls, i) ==
    [loc |-> ls[i], pos |-> i, name |-> NameAt(s, ls, i), short |-> At(s, ls[i]).name,
     dir |-> At(s, ls[i]).dir, start |-> At(s, ls[i]).start, size |-> At(s, ls[i]).size]

\* list_entries_in: the entries of a directory, the dots left out.
Listing(s, ls) == {EntryAt(s, ls, i) : i \in {k \in Scanned(s, ls) : Kind(s, ls[k]) = "short"}}

Entries(s, f, d) == Listing(s, Locs(f, d))

\* find_entry_location_in: by long or by short name, the first match.
Find(s, f, d, name) ==
    LET hits == {e \in Entries(s, f, d) : Walkable(f, d) /\ name \in {e.name, e.short}}
    IN  {e \in hits : \A g \in hits : e.pos <= g.pos}

\* read_file_impl on an entry: blocks along the chain until size is reached.
ReadData(s, f, e) ==
    LET ch == Chain(f, e.start)
    IN  [i \in {j \in DOMAIN ch : j <= e.size} |-> s[ch[i]][1].name]

(***************************************************************************)
(* Planning: what an operation is going to write.                          *)
(***************************************************************************)

\* find_free_clusters: the clusters the FAT copy shows free, in order.
FreeClusters(f) ==
    LET upTo[c \in 1 .. LastCluster] ==
          IF c = 1 THEN <<>>
          ELSE IF f[c] = Free THEN Append(upTo[c - 1], c) ELSE upTo[c - 1]
    IN  upTo[LastCluster]

\* A file has at least one cluster.
Need(data) == IF data = <<>> THEN 1 ELSE Len(data)

FatW(c, v) == [to |-> "fat", at |-> c, val |-> v]
DataW(c, v) == [to |-> "data", at |-> c, val |-> v]
SlotW(l, v) == [to |-> "slot", at |-> l, val |-> v]

\* The loop create_file_impl and write_file_impl share: each cluster's data,
\* then its FAT entry.  An empty file has one zeroed cluster.
ChainWrites(cs, data) ==
    [k \in 1 .. 2 * Len(cs) |->
        LET i == (k + 1) \div 2
        IN  IF k % 2 = 1 THEN DataW(cs[i], IF i <= Len(data) THEN Block(data[i]) ELSE Zeroed)
            ELSE FatW(cs[i], IF i < Len(cs) THEN cs[i + 1] ELSE Eoc)]

Open(s, ls) == {i \in DOMAIN ls : Kind(s, ls[i]) \in {"unused", "deleted"}}

\* grow_directory: the directory whose chain ends at last goes on at new.
GrowWrites(last, new) == <<DataW(new, Zeroed), FatW(last, new), FatW(new, Eoc)>>
GrownFat(f, last, new) == [f EXCEPT ![last] = new, ![new] = Eoc]

\* Slip (Fase 171): the run starts over in the fresh cluster.
ContinuedAfresh(ls, p, n, new) == [j \in 1 .. n |-> <<new, j>>]

\* The slots for n entries at the end of ls, from position p on, the missing ones
\* in a fresh cluster.
Continued(ls, p, n, new) ==
    SubSeq(ls, p, Len(ls)) \o [j \in 1 .. n - (Len(ls) + 1 - p) |-> <<new, j>>]

\* find_free_entry_run_in: the first run of n slots that are unused or deleted; in
\* a subdirectory that has none, the run at its end continued in a fresh cluster.
FreeRun(s, f, d, n) ==
    LET ls == Locs(f, d)
        open == Open(s, ls)
        runs == {p \in open : p .. p + n - 1 \subseteq open}
        tail == {p \in open : p .. Len(ls) \subseteq open}
        free == FreeClusters(f)
        last == Last(Chain(f, d))
    IN  IF runs # {}
        THEN [ok |-> TRUE, locs |-> SubSeq(ls, Min(runs), Min(runs) + n - 1),
              grow |-> <<>>, fat |-> f]
        ELSE IF d = Root \/ free = <<>>
        THEN [ok |-> FALSE, locs |-> <<>>, grow |-> <<>>, fat |-> f]
        ELSE [ok |-> TRUE, locs |-> Continued(ls, Min(tail \cup {Len(ls) + 1}), n, free[1]),
              grow |-> GrowWrites(last, free[1]), fat |-> GrownFat(f, last, free[1])]

\* Slip: the alias is not compared with the short names in use.
NameEntriesFirstAlias(s, f, d, name) ==
    LET taken == {e.short : e \in Entries(s, f, d)}
    IN  IF name \in ShortNames
        THEN {[short |-> n, long |-> <<>>] : n \in {name} \ taken}
        ELSE {[short |-> Head(Aliases), long |-> <<Lfn(name, Head(Aliases))>>]}

\* build_name_entries: the short name of a new entry and the VFAT entries before
\* it; empty when the name, or every alias, is already in use.
NameEntries(s, f, d, name) ==
    LET taken == {e.short : e \in Entries(s, f, d)}
        first == {i \in DOMAIN Aliases : Aliases[i] \notin taken
                                           /\ \A j \in 1 .. i - 1 : Aliases[j] \in taken}
    IN  IF name \in ShortNames
        THEN {[short |-> n, long |-> <<>>] : n \in {name} \ taken}
        ELSE {[short |-> Aliases[i], long |-> <<Lfn(name, Aliases[i])>>] : i \in first}

\* write_name_entries: the long entries and last the short one.
NameWrites(locs, long, entry) ==
    [i \in DOMAIN locs |-> SlotW(locs[i], IF i <= Len(long) THEN long[i] ELSE entry)]

\* The check create_file_impl and create_directory_impl begin with.
NameTaken(s, f, d, name) == \E e \in Entries(s, f, d) : e.name = name

\* find_preceding_lfn_slots: the VFAT entries right before the one at i.
PrecedingLfn(s, ls, i) ==
    LET mine == {k \in 1 .. i - 1 : \A j \in k .. i - 1 : Kind(s, ls[j]) = "lfn"}
    IN  SubSeq(ls, Min(mine \cup {i}), i - 1)

\* Freeing a chain and marking an entry deleted, as delete_file_impl and
\* delete_directory_impl both do, in this order.
FreeWrites(ch) == [i \in DOMAIN ch |-> FatW(ch[i], Free)]
MarkWrites(marks) == [i \in DOMAIN marks |-> SlotW(marks[i], Deleted)]

Removal(s, f, d, e) ==
    FreeWrites(Chain(f, e.start)) \o MarkWrites(Append(PrecedingLfn(s, Locs(f, d), e.pos), e.loc))

(***************************************************************************)
(* The operations.  Each plan is a set, empty when the call returns an     *)
(* error before its first write.                                           *)
(***************************************************************************)

Idle == [writes |-> <<>>, gone |-> {}, made |-> {}, victim |-> {}, grown |-> {}, left |-> 0]

Made(path, dir, data) == [path |-> path, dir |-> dir, data |-> data]

\* What resolve_dir_path finds: the root, and the directories in it.
TheRoot == [path |-> <<>>, at |-> Root, loc |-> <<Root, 0>>]
AsDir(e) == [path |-> <<e.name>>, at |-> e.start, loc |-> e.loc]
Dirs(s) == {TheRoot} \cup {AsDir(e) : e \in {g \in Listing(s, RootLocs) : g.dir}}

\* What goes into the clusters of a new entry: a file's data, a directory's dots.
Dots(c, at) == [Zeroed EXCEPT ![1] = Dot(c), ![2] = Dot(at)]
Body(dir, cs, at, data) ==
    IF dir THEN <<DataW(cs[1], Dots(cs[1], at)), FatW(cs[1], Eoc)>> ELSE ChainWrites(cs, data)

\* Slip: the clusters are chosen before the directory has grown.
ClustersBeforeGrowth(f, run, need) ==
    IF Len(FreeClusters(f)) < need THEN <<>> ELSE SubSeq(FreeClusters(f), 1, need)

\* The clusters of a new entry, or none if there are too few.
ClustersFor(f, run, need) ==
    IF Len(FreeClusters(run.fat)) < need THEN <<>> ELSE SubSeq(FreeClusters(run.fat), 1, need)

\* Slip: the name is written before what it names.
EntryWritesNameFirst(run, cs, d, ne, dir, data) ==
    NameWrites(run.locs, ne.long, Entry(ne.short, dir, cs[1], Len(data))) \o Body(dir, cs, d.at, data)

EntryWrites(run, cs, d, ne, dir, data) ==
    Body(dir, cs, d.at, data) \o NameWrites(run.locs, ne.long, Entry(ne.short, dir, cs[1], Len(data)))

\* create_file_impl and create_directory_impl after their name checks: reserve
\* the slots (growing the directory first), then take clusters, then write.
\* Without enough clusters the growth is all that happens.
EntryPlan(s, f, d, ne, name, dir, data) ==
    LET run == FreeRun(s, f, d.at, Len(ne.long) + 1)
        cs == ClustersFor(f, run, Need(data))
        rest == IF cs = <<>> THEN <<>> ELSE EntryWrites(run, cs, d, ne, dir, data)
    IN  [writes |-> IF run.ok THEN run.grow \o rest ELSE <<>>,
         gone |-> {}, victim |-> {},
         made |-> {m \in {Made(Append(d.path, name), dir, data)} : rest # <<>>},
         grown |-> {g \in {[loc |-> d.loc, path |-> d.path]} : run.grow # <<>>},
         left |-> 1 + Len(rest)]

NewEntry(s, f, d, name, dir, data) ==
    {p \in {EntryPlan(s, f, d, ne, name, dir, data) : ne \in NameEntries(s, f, d.at, name)} :
       Walkable(f, d.at) /\ ~NameTaken(s, f, d.at, name) /\ p.writes # <<>>}

CreateFile(s, f, d, name, data) == NewEntry(s, f, d, name, FALSE, data)

CreateDirectory(s, f, d, name) == NewEntry(s, f, d, name, TRUE, <<>>)

\* After a failure the model follows the calls that keep off damaged entries.
SoundDirs(s) == {d \in Dirs(s) : d.loc \notin lost}
FindSound(s, f, d, name) == {e \in Find(s, f, d, name) : e.loc \notin lost}

Victim(d, e) == {[loc |-> e.loc, path |-> Append(d.path, e.name)]}

\* The clusters of a file that had ch and now needs that many.
Resized(ch, free, need) ==
    IF need <= Len(ch) THEN SubSeq(ch, 1, need) ELSE ch \o SubSeq(free, 1, need - Len(ch))

\* write_file_impl: frees what a shorter file no longer needs, or finds what a
\* longer one lacks, then rewrites data and chain, and the size last.
WritePlan(f, d, e, data) ==
    LET ch == Chain(f, e.start)
    IN  [writes |-> FreeWrites(SubSeq(ch, Need(data) + 1, Len(ch)))
                      \o ChainWrites(Resized(ch, FreeClusters(f), Need(data)), data)
                      \o <<SlotW(e.loc, Entry(e.short, FALSE, e.start, Len(data)))>>,
         gone |-> {Append(d.path, e.name)}, made |-> {Made(Append(d.path, e.name), FALSE, data)},
         victim |-> Victim(d, e), grown |-> {}, left |-> 0]

WriteFile(s, f, d, name, data) ==
    {WritePlan(f, d, e, data) :
        e \in {g \in FindSound(s, f, d.at, name) :
                 ~g.dir /\ Ends(f, g.start)
                   /\ Len(data) <= Len(Chain(f, g.start)) + Len(FreeClusters(f))}}

Removed(s, f, d, e) ==
    [writes |-> Removal(s, f, d.at, e), gone |-> {Append(d.path, e.name)}, made |-> {},
     victim |-> Victim(d, e), grown |-> {}, left |-> 0]

\* Slip (Fase 169): the cluster of an empty file is not freed.
DeleteFileKeepsEmpty(s, f, d, name) ==
    {[Removed(s, f, d, e) EXCEPT !.writes =
        IF e.size > 0 THEN @ ELSE SelectSeq(@, LAMBDA w : w.to # "fat")] :
        e \in {g \in FindSound(s, f, d.at, name) : ~g.dir /\ Ends(f, g.start)}}

DeleteFile(s, f, d, name) ==
    {Removed(s, f, d, e) : e \in {g \in FindSound(s, f, d.at, name) : ~g.dir /\ Ends(f, g.start)}}

\* delete_directory_impl refuses a directory that it cannot list or that lists more
\* than its dots.
DeleteDirectory(s, f, d, name) ==
    {Removed(s, f, d, e) :
        e \in {g \in FindSound(s, f, d.at, name) :
                 g.dir /\ Walkable(f, g.start) /\ Entries(s, f, g.start) = {}}}

\* What the files are once plan p is done.
Outcome(p) == {f \in files : f.path \notin p.gone} \cup p.made

(***************************************************************************)
(* Executing a plan, and what can come between.                            *)
(***************************************************************************)

WrittenDisk(s, w) ==
    CASE w.to = "data" -> [s EXCEPT ![w.at] = w.val]
      [] w.to = "slot" -> [s EXCEPT ![w.at[1]][w.at[2]] = w.val]
      [] OTHER -> s

WrittenFat(f, w) == IF w.to = "fat" THEN [f EXCEPT ![w.at] = w.val] ELSE f

Start(plans) ==
    /\ op = Idle
    /\ op' \in plans
    /\ UNCHANGED <<disk, fat, cache, files, lost, failures>>

BeginCreateFile ==
    \E d \in SoundDirs(disk), n \in Names, x \in Contents : Start(CreateFile(disk, cache, d, n, x))

\* Directories are made in the root only.
BeginCreateDirectory ==
    \E d \in SoundDirs(disk), n \in Names :
        d.at = Root /\ Start(CreateDirectory(disk, cache, d, n))

BeginWriteFile ==
    \E d \in SoundDirs(disk), n \in Names, x \in Contents : Start(WriteFile(disk, cache, d, n, x))

BeginDeleteFile ==
    \E d \in SoundDirs(disk), n \in Names : Start(DeleteFile(disk, cache, d, n))

BeginDeleteDirectory ==
    \E d \in SoundDirs(disk), n \in Names : Start(DeleteDirectory(disk, cache, d, n))

\* One ata::write_sector; write_fat_entry_to_disk updates the cache as well.
Step ==
    /\ op # Idle
    /\ disk' = WrittenDisk(disk, Head(op.writes))
    /\ fat' = WrittenFat(fat, Head(op.writes))
    /\ cache' = WrittenFat(cache, Head(op.writes))
    /\ IF Len(op.writes) = 1
       THEN op' = Idle /\ files' = Outcome(op)
       ELSE op' = [op EXCEPT !.writes = Tail(@)] /\ UNCHANGED files
    /\ UNCHANGED <<lost, failures>>

\* What an operation stopped with ws still to be written has damaged: the entry
\* it was changing, or the directory whose new cluster is linked but not yet
\* marked as the end of the chain.
Hurt(ws) == op.victim \cup {g \in op.grown : Len(ws) = op.left}

Spared(hurt) == {f \in files : \A h \in hurt : ~IsPrefix(h.path, f.path)}

\* The power fails between two writes; the next boot mounts the disk afresh.
PowerLoss ==
    /\ op # Idle
    /\ failures < MaxFailures
    /\ failures' = failures + 1
    /\ lost' = lost \cup {h.loc : h \in Hurt(op.writes)}
    /\ files' = Spared(Hurt(op.writes))
    /\ op' = Idle
    /\ cache' = fat
    /\ UNCHANGED <<disk, fat>>

\* write_sector returns an error, before or after the drive took the data; the
\* operation returns it and the mount stays in use, its cache not updated.
IoError ==
    /\ op # Idle
    /\ failures < MaxFailures
    /\ failures' = failures + 1
    /\ op' = Idle
    /\ \E landed \in BOOLEAN :
         LET hurt == Hurt(op.writes) \cup IF landed THEN Hurt(Tail(op.writes)) ELSE {}
             done == landed /\ Len(op.writes) = 1 /\ Hurt(op.writes) \cap op.grown = {}
         IN  /\ disk' = IF landed THEN WrittenDisk(disk, Head(op.writes)) ELSE disk
             /\ fat' = IF landed THEN WrittenFat(fat, Head(op.writes)) ELSE fat
             /\ files' = IF done THEN Outcome(op) ELSE Spared(hurt)
             /\ lost' = lost \cup {h.loc : h \in IF done THEN {} ELSE hurt}
    /\ UNCHANGED cache

\* read_bpb, as every shell command and every self-test does: a command typed
\* between two operations is a Mount and one of the operations.
Mount ==
    /\ op = Idle
    /\ cache # fat
    /\ cache' = fat
    /\ UNCHANGED <<disk, fat, op, files, lost, failures>>

\* An empty volume, mounted.
Init ==
    /\ disk = [c \in Clusters \cup {Root} |->
                 IF c = Root THEN [j \in 1 .. RootSlots |-> Unused] ELSE Zeroed]
    /\ fat = [c \in Clusters |-> Free]
    /\ cache = fat
    /\ op = Idle
    /\ files = {}
    /\ lost = {}
    /\ failures = 0

Next ==
    \/ BeginCreateFile
    \/ BeginCreateDirectory
    \/ BeginWriteFile
    \/ BeginDeleteFile
    \/ BeginDeleteDirectory
    \/ Step
    \/ PowerLoss
    \/ IoError
    \/ Mount

Spec == Init /\ [][Next]_vars

(***************************************************************************)
(* Properties.                                                             *)
(***************************************************************************)

\* The tree a fresh mount reads, without the entries at the slots in x.
Reachable(s, f, x) ==
    UNION {{[dir |-> d, e |-> e] : e \in {g \in Entries(s, f, d.at) : g.loc \notin x}} :
             d \in {c \in Dirs(s) : c.loc \notin x}}

Tree(s, f, x) ==
    {[path |-> Append(r.dir.path, r.e.name), dir |-> r.e.dir,
      data |-> IF r.e.dir THEN <<>> ELSE ReadData(s, f, r.e)] : r \in Reachable(s, f, x)}

Damaged == lost \cup {h.loc : h \in Hurt(op.writes)}

\* Types: the FAT links clusters, and what is planned is well formed.
TypeOK ==
    /\ fat \in [Clusters -> Clusters \cup {Free, Eoc}]
    /\ cache \in [Clusters -> Clusters \cup {Free, Eoc}]
    /\ \A i \in DOMAIN op.writes :
         /\ op.writes[i].to = "slot" => /\ op.writes[i].at[1] \in Clusters \cup {Root}
                                       /\ op.writes[i].at[2] \in 1 .. Max({RootSlots, SlotsPerCluster})
         /\ op.writes[i].to # "slot" => op.writes[i].at \in Clusters
    /\ failures \in 0 .. MaxFailures

\* A file or directory whose name has the checksum of an alias.  A create cut
\* short may leave the VFAT entry it made for that alias, and in the slot behind
\* it such a file is listed under the long name, although take_verified compares
\* checksums to guard `against a mismatched/orphaned sequence`.
Confusable(f) ==
    \E n \in Range(f.path) \cap ShortNames, a \in Range(Aliases) : Checksum[n] = Checksum[a]

\* At every moment, also between two sector writes of an operation and after a
\* power loss or an I/O error at any of them, a fresh mount reads exactly the
\* files that finished calls left, with their contents, apart from the entry an
\* unfinished write or delete was changing (and, in the middle of grow_directory,
\* the directory being grown).  This holds as long as, after a failure, no file
\* has the checksum of an alias: a create or mkdir cut short then shows in no
\* listing.
OthersIntact ==
    failures = 0 \/ (\A f \in files : ~Confusable(f)) =>
      Tree(disk, fat, Damaged) = Spared(Hurt(op.writes))

\* Two entries never share a cluster, and none owns a free one.
NoCrossLink ==
    \A r, t \in Reachable(disk, fat, Damaged) :
        /\ Ends(fat, r.e.start)
        /\ r # t => Range(Chain(fat, r.e.start)) \cap Range(Chain(fat, t.e.start)) = {}

\* At rest on a volume that has met no failure, the clusters in use are those of
\* the entries, as many for each file as its size asks for: nothing has leaked.
NothingLeaks ==
    op = Idle /\ failures = 0 =>
      /\ {c \in Clusters : fat[c] # Free}
           = UNION {Range(Chain(fat, r.e.start)) : r \in Reachable(disk, fat, {})}
      /\ \A r \in Reachable(disk, fat, {}) :
            ~r.e.dir => Len(Chain(fat, r.e.start)) = IF r.e.size = 0 THEN 1 ELSE r.e.size

\* No entry lies behind a 0x00 slot, where no reader would ever see it.
EndMarkerHolds ==
    \A d \in {c \in Dirs(disk) : c.loc \notin Damaged} :
        LET ls == Locs(fat, d.at)
        IN  \A i \in DOMAIN ls :
              Kind(disk, ls[i]) \in {"short", "lfn", "dot"} => i \in Scanned(disk, ls)

\* A volume on which nothing will be overwritten or become unreachable.
SoundVolume == NoCrossLink /\ EndMarkerHolds

\* No name, long or short, matches two entries of a directory: everything that
\* is listed can be opened and deleted by its name.
NamesUnique ==
    \A d \in {c \in Dirs(disk) : c.loc \notin Damaged} :
        \A e, g \in Entries(disk, fat, d.at) :
            {e.name, e.short} \cap {g.name, g.short} # {} => e = g

\* At rest on a volume that has met no failure, every VFAT entry stands right
\* before a short entry of its checksum: a delete leaves none behind.
NoOrphanLfn ==
    op = Idle /\ failures = 0 =>
      \A d \in Dirs(disk) :
        LET ls == Locs(fat, d.at)
        IN  \A i \in Scanned(disk, ls) :
              Kind(disk, ls[i]) = "lfn" =>
                \E e \in Entries(disk, fat, d.at) :
                  e.pos = i + 1 /\ Checksum[e.short] = At(disk, ls[i]).sum

\* Every entry has one long and one short name, and each leads to it alone.
NamesSound == NamesUnique /\ NoOrphanLfn
=============================================================================
