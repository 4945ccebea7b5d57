------------------------------- MODULE DiskFS -------------------------------
(***************************************************************************)
(* Storage: the file cache of kernel/fs.c over the on-disk file system of  *)
(* kernel/diskfs.c over the sector reads and writes of kernel/ata.c, with  *)
(* the part of kmain that mounts it and writes the default files.          *)
(*                                                                         *)
(* Only boot and the ui task call fs_*, so calls do not overlap; but each  *)
(* is a series of one-sector writes, the power may go between any two of   *)
(* them (README: power off by killing QEMU) and any of them may fail (the  *)
(* bounded polls of ata.c).  Contents are sequences of sectors; offsets    *)
(* are relative to DFS_DATA_START.  Heap exhaustion is left out.           *)
(***************************************************************************)
EXTENDS Integers, Sequences, FiniteSets

CONSTANTS
    Names,        \* file names, all shorter than FS_MAX_NAME
    Data,         \* the values of a sector
    Blank,        \* a sector never written
    MaxLen,       \* the longest file, in sectors (below the 64 KB of fs_load_one)
    NewTexts,     \* the contents that programs write
    DataSectors,  \* sectors after the directory
    DirSectors,   \* DFS_DIR_SECTORS
    PerSector,    \* directory entries per sector
    MaxFiles,     \* FS_MAX_FILES
    BootList,     \* the files kmain creates on every boot
    Missing,      \* no such file
    Unknown,      \* contents that are still on their way to the disk
    CrashIn,      \* the stages in which the power may go
    FailIn        \* the stages in which the drive may fail

Slots == 0 .. DirSectors * PerSector - 1
Texts == UNION {[1 .. k -> Data \cup {Blank}] : k \in 0 .. MaxLen}
Stages == {"off", "mount", "fsuper", "fdir", "load", "idle", "data", "dir", "super"}

ASSUME SizesAssumption ==
    /\ MaxLen \in Nat /\ DataSectors \in Nat /\ MaxFiles \in Nat
    /\ DirSectors \in Nat \ {0} /\ PerSector \in Nat \ {0}
    /\ MaxFiles <= DirSectors * PerSector

ASSUME TextsAssumption ==
    NewTexts \subseteq UNION {[1 .. k -> Data] : k \in 0 .. MaxLen}

ASSUME BootAssumption ==
    \* keep: the file is only created when it does not exist
    BootList \in Seq([name : Names, text : NewTexts, keep : BOOLEAN])

ASSUME FaultAssumption == CrashIn \subseteq Stages /\ FailIn \subseteq Stages

(* struct dfs_entry; used is 0 in Free *)
Free == [used |-> FALSE]
Entry(n, start, size) == [used |-> TRUE, name |-> n, start |-> start, size |-> size]

NoSuper == -1

VARIABLES
    dsuper,       \* next_free in sector 0; NoSuper without the magic
    ddir,         \* the directory sectors
    ddata,        \* the data sectors
    next,         \* g_super.next_free
    dir,          \* g_dir
    enabled,      \* g_mounted, and g_disk_enabled
    files,        \* g_files: name -> contents, or Missing
    stage,        \* the next sector access of the call in progress
    at,           \* its index among the accesses of its stage
    op,           \* the call in progress
    boot,         \* how many files of BootList are done
    promised      \* history: what the last completed call left under a name

disk == <<dsuper, ddir, ddata>>
memory == <<next, dir, enabled, files>>
vars == <<disk, memory, stage, at, op, boot, promised>>

Op(kind, n, text, slot) == [kind |-> kind, name |-> n, text |-> text, slot |-> slot]
NoOp == Op("none", Missing, <<>>, 0)

-----------------------------------------------------------------------------
(* Looking things up *)

Used(d) == {s \in Slots : d[s].used}
First(S) == {s \in S : \A t \in S : s <= t}

(* dfs_find and dfs_find_free: the slot they return, none for NULL *)
Find(d, n) == First({s \in Used(d) : d[s].name = n})
FindFree(d) == First(Slots \ Used(d))

(* What dfs_read returns of the file of an entry *)
ReadBack(e, data) == [i \in 1 .. e.size |-> data[e.start + i - 1]]

(* What a boot would load under a name *)
Stored(d, data, n) ==
    IF Find(d, n) = {} THEN Missing
    ELSE ReadBack(d[CHOOSE s \in Find(d, n) : TRUE], data)

OnDisk(n) == IF dsuper = NoSuper THEN Missing ELSE Stored(ddir, ddata, n)

Cached == {n \in Names : files[n] # Missing}

-----------------------------------------------------------------------------
(* Boot *)

Init ==
    /\ dsuper = NoSuper
    /\ ddir = [s \in Slots |-> Free]
    /\ ddata = [i \in 0 .. DataSectors - 1 |-> Blank]
    /\ next = 0
    /\ dir = [s \in Slots |-> Free]
    /\ enabled = FALSE
    /\ files = [n \in Names |-> Missing]
    /\ stage = "off"
    /\ at = 0
    /\ op = NoOp
    /\ boot = 0
    /\ promised = [n \in Names |-> Missing]

Goto(where, k) == stage' = where /\ at' = k

Finish == Goto("idle", 0) /\ op' = NoOp

(* The slots fs_load_from_disk loads, of those that can be read: it goes   *)
(* on until the cache is full.                                             *)
Loaded(readable) ==
    {s \in readable \cap Used(ddir) :
        Cardinality({t \in readable \cap Used(ddir) : t < s}) < MaxFiles}

(* dfs_mount and, on success, fs_load_from_disk *)
Mount ==
    /\ stage = "off" /\ dsuper # NoSuper
    /\ next' = dsuper /\ dir' = ddir /\ enabled' = TRUE
    /\ \E readable \in IF "load" \in FailIn THEN SUBSET Slots ELSE {Slots} :
        /\ files' = [n \in Names |->
            IF Find(ddir, n) \cap Loaded(readable) = {} THEN Missing ELSE OnDisk(n)]
        /\ promised' = [n \in Names |->
            IF Find(ddir, n) \subseteq Loaded(readable) THEN OnDisk(n) ELSE promised[n]]
    /\ Finish
    /\ UNCHANGED <<disk, boot>>

(* The drive does not answer: the system runs from memory. *)
MountFails ==
    /\ stage = "off" /\ "mount" \in FailIn
    /\ Finish
    /\ UNCHANGED <<disk, memory, boot, promised>>

(* No magic in sector 0: dfs_format writes the superblock, then the        *)
(* directory.                                                              *)
Format ==
    /\ stage = "off" /\ dsuper = NoSuper
    /\ next' = 0 /\ dir' = [s \in Slots |-> Free]
    /\ Goto("fsuper", 0)
    /\ UNCHANGED <<disk, enabled, files, op, boot, promised>>

FormatSuper ==
    /\ stage = "fsuper"
    /\ dsuper' = next
    /\ Goto("fdir", 0)
    /\ UNCHANGED <<ddir, ddata, memory, op, boot, promised>>

(* Bug: only the first directory sector is ever written. *)
FlushedFirst(s) == [e \in Slots |-> IF e < PerSector THEN dir[e] ELSE ddir[e]]

(* The directory on disk after dfs_write_dir_sector(s) *)
Flushed(s) == [e \in Slots |-> IF e \div PerSector = s THEN dir[e] ELSE ddir[e]]

FormatDir ==
    /\ stage = "fdir"
    /\ ddir' = Flushed(at)
    /\ IF at < DirSectors - 1
       THEN Goto("fdir", at + 1) /\ UNCHANGED <<enabled, op>>
       ELSE Finish /\ enabled' = TRUE
    /\ UNCHANGED <<dsuper, ddata, next, dir, files, boot, promised>>

-----------------------------------------------------------------------------
(* fs_create, fs_write and dfs_write *)

(* Bug: a file that grows stays where it is. *)
PlaceInPlace(e, n, size) ==
    IF size <= e.size THEN {Entry(n, e.start, size)}
    ELSE IF size > DataSectors - next THEN {}
    ELSE {Entry(n, e.start, size)}

(* Bug: nothing checks that the file fits on the disk. *)
PlaceUnchecked(e, n, size) ==
    IF size <= e.size THEN {Entry(n, e.start, size)} ELSE {Entry(n, next, size)}

(* The entry dfs_write leaves for size sectors, given the old one; none    *)
(* when the disk is full.  A file that grows always moves.                 *)
Place(e, n, size) ==
    IF size <= e.size THEN {Entry(n, e.start, size)}
    ELSE IF size > DataSectors - next THEN {}
    ELSE {Entry(n, next, size)}

(* g_super.next_free after dfs_write *)
Advance(e, size) == IF size > e.size THEN next + size ELSE next

(* The entry dfs_write works on: the file's own, or a fresh one *)
Targets(n) ==
    IF Find(dir, n) # {} THEN {[slot |-> s, entry |-> dir[s]] : s \in Find(dir, n)}
    ELSE {[slot |-> s, entry |-> Entry(n, next, 0)] : s \in FindFree(dir)}

(* dfs_write up to its first sector write *)
SaveBegins(n, c) ==
    \E t \in Targets(n) : \E e \in Place(t.entry, n, Len(c)) :
        /\ dir' = [dir EXCEPT ![t.slot] = e]
        /\ next' = Advance(t.entry, Len(c))
        /\ op' = Op("write", n, c, t.slot)
        /\ Goto(IF c = <<>> THEN "dir" ELSE "data", 0)

(* dfs_write returns -1: a full disk leaves an empty entry behind. *)
SaveRefused(n, c) ==
    /\ \/ Targets(n) = {} /\ UNCHANGED dir
       \/ \E t \in Targets(n) :
            /\ Place(t.entry, n, Len(c)) = {}
            /\ dir' = [dir EXCEPT ![t.slot] = t.entry]
    /\ UNCHANGED <<next, op, stage, at>>

Put(n, c) ==
    /\ files[n] # Missing \/ Cardinality(Cached) < MaxFiles
    /\ files' = [files EXCEPT ![n] = c]
    /\ promised' = [promised EXCEPT ![n] = Unknown]
    /\ \/ enabled /\ (SaveBegins(n, c) \/ SaveRefused(n, c))
       \/ ~enabled /\ UNCHANGED <<next, dir, op, stage, at>>
    /\ UNCHANGED <<disk, enabled>>

(* A program's fs_write or fs_create *)
FsWrite(n, c) ==
    /\ stage = "idle" /\ boot = Len(BootList)
    /\ Put(n, c)
    /\ UNCHANGED boot

(* kmain's fs_create of the next default file *)
BootWrite ==
    /\ stage = "idle" /\ boot < Len(BootList)
    /\ boot' = boot + 1
    /\ LET f == BootList[boot + 1] IN
        \/ ~ (f.keep /\ files[f.name] # Missing) /\ Put(f.name, f.text)
        \/ /\ \/ f.keep /\ files[f.name] # Missing
              \/ files[f.name] = Missing /\ Cardinality(Cached) = MaxFiles
           /\ UNCHANGED <<disk, memory, stage, at, op, promised>>

WriteData ==
    /\ stage = "data"
    /\ ddata' = [ddata EXCEPT ![dir[op.slot].start + at] = op.text[at + 1]]
    /\ IF at + 1 < Len(op.text) THEN Goto("data", at + 1) ELSE Goto("dir", 0)
    /\ UNCHANGED <<dsuper, ddir, memory, op, boot, promised>>

WriteDir ==
    /\ stage = "dir"
    /\ ddir' = Flushed(at)
    /\ IF at < DirSectors - 1 THEN Goto("dir", at + 1) ELSE Goto("super", 0)
    /\ UNCHANGED <<dsuper, ddata, memory, op, boot, promised>>

(* The call has reached the disk and returns. *)
WriteSuper ==
    /\ stage = "super"
    /\ dsuper' = next
    /\ promised' = CASE op.kind = "write" -> [promised EXCEPT ![op.name] = op.text]
                     [] op.kind = "remove" -> [promised EXCEPT ![op.name] = Missing]
                     [] OTHER -> promised
    /\ Finish
    /\ UNCHANGED <<ddir, ddata, memory, boot>>

-----------------------------------------------------------------------------
(* fs_remove and fs_sync *)

(* Bug: the entry is cleared in memory only. *)
FsRemoveCached(n) ==
    /\ stage = "idle" /\ boot = Len(BootList) /\ files[n] # Missing
    /\ files' = [files EXCEPT ![n] = Missing]
    /\ promised' = [promised EXCEPT ![n] = Missing]
    /\ dir' = [s \in Slots |-> IF s \in Find(dir, n) THEN Free ELSE dir[s]]
    /\ UNCHANGED <<disk, next, enabled, stage, at, op, boot>>

(* dfs_remove up to its first sector write *)
DfsRemove(n) ==
    \E s \in Find(dir, n) :
        /\ dir' = [dir EXCEPT ![s] = Free]
        /\ op' = Op("remove", n, <<>>, s)
        /\ Goto("dir", 0)

FsRemove(n) ==
    /\ stage = "idle" /\ boot = Len(BootList) /\ files[n] # Missing
    /\ files' = [files EXCEPT ![n] = Missing]
    /\ promised' = [promised EXCEPT ![n] = Unknown]
    /\ \/ enabled /\ DfsRemove(n)
       \/ /\ ~enabled \/ Find(dir, n) = {}
          /\ UNCHANGED <<dir, op, stage, at>>
    /\ UNCHANGED <<disk, next, enabled, boot>>

FsSync ==
    /\ stage = "idle" /\ boot = Len(BootList) /\ enabled
    /\ op' = Op("sync", Missing, <<>>, 0)
    /\ Goto("dir", 0)
    /\ UNCHANGED <<disk, memory, boot, promised>>

-----------------------------------------------------------------------------
(* Faults *)

(* A sector write fails.  dfs_write and dfs_remove give up, and fs.c       *)
(* ignores it; dfs_sync goes on to the superblock; a format is abandoned.  *)
WriteFails ==
    /\ stage \in FailIn \cap {"data", "dir", "super", "fsuper", "fdir"}
    /\ IF op.kind = "sync" /\ stage = "dir"
       THEN Goto("super", 0) /\ UNCHANGED op
       ELSE Finish
    /\ UNCHANGED <<disk, memory, boot, promised>>

(* The power goes: what is in memory is lost. *)
PowerOff ==
    /\ stage \in CrashIn \ {"off"}
    /\ next' = 0
    /\ dir' = [s \in Slots |-> Free]
    /\ enabled' = FALSE
    /\ files' = [n \in Names |-> Missing]
    /\ Goto("off", 0)
    /\ op' = NoOp
    /\ boot' = 0
    /\ UNCHANGED <<disk, promised>>

Next ==
    \/ Mount \/ MountFails \/ Format \/ FormatSuper \/ FormatDir \/ BootWrite
    \/ \E n \in Names : FsRemove(n) \/ \E c \in NewTexts : FsWrite(n, c)
    \/ WriteData \/ WriteDir \/ WriteSuper \/ FsSync
    \/ WriteFails \/ PowerOff

Spec == Init /\ [][Next]_vars

-----------------------------------------------------------------------------
(* Properties *)

EntryOK(e) ==
    \/ e = Free
    \/ /\ e.used /\ e.name \in Names
       /\ e.start \in Nat /\ e.size \in 0 .. MaxLen
       /\ e.start + e.size <= DataSectors

TypeOK ==
    /\ dsuper \in 0 .. DataSectors \cup {NoSuper}
    /\ next \in 0 .. DataSectors
    /\ DOMAIN ddir = Slots /\ \A s \in Slots : EntryOK(ddir[s])
    /\ DOMAIN dir = Slots /\ \A s \in Slots : EntryOK(dir[s])
    /\ ddata \in [0 .. DataSectors - 1 -> Data \cup {Blank}]
    /\ enabled \in BOOLEAN
    /\ files \in [Names -> Texts \cup {Missing}]
    /\ stage \in Stages
    /\ at \in 0 .. DirSectors + MaxLen
    /\ op.slot \in Slots /\ op.text \in Texts /\ op.name \in Names \cup {Missing}
    /\ boot \in 0 .. Len(BootList)
    /\ promised \in [Names -> Texts \cup {Missing, Unknown}]

Extent(e) == IF e.used THEN e.start .. e.start + e.size - 1 ELSE {}

(* The files of a directory share no sector, and none reaches the sectors  *)
(* that free hands out next.                                               *)
Separate(d, free) ==
    /\ \A s, t \in Used(d) : s # t => Extent(d[s]) \cap Extent(d[t]) = {}
    /\ \A s \in Used(d) : \A i \in Extent(d[s]) : i < free

(* No two files ever share a sector, in memory or on the disk a power-off  *)
(* leaves, through any series of growing, shrinking, removing, refused and *)
(* half-failed writes.                                                     *)
NoSharedSector ==
    /\ enabled => Separate(dir, next)
    /\ stage = "off" /\ dsuper # NoSuper => Separate(ddir, dsuper)

(* A file whose last call has completed can be read back from the disk at  *)
(* any moment, whatever is being done to other files when the power goes.  *)
Durable ==
    \A n \in Names : promised[n] # Unknown => OnDisk(n) = promised[n]

(* fs.c over the disk is the file store of module FileStore: whatever the  *)
(* power cuts and write errors, a session that can read a saved file finds *)
(* what the call that saved it left.                                       *)
Store == INSTANCE FileStore WITH Contents <- Texts, kept <- promised

StoreSpec == Store!Spec
=============================================================================
