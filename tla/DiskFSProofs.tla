---------------------------- MODULE DiskFSProofs ----------------------------
(* Proofs about storage for any names, contents, disk and directory sizes, *)
(* with power cuts and write errors anywhere but while the directory and   *)
(* then the superblock are written: in those two stages the code has the   *)
(* window that run disk_window exhibits.                                   *)
EXTENDS DiskFS, TLAPS

(* The hypothesis of the theorems *)
MetadataSafe == CrashIn \cap {"dir", "super"} = {} /\ FailIn \cap {"dir", "super"} = {}

-----------------------------------------------------------------------------
(* The inductive invariant *)

(* A directory in which every name has one entry and every sector one file *)
Unique(d) == \A s, t \in Used(d) : d[s].name = d[t].name => s = t
Clean(d, free) == Separate(d, free) /\ Unique(d)

Blanked(d) == \A s \in Slots : d[s] = Free

(* Where memory and disk disagree on an entry, nothing is promised of the  *)
(* names either gives it.                                                  *)
InStep ==
    \A s \in Slots : dir[s] # ddir[s] =>
        /\ dir[s].used => promised[dir[s].name] = Unknown
        /\ ddir[s].used => promised[ddir[s].name] = Unknown

MemoryClean == enabled => Clean(dir, next) /\ dsuper # NoSuper /\ InStep

DiskClean ==
    /\ dsuper # NoSuper /\ stage \notin {"dir", "super"} => Clean(ddir, dsuper)
    /\ dsuper = NoSuper => Blanked(ddir)

Formatting ==
    stage \in {"fsuper", "fdir"} =>
        /\ next = 0 /\ Blanked(dir) /\ Blanked(ddir) /\ ~enabled
        /\ stage = "fdir" => dsuper = 0

(* The file of the write in progress, whose first k sectors are written *)
Written(k) ==
    /\ op.name \in Names /\ promised[op.name] = Unknown /\ files[op.name] = op.text
    /\ dir[op.slot].used /\ dir[op.slot].name = op.name
    /\ dir[op.slot].size = Len(op.text)
    /\ \A i \in 1 .. k : ddata[dir[op.slot].start + i - 1] = op.text[i]

Removed ==
    /\ op.name \in Names /\ promised[op.name] = Unknown /\ files[op.name] = Missing
    /\ \A s \in Used(dir) : dir[s].name # op.name

InProgress ==
    /\ stage = "data" => op.kind = "write" /\ at < Len(op.text) /\ Written(at)
    /\ stage \in {"dir", "super"} =>
        /\ op.kind \in {"write", "remove", "sync"}
        /\ op.kind = "write" => Written(Len(op.text))
        /\ op.kind = "remove" => Removed
    /\ stage = "dir" =>
        /\ at < DirSectors
        /\ \A s \in Slots : s \div PerSector < at => ddir[s] = dir[s]
    /\ stage = "super" => \A s \in Slots : ddir[s] = dir[s]
    /\ stage \in {"data", "dir", "super"} => enabled
    /\ stage = "off" => ~enabled

DInv == TypeOK /\ MemoryClean /\ DiskClean /\ Formatting /\ InProgress /\ Durable

-----------------------------------------------------------------------------
(* Sectors of the directory *)

LEMMA SlotSector ==
    /\ Slots \subseteq Nat /\ 0 \in Slots
    /\ \A s \in Slots : s \div PerSector \in 0 .. DirSectors - 1
<1> USE SizesAssumption
<1>1. DirSectors * PerSector \in Nat /\ DirSectors * PerSector >= 1
  OBVIOUS
<1>2. ASSUME NEW s \in Slots
      PROVE  s \div PerSector \in 0 .. DirSectors - 1
  <2> DEFINE q == s \div PerSector
  <2>1. s \in Nat /\ s < DirSectors * PerSector
    BY <1>1 DEF Slots
  <2>2. q \in Nat /\ q * PerSector <= s
    BY <2>1
  <2>3. SUFFICES ASSUME q >= DirSectors PROVE FALSE
    BY <2>2
  <2> HIDE DEF q
  <2>4. q * PerSector >= DirSectors * PerSector
    BY <2>2, <2>3
  <2> QED
    BY <2>1, <2>2, <2>4
<1> QED
  BY <1>1, <1>2 DEF Slots

-----------------------------------------------------------------------------
(* Looking things up *)

(* With one entry for a name, dfs_find returns its slot and a boot loads   *)
(* the file of that entry; with none, none.                                *)
LEMMA OneFound ==
    ASSUME NEW d, NEW data, NEW n, NEW s \in Used(d), d[s].name = n,
           \A t \in Used(d) : d[t].name = n => t = s
    PROVE  Find(d, n) = {s} /\ Stored(d, data, n) = ReadBack(d[s], data)
<1>1. s \in Int
  BY SlotSector DEF Used
<1>2. {t \in Used(d) : d[t].name = n} = {s}
  OBVIOUS
<1>3. First({s}) = {s}
  BY <1>1 DEF First
<1>4. Find(d, n) = {s}
  BY <1>2, <1>3 DEF Find
<1>5. (CHOOSE t \in Find(d, n) : TRUE) = s
  BY <1>4
<1> QED
  BY <1>4, <1>5 DEF Stored

LEMMA NoneFound ==
    ASSUME NEW d, NEW data, NEW n, \A t \in Used(d) : d[t].name # n
    PROVE  Find(d, n) = {} /\ Stored(d, data, n) = Missing
BY DEF Find, First, Stored

(* What dfs_find returns is a used entry of that name, and the only one.   *)
LEMMA FoundIs ==
    ASSUME NEW d, NEW n
    PROVE  /\ \A s \in Find(d, n) : s \in Used(d) /\ s \in Slots /\ d[s].name = n
           /\ \A s, t \in Find(d, n) : s = t
<1>1. \A s \in Find(d, n) : s \in Used(d) /\ s \in Slots /\ d[s].name = n
  BY DEF Find, First, Used
<1>2. ASSUME NEW s \in Find(d, n), NEW t \in Find(d, n) PROVE s = t
  <2>1. s <= t /\ t <= s
    BY DEF Find, First
  <2>2. s \in Slots /\ t \in Slots
    BY <1>1
  <2>3. s \in Int /\ t \in Int
    BY <2>2, SlotSector
  <2> QED
    BY <2>1, <2>3
<1> QED
  BY <1>1, <1>2

LEMMA FreeIs ==
    ASSUME NEW d, NEW s \in FindFree(d)
    PROVE  s \in Slots /\ s \notin Used(d)
BY DEF FindFree, First

(* Two disks with the same entries of a name and the same sectors under    *)
(* them hold the same file of that name.                                   *)
LEMMA SameStored ==
    ASSUME NEW d, NEW e, NEW data1, NEW data2, NEW n,
           \A s \in Slots : (d[s].used /\ d[s].name = n) <=> (e[s].used /\ e[s].name = n),
           \A s \in Used(d) : d[s].name = n => d[s] = e[s],
           \A s \in Used(d) : d[s].name = n =>
               \A i \in 1 .. d[s].size : data1[d[s].start + i - 1] = data2[d[s].start + i - 1]
    PROVE  Stored(d, data1, n) = Stored(e, data2, n) /\ Find(d, n) = Find(e, n)
<1>1. {s \in Used(d) : d[s].name = n} = {s \in Used(e) : e[s].name = n}
  BY DEF Used
<1>2. Find(d, n) = Find(e, n)
  BY <1>1 DEF Find
<1>3. CASE Find(d, n) = {}
  BY <1>2, <1>3 DEF Stored
<1>4. CASE Find(d, n) # {}
  <2> DEFINE s == CHOOSE t \in Find(d, n) : TRUE
  <2>1. s \in Find(d, n)
    BY <1>4
  <2>2. s \in Used(d) /\ d[s].name = n
    BY <2>1, FoundIs
  <2>3. d[s] = e[s]
    BY <2>2
  <2>4. ReadBack(d[s], data1) = ReadBack(e[s], data2)
    <3>1. \A i \in 1 .. d[s].size : data1[d[s].start + i - 1] = data2[d[s].start + i - 1]
      BY <2>2
    <3> HIDE DEF s
    <3> QED
      BY <3>1, <2>3 DEF ReadBack
  <2> QED
    BY <1>2, <1>4, <2>4 DEF Stored
<1> QED
  BY <1>2, <1>3, <1>4

(* Durable depends on what a name that is promised finds on the disk. *)
LEMMA SameOnDisk ==
    ASSUME NEW n, dsuper # NoSuper, dsuper' # NoSuper,
           Stored(ddir, ddata, n) = Stored(ddir', ddata', n)
    PROVE  OnDisk(n)' = OnDisk(n)
BY DEF OnDisk

(* The entry of a promised name is the same in memory and on the disk. *)
LEMMA PromisedSame ==
    ASSUME InStep, NEW n, promised[n] # Unknown
    PROVE  /\ \A s \in Slots : (dir[s].used /\ dir[s].name = n) <=> (ddir[s].used /\ ddir[s].name = n)
           /\ \A s \in Used(dir) : dir[s].name = n => dir[s] = ddir[s]
           /\ \A s \in Used(ddir) : ddir[s].name = n => dir[s] = ddir[s]
BY DEF InStep, Used

-----------------------------------------------------------------------------
(* Initial states and the steps of the boot *)

LEMMA EmptyText == <<>> \in Texts /\ Len(<<>>) = 0
<1>1. <<>> \in [1 .. 0 -> Data \cup {Blank}]
  OBVIOUS
<1> QED
  BY <1>1, SizesAssumption DEF Texts

LEMMA NoOpTyped ==
    NoOp.slot \in Slots /\ NoOp.text \in Texts /\ NoOp.name \in Names \cup {Missing}
BY SlotSector, EmptyText DEF NoOp, Op

LEMMA BlankClean ==
    ASSUME NEW d, Blanked(d), NEW free
    PROVE  Clean(d, free) /\ \A s \in Slots : EntryOK(d[s]) /\ ~ d[s].used
BY DEF Blanked, Clean, Separate, Unique, Used, EntryOK, Free

LEMMA InitDInv == Init => DInv
<1> SUFFICES ASSUME Init PROVE DInv
  OBVIOUS
<1> USE DEF Init
<1>1. Blanked(ddir) /\ Blanked(dir)
  BY DEF Blanked
<1>2. TypeOK
  <2>1. \A s \in Slots : EntryOK(ddir[s]) /\ EntryOK(dir[s])
    BY <1>1, BlankClean
  <2>2. boot \in 0 .. Len(BootList)
    BY BootAssumption
  <2>3. /\ dsuper \in 0 .. DataSectors \cup {NoSuper} /\ next \in 0 .. DataSectors
        /\ at \in 0 .. DirSectors + MaxLen /\ stage \in Stages
    BY SizesAssumption DEF Stages
  <2>8. enabled \in BOOLEAN
    OBVIOUS
  <2>4. DOMAIN ddir = Slots /\ DOMAIN dir = Slots
    OBVIOUS
  <2>5. ddata \in [0 .. DataSectors - 1 -> Data \cup {Blank}]
    OBVIOUS
  <2>6. /\ files \in [Names -> Texts \cup {Missing}]
        /\ promised \in [Names -> Texts \cup {Missing, Unknown}]
    OBVIOUS
  <2> HIDE DEF Init
  <2>7. op.slot \in Slots /\ op.text \in Texts /\ op.name \in Names \cup {Missing}
    BY NoOpTyped DEF Init
  <2> QED
    BY <2>1, <2>2, <2>3, <2>4, <2>5, <2>6, <2>7, <2>8 DEF TypeOK
<1>3. MemoryClean /\ DiskClean /\ Formatting /\ InProgress /\ Durable
  BY <1>1 DEF MemoryClean, DiskClean, Formatting, InProgress, Durable, OnDisk
<1> QED
  BY <1>2, <1>3 DEF DInv

LEMMA ReadTyped ==
    ASSUME TypeOK, NEW d, NEW s \in Slots, d[s].used, EntryOK(d[s])
    PROVE  ReadBack(d[s], ddata) \in Texts
<1> USE SizesAssumption
<1>1. d[s].start \in Nat /\ d[s].size \in 0 .. MaxLen /\ d[s].start + d[s].size <= DataSectors
  BY DEF EntryOK, Free
<1>2. ReadBack(d[s], ddata) \in [1 .. d[s].size -> Data \cup {Blank}]
  <2>1. ASSUME NEW i \in 1 .. d[s].size
        PROVE  ddata[d[s].start + i - 1] \in Data \cup {Blank}
    <3>1. d[s].start + i - 1 \in 0 .. DataSectors - 1
      BY <1>1
    <3> QED
      BY <3>1 DEF TypeOK
  <2> QED
    BY <2>1 DEF ReadBack
<1> QED
  BY <1>1, <1>2 DEF Texts

LEMMA OnDiskTyped ==
    ASSUME TypeOK, NEW n
    PROVE  OnDisk(n) \in Texts \cup {Missing}
<1>1. CASE Find(ddir, n) = {} \/ dsuper = NoSuper
  BY <1>1 DEF OnDisk, Stored
<1>2. CASE Find(ddir, n) # {} /\ dsuper # NoSuper
  <2>1. PICK s \in Find(ddir, n) : s = (CHOOSE t \in Find(ddir, n) : TRUE)
    BY <1>2
  <2>2. s \in Slots /\ ddir[s].used
    BY FoundIs DEF Used
  <2>3. ReadBack(ddir[s], ddata) \in Texts
    BY <2>2, ReadTyped DEF TypeOK
  <2> QED
    BY <1>2, <2>1, <2>3 DEF OnDisk, Stored
<1> QED
  BY <1>1, <1>2

LEMMA MountStep ==
    ASSUME DInv, Mount
    PROVE  DInv'
<1> USE DEF DInv
<1>1. /\ stage = "off" /\ dsuper # NoSuper /\ stage' = "idle" /\ at' = 0 /\ op' = NoOp
      /\ next' = dsuper /\ dir' = ddir /\ enabled' = TRUE
      /\ UNCHANGED <<dsuper, ddir, ddata, boot>>
  BY DEF Mount, Finish, Goto, disk
<1>2. PICK readable :
        /\ files' = [n \in Names |->
            IF Find(ddir, n) \cap Loaded(readable) = {} THEN Missing ELSE OnDisk(n)]
        /\ promised' = [n \in Names |->
            IF Find(ddir, n) \subseteq Loaded(readable) THEN OnDisk(n) ELSE promised[n]]
  BY DEF Mount
<1>3. \A n \in Names : OnDisk(n)' = OnDisk(n) /\ OnDisk(n) \in Texts \cup {Missing}
  BY <1>1, OnDiskTyped DEF OnDisk
<1>4. TypeOK'
  <2>1. /\ files' \in [Names -> Texts \cup {Missing}]
        /\ promised' \in [Names -> Texts \cup {Missing, Unknown}]
    BY <1>2, <1>3 DEF TypeOK
  <2>2. next' \in 0 .. DataSectors
    BY <1>1 DEF TypeOK, NoSuper
  <2>3. at' \in 0 .. DirSectors + MaxLen /\ stage' \in Stages /\ enabled' \in BOOLEAN
    BY <1>1, SizesAssumption DEF Stages
  <2>4. op'.slot \in Slots /\ op'.text \in Texts /\ op'.name \in Names \cup {Missing}
    BY <1>1, NoOpTyped
  <2>5. DOMAIN dir' = Slots /\ \A s \in Slots : EntryOK(dir'[s])
    BY <1>1 DEF TypeOK
  <2> QED
    BY <1>1, <2>1, <2>2, <2>3, <2>4, <2>5 DEF TypeOK
<1>5. MemoryClean' /\ DiskClean'
  BY <1>1 DEF MemoryClean, DiskClean, Clean, InStep, Separate, Unique, Used
<1>6. Formatting' /\ InProgress'
  BY <1>1 DEF Formatting, InProgress
<1>7. Durable'
  BY <1>2, <1>3 DEF Durable
<1> QED
  BY <1>4, <1>5, <1>6, <1>7

(* A call returns or gives up outside the two unsafe stages. *)
LEMMA FinishStep ==
    ASSUME DInv, Finish, UNCHANGED <<disk, memory, boot, promised>>,
           stage \notin {"dir", "super"}
    PROVE  DInv'
<1> USE DEF DInv
<1>1. /\ stage' = "idle" /\ at' = 0 /\ op' = NoOp
      /\ UNCHANGED <<dsuper, ddir, ddata, next, dir, enabled, files, boot, promised>>
  BY DEF Finish, Goto, disk, memory
<1>2. TypeOK'
  <2>1. at' \in 0 .. DirSectors + MaxLen /\ stage' \in Stages
    BY <1>1, SizesAssumption DEF Stages
  <2>2. op'.slot \in Slots /\ op'.text \in Texts /\ op'.name \in Names \cup {Missing}
    BY <1>1, NoOpTyped
  <2> QED
    BY <1>1, <2>1, <2>2 DEF TypeOK
<1>3. MemoryClean' /\ DiskClean'
  BY <1>1 DEF MemoryClean, DiskClean, Clean, InStep, Separate, Unique, Used
<1>4. Formatting' /\ InProgress' /\ Durable'
  BY <1>1 DEF Formatting, InProgress, Durable, OnDisk
<1> QED
  BY <1>2, <1>3, <1>4

LEMMA WriteFailsStep ==
    ASSUME MetadataSafe, DInv, WriteFails
    PROVE  DInv'
<1>1. stage \notin {"dir", "super"} /\ Finish /\ UNCHANGED <<disk, memory, boot, promised>>
  BY DEF WriteFails, MetadataSafe
<1> QED
  BY <1>1, FinishStep

LEMMA PowerOffStep ==
    ASSUME MetadataSafe, DInv, PowerOff
    PROVE  DInv'
<1> USE DEF DInv
<1>1. /\ stage \notin {"dir", "super"} /\ stage' = "off" /\ at' = 0 /\ op' = NoOp
      /\ next' = 0 /\ enabled' = FALSE /\ boot' = 0
      /\ dir' = [s \in Slots |-> Free] /\ files' = [n \in Names |-> Missing]
      /\ UNCHANGED <<dsuper, ddir, ddata, promised>>
  BY DEF PowerOff, Goto, disk, MetadataSafe
<1>2. Blanked(dir')
  BY <1>1 DEF Blanked
<1>3. TypeOK'
  <2>1. /\ at' \in 0 .. DirSectors + MaxLen /\ stage' \in Stages
        /\ next' \in 0 .. DataSectors
    BY <1>1, SizesAssumption DEF Stages
  <2>2. op'.slot \in Slots /\ op'.text \in Texts /\ op'.name \in Names \cup {Missing}
    BY <1>1, NoOpTyped
  <2>3. DOMAIN dir' = Slots /\ \A s \in Slots : EntryOK(dir'[s])
    BY <1>1, <1>2, BlankClean
  <2>4. boot' \in 0 .. Len(BootList)
    BY <1>1, BootAssumption
  <2>5. files' \in [Names -> Texts \cup {Missing}] /\ enabled' \in BOOLEAN
    BY <1>1
  <2> QED
    BY <1>1, <2>1, <2>2, <2>3, <2>4, <2>5 DEF TypeOK
<1>4. MemoryClean' /\ DiskClean'
  BY <1>1 DEF MemoryClean, DiskClean, Clean, Separate, Unique, Used
<1>5. Formatting' /\ InProgress' /\ Durable'
  BY <1>1 DEF Formatting, InProgress, Durable, OnDisk
<1> QED
  BY <1>3, <1>4, <1>5

LEMMA FormatStep ==
    ASSUME DInv, Format
    PROVE  DInv'
<1> USE DEF DInv
<1>1. /\ stage = "off" /\ dsuper = NoSuper /\ stage' = "fsuper" /\ at' = 0
      /\ next' = 0 /\ dir' = [s \in Slots |-> Free]
      /\ UNCHANGED <<dsuper, ddir, ddata, enabled, files, op, boot, promised>>
  BY DEF Format, Goto, disk
<1>2. Blanked(dir') /\ Blanked(ddir) /\ ~ enabled
  BY <1>1 DEF Blanked, DiskClean, InProgress
<1>3. TypeOK'
  <2>1. /\ at' \in 0 .. DirSectors + MaxLen /\ stage' \in Stages
        /\ next' \in 0 .. DataSectors
    BY <1>1, SizesAssumption DEF Stages
  <2>2. DOMAIN dir' = Slots /\ \A s \in Slots : EntryOK(dir'[s])
    BY <1>1, <1>2, BlankClean
  <2> QED
    BY <1>1, <2>1, <2>2 DEF TypeOK
<1>4. MemoryClean' /\ DiskClean' /\ Formatting'
  BY <1>1, <1>2 DEF MemoryClean, DiskClean, Formatting, Blanked
<1>5. InProgress' /\ Durable'
  BY <1>1, <1>2 DEF InProgress, Durable, OnDisk
<1> QED
  BY <1>3, <1>4, <1>5

LEMMA FormatSuperStep ==
    ASSUME DInv, FormatSuper
    PROVE  DInv'
<1> USE DEF DInv
<1>1. /\ stage = "fsuper" /\ stage' = "fdir" /\ at' = 0 /\ dsuper' = next
      /\ UNCHANGED <<ddir, ddata, next, dir, enabled, files, op, boot, promised>>
  BY DEF FormatSuper, Goto, memory
<1>2. next = 0 /\ Blanked(dir) /\ Blanked(ddir) /\ ~enabled
  BY <1>1 DEF Formatting
<1>3. TypeOK'
  <2>1. /\ at' \in 0 .. DirSectors + MaxLen /\ stage' \in Stages
        /\ dsuper' \in 0 .. DataSectors
    BY <1>1, <1>2, SizesAssumption DEF Stages
  <2> QED
    BY <1>1, <2>1 DEF TypeOK
<1>4. MemoryClean' /\ DiskClean' /\ Formatting'
  <2>1. Clean(ddir, dsuper)'
    BY <1>1, <1>2, BlankClean DEF Clean, Separate, Unique, Used, Blanked
  <2> QED
    BY <1>1, <1>2, <2>1 DEF MemoryClean, DiskClean, Formatting, NoSuper, Blanked
<1>5. Durable'
  <2>1. \A n : OnDisk(n) = Missing /\ OnDisk(n)' = Missing
    <3>1. \A s \in Used(ddir) : FALSE
      BY <1>2, BlankClean DEF Used
    <3>2. \A n : Stored(ddir, ddata, n) = Missing
      BY <3>1, NoneFound
    <3> QED
      BY <1>1, <3>2 DEF OnDisk
  <2> QED
    BY <1>1, <2>1 DEF Durable
<1>6. InProgress'
  BY <1>1, <1>2 DEF InProgress
<1> QED
  BY <1>3, <1>4, <1>5, <1>6

LEMMA FormatDirStep ==
    ASSUME DInv, FormatDir
    PROVE  DInv'
<1> USE DEF DInv
<1>1. /\ stage = "fdir" /\ ddir' = Flushed(at)
      /\ UNCHANGED <<dsuper, ddata, next, dir, files, boot, promised>>
  BY DEF FormatDir
<1>2. next = 0 /\ Blanked(dir) /\ Blanked(ddir) /\ ~enabled /\ dsuper = 0
  BY <1>1 DEF Formatting
<1>3. Blanked(ddir') /\ DOMAIN ddir' = Slots
  BY <1>1, <1>2 DEF Flushed, Blanked
<1>4. CASE at < DirSectors - 1 /\ Goto("fdir", at + 1) /\ UNCHANGED <<enabled, op>>
  <2>1. stage' = "fdir" /\ at' = at + 1 /\ UNCHANGED <<enabled, op>>
    BY <1>4 DEF Goto
  <2>2. TypeOK'
    <3>1. at' \in 0 .. DirSectors + MaxLen
      BY <1>4, <2>1, SizesAssumption DEF TypeOK
    <3>2. \A s \in Slots : EntryOK(ddir'[s])
      BY <1>3, BlankClean
    <3> QED
      BY <1>1, <1>3, <2>1, <3>1, <3>2 DEF TypeOK
  <2>3. MemoryClean' /\ DiskClean' /\ Formatting' /\ InProgress'
    <3>1. Clean(ddir', dsuper')
      BY <1>3, BlankClean
    <3> QED
      BY <1>1, <1>2, <1>3, <2>1, <3>1 DEF MemoryClean, DiskClean, Formatting, InProgress,
         NoSuper, Blanked, Clean, Separate, Unique, Used
  <2>4. Durable'
    <3>1. \A n : Stored(ddir, ddata, n) = Missing /\ Stored(ddir', ddata', n) = Missing
      <4>1. (\A s \in Used(ddir) : FALSE) /\ (\A s \in Used(ddir') : FALSE)
        BY <1>2, <1>3, BlankClean DEF Used
      <4> QED
        BY <4>1, NoneFound
    <3>2. \A n : OnDisk(n) = Missing /\ OnDisk(n)' = Missing
      BY <3>1 DEF OnDisk
    <3> QED
      BY <1>1, <3>2 DEF Durable
  <2> QED
    BY <2>2, <2>3, <2>4
<1>5. CASE Finish /\ enabled' = TRUE
  <2>1. stage' = "idle" /\ at' = 0 /\ enabled' = TRUE /\ op' = NoOp
    BY <1>5 DEF Finish, Goto
  <2>2. TypeOK'
    <3>1. at' \in 0 .. DirSectors + MaxLen /\ stage' \in Stages /\ enabled' \in BOOLEAN
      BY <2>1, SizesAssumption DEF Stages
    <3>2. \A s \in Slots : EntryOK(ddir'[s])
      BY <1>3, BlankClean
    <3>3. op'.slot \in Slots /\ op'.text \in Texts /\ op'.name \in Names \cup {Missing}
      BY <2>1, NoOpTyped
    <3> QED
      BY <1>1, <1>3, <3>1, <3>2, <3>3 DEF TypeOK
  <2>3. MemoryClean' /\ DiskClean' /\ Formatting' /\ InProgress'
    <3>1. Clean(ddir', dsuper') /\ Clean(dir', next')
      BY <1>1, <1>2, <1>3, BlankClean
    <3>2. InStep'
      BY <1>1, <1>2, <1>3 DEF InStep, Blanked
    <3> QED
      BY <1>1, <1>2, <1>3, <2>1, <3>1, <3>2 DEF MemoryClean, DiskClean, Formatting, InProgress,
         NoSuper, Clean, Separate, Unique, Used
  <2>4. Durable'
    <3>1. \A n : Stored(ddir, ddata, n) = Missing /\ Stored(ddir', ddata', n) = Missing
      <4>1. (\A s \in Used(ddir) : FALSE) /\ (\A s \in Used(ddir') : FALSE)
        BY <1>2, <1>3, BlankClean DEF Used
      <4> QED
        BY <4>1, NoneFound
    <3>2. \A n : OnDisk(n) = Missing /\ OnDisk(n)' = Missing
      BY <3>1 DEF OnDisk
    <3> QED
      BY <1>1, <3>2 DEF Durable
  <2> QED
    BY <2>2, <2>3, <2>4
<1> QED
  BY <1>4, <1>5 DEF FormatDir

-----------------------------------------------------------------------------
(* The steps in memory that begin a write or a removal *)

LEMMA TextLen ==
    ASSUME NEW c \in Texts
    PROVE  /\ Len(c) \in 0 .. MaxLen /\ c \in [1 .. Len(c) -> Data \cup {Blank}]
           /\ c = <<>> <=> Len(c) = 0
<1>1. PICK k \in 0 .. MaxLen : c \in [1 .. k -> Data \cup {Blank}]
  BY DEF Texts
<1>2. c \in Seq(Data \cup {Blank}) /\ Len(c) = k
  BY <1>1, SizesAssumption
<1> QED
  BY <1>1, <1>2

LEMMA NewText ==
    ASSUME NEW c \in NewTexts
    PROVE  c \in Texts
<1>1. PICK k \in 0 .. MaxLen : c \in [1 .. k -> Data]
  BY TextsAssumption
<1>2. c \in [1 .. k -> Data \cup {Blank}]
  BY <1>1
<1> QED
  BY <1>2 DEF Texts

(* An entry that no other shares its name or a sector with may take any    *)
(* slot of a clean directory.                                              *)
LEMMA ReplaceClean ==
    ASSUME DOMAIN dir = Slots, Clean(dir, next), next \in Int, NEW slot \in Slots, NEW e,
           e.used, NEW free \in Int, next <= free,
           \A s \in Used(dir) \ {slot} : dir[s].name # e.name,
           \A i \in Extent(e) : i < free,
           \A s \in Used(dir) \ {slot} : Extent(dir[s]) \cap Extent(e) = {},
           \A s \in Slots : EntryOK(dir[s])
    PROVE  Clean([dir EXCEPT ![slot] = e], free)
<1> DEFINE d == [dir EXCEPT ![slot] = e]
<1>1. \A s \in Slots : d[s] = IF s = slot THEN e ELSE dir[s]
  OBVIOUS
<1>2. \A s \in Used(d) : s = slot \/ s \in Used(dir) \ {slot}
  BY <1>1 DEF Used
<1>3. \A s \in Used(dir) \ {slot} : d[s] = dir[s] /\ s \in Slots
  BY <1>1 DEF Used
<1>4. d[slot] = e
  BY <1>1
<1> HIDE DEF d
<1>5. Unique(d)
  BY <1>2, <1>3, <1>4 DEF Clean, Unique
<1>6. ASSUME NEW s \in Used(d), NEW t \in Used(d), s # t
      PROVE  Extent(d[s]) \cap Extent(d[t]) = {}
  BY <1>2, <1>3, <1>4, <1>6 DEF Clean, Separate
<1>7. ASSUME NEW s \in Used(d), NEW i \in Extent(d[s])
      PROVE  i < free
  <2>1. CASE s = slot
    BY <2>1, <1>4
  <2>2. CASE s \in Used(dir) \ {slot}
    <3>1. i \in Extent(dir[s]) /\ i < next
      BY <2>2, <1>3 DEF Clean, Separate
    <3>2. i \in Int
      BY <3>1, <2>2, <1>3 DEF Extent, EntryOK, Free
    <3> QED
      BY <3>1, <3>2
  <2> QED
    BY <1>2, <2>1, <2>2
<1> QED
  BY <1>5, <1>6, <1>7 DEF Clean, Separate, d

(* A change to the entry of a name nothing is promised of keeps memory and *)
(* disk in step.                                                           *)
LEMMA InStepAfter ==
    ASSUME TypeOK, InStep, NEW n \in Names, NEW slot \in Slots, NEW e,
           e.used => e.name = n, dir[slot].used => dir[slot].name = n,
           dir' = [dir EXCEPT ![slot] = e],
           promised' = [promised EXCEPT ![n] = Unknown], UNCHANGED ddir
    PROVE  InStep'
<1>1. \A m \in Names : m = n \/ promised[m] = Unknown => promised'[m] = Unknown
  BY DEF TypeOK
<1>2. \A s \in Slots : dir'[s] = IF s = slot THEN e ELSE dir[s]
  BY DEF TypeOK
<1>3. \A s \in Slots : /\ dir[s].used => dir[s].name \in Names
                       /\ ddir[s].used => ddir[s].name \in Names
  BY DEF TypeOK, EntryOK, Free
<1> SUFFICES ASSUME NEW s \in Slots, dir'[s] # ddir[s]
             PROVE  /\ dir'[s].used => promised'[dir'[s].name] = Unknown
                    /\ ddir[s].used => promised'[ddir[s].name] = Unknown
  BY DEF InStep
<1>4. CASE s # slot
  BY <1>1, <1>2, <1>3, <1>4 DEF InStep
<1>5. CASE s = slot
  <2>1. dir'[s].used => promised'[dir'[s].name] = Unknown
    BY <1>1, <1>2, <1>5
  <2>2. CASE dir[s] = ddir[s]
    BY <1>1, <1>5, <2>1, <2>2
  <2>3. CASE dir[s] # ddir[s]
    BY <1>1, <1>3, <2>1, <2>3 DEF InStep
  <2> QED
    BY <2>2, <2>3
<1> QED
  BY <1>4, <1>5

(* The entry dfs_write works on is the only one of its name, or a fresh    *)
(* one in a free slot.                                                     *)
LEMMA TargetIs ==
    ASSUME TypeOK, Unique(dir), NEW n \in Names, NEW t \in Targets(n)
    PROVE  /\ t.slot \in Slots /\ t.entry.used /\ t.entry.name = n /\ EntryOK(t.entry)
           /\ dir[t.slot].used => dir[t.slot] = t.entry
           /\ ~ dir[t.slot].used => t.entry = Entry(n, next, 0)
           /\ \A s \in Used(dir) \ {t.slot} : dir[s].name # n
<1>1. CASE Find(dir, n) # {}
  <2>1. PICK s \in Find(dir, n) : t = [slot |-> s, entry |-> dir[s]]
    BY <1>1 DEF Targets
  <2>2. t.slot = s /\ t.entry = dir[s] /\ s \in Used(dir) /\ s \in Slots /\ dir[s].name = n
    BY <2>1, FoundIs
  <2>3. dir[s].used /\ EntryOK(dir[s])
    BY <2>2 DEF Used, TypeOK
  <2>4. \A u \in Used(dir) \ {s} : dir[u].name # n
    BY <2>2 DEF Unique
  <2> QED
    BY <2>2, <2>3, <2>4
<1>2. CASE Find(dir, n) = {}
  <2>1. PICK s \in FindFree(dir) : t = [slot |-> s, entry |-> Entry(n, next, 0)]
    BY <1>2 DEF Targets
  <2>2. t.slot = s /\ t.entry = Entry(n, next, 0) /\ s \in Slots /\ ~ dir[s].used
    BY <2>1, FreeIs DEF Used
  <2>3. t.entry.used /\ t.entry.name = n /\ EntryOK(t.entry)
    BY <2>2, SizesAssumption DEF Entry, EntryOK, TypeOK
  <2>4. \A u \in Used(dir) : dir[u].name # n
    <3> SUFFICES ASSUME NEW u \in Used(dir), dir[u].name = n PROVE FALSE
      OBVIOUS
    <3>1. Find(dir, n) = {u}
      BY OneFound DEF Unique
    <3> QED
      BY <3>1, <1>2
  <2> QED
    BY <2>2, <2>3, <2>4
<1> QED
  BY <1>1, <1>2

(* dfs_write gives a file sectors nobody has. *)
LEMMA PlaceIs ==
    ASSUME TypeOK, Clean(dir, next), NEW n \in Names, NEW t \in Targets(n),
           NEW size \in 0 .. MaxLen, NEW e \in Place(t.entry, n, size)
    PROVE  /\ e.used /\ e.name = n /\ e.size = size /\ EntryOK(e)
           /\ Advance(t.entry, size) \in 0 .. DataSectors
           /\ Clean([dir EXCEPT ![t.slot] = e], Advance(t.entry, size))
<1> USE SizesAssumption
<1> DEFINE old == t.entry
           free == Advance(old, size)
<1>1. /\ t.slot \in Slots /\ old.used /\ old.name = n /\ EntryOK(old)
      /\ dir[t.slot].used => dir[t.slot] = old
      /\ ~ dir[t.slot].used => old = Entry(n, next, 0)
      /\ \A s \in Used(dir) \ {t.slot} : dir[s].name # n
  BY TargetIs DEF Clean
<1>2. /\ next \in Nat /\ next <= DataSectors /\ size \in Nat /\ size <= MaxLen
      /\ old.start \in Nat /\ old.size \in Nat /\ old.start + old.size <= DataSectors
      /\ DOMAIN dir = Slots /\ \A s \in Slots : EntryOK(dir[s])
  BY <1>1 DEF TypeOK, EntryOK, Free
<1>3. \A s \in Used(dir) : \A i \in Extent(dir[s]) : i \in Int /\ i < next
  BY <1>2 DEF Clean, Separate, Extent, EntryOK, Free, Used
<1> HIDE DEF old
<1>4. CASE size <= old.size
  <2>1. e = Entry(n, old.start, size) /\ free = next
    BY <1>4, <1>2 DEF Place, Advance, old
  <2>2. e.used /\ e.name = n /\ e.size = size /\ e.start = old.start
    BY <2>1 DEF Entry
  <2>3. EntryOK(e) /\ free \in 0 .. DataSectors
    BY <1>2, <1>4, <2>1, <2>2 DEF EntryOK
  <2>4. \A i \in Extent(e) : dir[t.slot].used /\ i \in Extent(dir[t.slot])
    <3> SUFFICES ASSUME NEW i \in Extent(e)
                 PROVE  dir[t.slot].used /\ i \in Extent(dir[t.slot])
      OBVIOUS
    <3>1. i \in old.start .. old.start + size - 1 /\ i \in Int
      BY <2>2 DEF Extent
    <3>2. old.size # 0 /\ i \in old.start .. old.start + old.size - 1
      BY <3>1, <1>2, <1>4
    <3>3. dir[t.slot].used
      BY <3>2, <1>1 DEF Entry
    <3> QED
      BY <3>2, <3>3, <1>1 DEF Extent
  <2>5. \A i \in Extent(e) : i < free
    BY <1>1, <2>1, <2>4, <1>3 DEF Used
  <2>6. ASSUME NEW s \in Used(dir) \ {t.slot} PROVE Extent(dir[s]) \cap Extent(e) = {}
    BY <1>1, <2>4, <2>6 DEF Clean, Separate, Used
  <2>7. Clean([dir EXCEPT ![t.slot] = e], free)
    <3>1. free \in Int /\ next <= free /\ next \in Int
      BY <1>2, <2>1
    <3>2. \A s \in Used(dir) \ {t.slot} : dir[s].name # e.name
      BY <1>1, <2>2
    <3> HIDE DEF free
    <3> QED
      BY <3>1, <3>2, <1>1, <1>2, <2>2, <2>5, <2>6, ReplaceClean
  <2> QED
    BY <2>2, <2>3, <2>7 DEF old
<1>5. CASE ~ (size <= old.size)
  <2>1. e = Entry(n, next, size) /\ size <= DataSectors - next
    BY <1>5, <1>2 DEF Place, old
  <2>2. free = next + size /\ size > 0
    BY <1>5, <1>2 DEF Advance, old
  <2>3. e.used /\ e.name = n /\ e.size = size /\ e.start = next
    BY <2>1 DEF Entry
  <2>4. EntryOK(e) /\ free \in 0 .. DataSectors
    BY <1>2, <2>1, <2>2, <2>3 DEF EntryOK
  <2>5. \A i \in Extent(e) : i \in Int /\ i < free /\ next <= i
    BY <1>2, <2>2, <2>3 DEF Extent
  <2>6. ASSUME NEW s \in Used(dir) \ {t.slot}, NEW i \in Extent(dir[s]), i \in Extent(e)
        PROVE  FALSE
    BY <1>2, <1>3, <2>5, <2>6
  <2>7. Clean([dir EXCEPT ![t.slot] = e], free)
    <3>1. free \in Int /\ next <= free /\ next \in Int
      BY <1>2, <2>2
    <3>2. \A s \in Used(dir) \ {t.slot} : dir[s].name # e.name
      BY <1>1, <2>3
    <3>3. \A s \in Used(dir) \ {t.slot} : Extent(dir[s]) \cap Extent(e) = {}
      BY <2>6
    <3> HIDE DEF free
    <3> QED
      BY <3>1, <3>2, <3>3, <1>1, <1>2, <2>3, <2>5, ReplaceClean
  <2> QED
    BY <2>3, <2>4, <2>7 DEF old
<1> QED
  BY <1>4, <1>5

(* What every call that changes a file leaves alone *)
LEMMA QuietStep ==
    ASSUME DInv, stage = "idle", NEW n \in Names, UNCHANGED <<disk, enabled>>,
           promised' = [promised EXCEPT ![n] = Unknown]
    PROVE  /\ Durable' /\ promised' \in [Names -> Texts \cup {Missing, Unknown}]
           /\ stage' \notin {"dir", "super"} => DiskClean'
           /\ dsuper = NoSuper => Blanked(ddir)'
<1> USE DEF DInv
<1>1. UNCHANGED <<dsuper, ddir, ddata>>
  BY DEF disk
<1>2. Durable'
  BY <1>1 DEF Durable, OnDisk, TypeOK
<1>3. promised' \in [Names -> Texts \cup {Missing, Unknown}]
  BY DEF TypeOK
<1> QED
  BY <1>1, <1>2, <1>3 DEF DiskClean, Clean, Separate, Unique, Used, Blanked

LEMMA PutStep ==
    ASSUME DInv, stage = "idle", NEW n \in Names, NEW c \in NewTexts, Put(n, c),
           boot' \in 0 .. Len(BootList)
    PROVE  DInv'
<1> USE SizesAssumption DEF DInv
<1>1. /\ UNCHANGED <<disk, enabled>> /\ UNCHANGED <<dsuper, ddir, ddata, enabled>>
      /\ promised' = [promised EXCEPT ![n] = Unknown]
      /\ files' = [files EXCEPT ![n] = c]
  BY DEF Put, disk
<1>2. c \in Texts /\ Len(c) \in 0 .. MaxLen /\ (c = <<>> <=> Len(c) = 0)
  BY NewText, TextLen
<1>3. /\ Durable' /\ promised' \in [Names -> Texts \cup {Missing, Unknown}]
      /\ stage' \notin {"dir", "super"} => DiskClean'
      /\ dsuper = NoSuper => Blanked(ddir)'
  BY <1>1, QuietStep
<1>4. files' \in [Names -> Texts \cup {Missing}]
  BY <1>1, <1>2 DEF TypeOK
<1>5. CASE ~enabled /\ UNCHANGED <<next, dir, op, stage, at>>
  <2>1. TypeOK'
    BY <1>1, <1>3, <1>4, <1>5 DEF TypeOK
  <2>2. MemoryClean' /\ Formatting' /\ InProgress'
    BY <1>1, <1>5 DEF MemoryClean, Formatting, InProgress
  <2> QED
    BY <1>3, <1>5, <2>1, <2>2
<1>6. CASE enabled /\ SaveRefused(n, c)
  <2>1. Clean(dir, next) /\ InStep /\ dsuper # NoSuper
    BY <1>6 DEF MemoryClean
  <2>2. UNCHANGED <<next, op, stage, at>>
    BY <1>6 DEF SaveRefused
  <2>3. /\ Clean(dir', next) /\ InStep' /\ DOMAIN dir' = Slots
        /\ \A s \in Slots : EntryOK(dir'[s])
    <3>1. CASE UNCHANGED dir
      <4>1. InStep'
        BY <3>1, <2>1, <1>1 DEF InStep, TypeOK, EntryOK, Free
      <4> QED
        BY <3>1, <4>1, <2>1 DEF TypeOK
    <3>2. CASE \E t \in Targets(n) :
                 /\ Place(t.entry, n, Len(c)) = {}
                 /\ dir' = [dir EXCEPT ![t.slot] = t.entry]
      <4>1. PICK t \in Targets(n) : dir' = [dir EXCEPT ![t.slot] = t.entry]
        BY <3>2
      <4>2. /\ t.slot \in Slots /\ t.entry.used /\ t.entry.name = n /\ EntryOK(t.entry)
            /\ dir[t.slot].used => dir[t.slot] = t.entry
            /\ ~ dir[t.slot].used => t.entry = Entry(n, next, 0)
        BY <2>1, TargetIs DEF Clean
      <4>3. InStep'
        BY <4>1, <4>2, <2>1, <1>1, InStepAfter
      <4>4. Clean(dir', next)
        <5>1. CASE dir[t.slot].used
          <6>1. \A s \in Slots : dir'[s] = dir[s]
            BY <5>1, <4>1, <4>2 DEF TypeOK
          <6> QED
            BY <6>1, <2>1 DEF Clean, Separate, Unique, Used
        <5>2. CASE ~ dir[t.slot].used
          <6>1. t.entry = Entry(n, next, 0) /\ t.entry.size = 0 /\ 0 \in 0 .. MaxLen
            BY <5>2, <4>2 DEF Entry
          <6>2. Advance(t.entry, 0) = next /\ t.entry \in Place(t.entry, n, 0)
            BY <6>1 DEF Advance, Place, Entry
          <6>3. Clean([dir EXCEPT ![t.slot] = t.entry], Advance(t.entry, 0))
            <7>1. TypeOK /\ Clean(dir, next)
              BY <2>1
            <7>2. t.entry \in Place(t.entry, n, 0) /\ 0 \in 0 .. MaxLen /\ t \in Targets(n)
              BY <6>1, <6>2, <4>1
            <7> QED
              BY <7>1, <7>2, PlaceIs, Zenon
          <6> QED
            BY <6>2, <6>3, <4>1
        <5> QED
          BY <5>1, <5>2
      <4> QED
        BY <4>1, <4>2, <4>3, <4>4 DEF TypeOK
    <3> QED
      BY <1>6, <3>1, <3>2 DEF SaveRefused
  <2>4. TypeOK'
    BY <1>1, <1>3, <1>4, <2>2, <2>3 DEF TypeOK
  <2>5. MemoryClean'
    BY <1>1, <2>1, <2>2, <2>3 DEF MemoryClean, Clean, Separate, Unique, Used
  <2>6. Formatting' /\ InProgress' /\ DiskClean'
    BY <2>2, <1>3 DEF Formatting, InProgress
  <2> QED
    BY <1>3, <2>4, <2>5, <2>6
<1>7. CASE enabled /\ SaveBegins(n, c)
  <2>1. Clean(dir, next) /\ InStep /\ dsuper # NoSuper
    BY <1>7 DEF MemoryClean
  <2>0. PICK t \in Targets(n) : \E e \in Place(t.entry, n, Len(c)) :
          /\ dir' = [dir EXCEPT ![t.slot] = e]
          /\ next' = Advance(t.entry, Len(c))
          /\ op' = Op("write", n, c, t.slot)
          /\ Goto(IF c = <<>> THEN "dir" ELSE "data", 0)
    BY <1>7 DEF SaveBegins
  <2>2. PICK e \in Place(t.entry, n, Len(c)) :
          /\ dir' = [dir EXCEPT ![t.slot] = e]
          /\ next' = Advance(t.entry, Len(c))
          /\ op' = Op("write", n, c, t.slot)
          /\ Goto(IF c = <<>> THEN "dir" ELSE "data", 0)
    BY <2>0
  <2>3. /\ t.slot \in Slots
        /\ dir[t.slot].used => dir[t.slot].name = n
    BY <2>0, <2>1, TargetIs DEF Clean
  <2>4. /\ e.used /\ e.name = n /\ e.size = Len(c) /\ EntryOK(e)
        /\ next' \in 0 .. DataSectors
        /\ Clean(dir', next')
    <3>1. TypeOK /\ Clean(dir, next)
      BY <2>1
    <3>2. e \in Place(t.entry, n, Len(c)) /\ Len(c) \in 0 .. MaxLen /\ t \in Targets(n)
      BY <1>2, <2>0, <2>2
    <3>3. /\ e.used /\ e.name = n /\ e.size = Len(c) /\ EntryOK(e)
          /\ Advance(t.entry, Len(c)) \in 0 .. DataSectors
          /\ Clean([dir EXCEPT ![t.slot] = e], Advance(t.entry, Len(c)))
      BY <3>1, <3>2, PlaceIs, Zenon
    <3> QED
      BY <3>3, <2>2
  <2>5. InStep'
    BY <2>1, <2>2, <2>3, <2>4, <1>1, InStepAfter
  <2>6. op'.kind = "write" /\ op'.name = n /\ op'.text = c /\ op'.slot = t.slot
    BY <2>2 DEF Op
  <2>7. at' = 0 /\ stage' = IF c = <<>> THEN "dir" ELSE "data"
    BY <2>2 DEF Goto
  <2>8. DOMAIN dir' = Slots /\ dir'[t.slot] = e /\ \A s \in Slots : EntryOK(dir'[s])
    BY <2>2, <2>3, <2>4 DEF TypeOK
  <2>9. TypeOK'
    <3>1. at' \in 0 .. DirSectors + MaxLen /\ stage' \in Stages
      BY <2>7 DEF Stages
    <3>2. op'.slot \in Slots /\ op'.text \in Texts /\ op'.name \in Names \cup {Missing}
      BY <2>3, <2>6, <1>2
    <3> QED
      BY <1>1, <1>3, <1>4, <2>4, <2>8, <3>1, <3>2 DEF TypeOK
  <2>10. MemoryClean'
    BY <1>1, <2>1, <2>4, <2>5 DEF MemoryClean, Clean, Separate, Unique, Used
  <2>11. DiskClean' /\ Formatting'
    BY <1>1, <1>3, <2>1, <2>7 DEF DiskClean, Formatting
  <2>12. Written(0)'
    <3>1. files'[n] = c /\ promised'[n] = Unknown
      BY <1>1 DEF TypeOK
    <3> QED
      BY <3>1, <2>4, <2>6, <2>8 DEF Written
  <2>13. InProgress'
    <3>1. CASE c = <<>>
      <4>1. Len(c) = 0 /\ stage' = "dir"
        BY <3>1, <1>2, <2>7
      <4>2. ASSUME NEW s \in Slots PROVE ~ (s \div PerSector < 0)
        <5>1. s \div PerSector \in 0 .. DirSectors - 1
          BY SlotSector
        <5> QED
          BY <5>1
      <4> QED
        BY <4>1, <4>2, <2>6, <2>7, <2>12, <1>1, <1>7 DEF InProgress
    <3>2. CASE c # <<>>
      <4>1. 0 < Len(c) /\ stage' = "data"
        BY <3>2, <1>2, <2>7
      <4> QED
        BY <4>1, <2>6, <2>7, <2>12, <1>1, <1>7 DEF InProgress
    <3> QED
      BY <3>1, <3>2
  <2> QED
    BY <1>3, <2>9, <2>10, <2>11, <2>13
<1> QED
  BY <1>5, <1>6, <1>7 DEF Put

LEMMA RemoveStep ==
    ASSUME DInv, NEW n \in Names, FsRemove(n)
    PROVE  DInv'
<1> USE SizesAssumption DEF DInv
<1>1. /\ stage = "idle" /\ UNCHANGED <<disk, enabled>>
      /\ UNCHANGED <<dsuper, ddir, ddata, next, enabled, boot>>
      /\ promised' = [promised EXCEPT ![n] = Unknown]
      /\ files' = [files EXCEPT ![n] = Missing]
  BY DEF FsRemove, disk
<1>2. /\ Durable' /\ promised' \in [Names -> Texts \cup {Missing, Unknown}]
      /\ stage' \notin {"dir", "super"} => DiskClean'
      /\ dsuper = NoSuper => Blanked(ddir)'
  BY <1>1, QuietStep
<1>3. files' \in [Names -> Texts \cup {Missing}]
  BY <1>1 DEF TypeOK
<1>4. CASE UNCHANGED <<dir, op, stage, at>>
  <2>1. TypeOK'
    BY <1>1, <1>2, <1>3, <1>4 DEF TypeOK
  <2>2. InStep => InStep'
    BY <1>1, <1>4 DEF InStep, TypeOK, EntryOK, Free
  <2>3. MemoryClean'
    BY <1>1, <1>4, <2>2 DEF MemoryClean, Clean, Separate, Unique, Used
  <2>4. Formatting' /\ InProgress'
    BY <1>1, <1>4 DEF Formatting, InProgress
  <2> QED
    BY <1>1, <1>2, <1>4, <2>1, <2>3, <2>4
<1>5. CASE enabled /\ DfsRemove(n)
  <2>1. Clean(dir, next) /\ InStep /\ dsuper # NoSuper
    BY <1>5 DEF MemoryClean
  <2>2. PICK s \in Find(dir, n) :
          /\ dir' = [dir EXCEPT ![s] = Free]
          /\ op' = Op("remove", n, <<>>, s)
          /\ Goto("dir", 0)
    BY <1>5 DEF DfsRemove
  <2>3. s \in Slots /\ dir[s].used /\ dir[s].name = n /\ ~ Free.used
    BY <2>2, FoundIs DEF Used, Free
  <2>4. \A u \in Slots : dir'[u] = IF u = s THEN Free ELSE dir[u]
    BY <2>2 DEF TypeOK
  <2>5. \A u \in Used(dir') : u \in Used(dir) /\ u # s /\ dir'[u] = dir[u]
    BY <2>3, <2>4 DEF Used
  <2>6. Clean(dir', next)
    BY <2>1, <2>5 DEF Clean, Separate, Unique
  <2>7. InStep'
    BY <1>1, <2>1, <2>2, <2>3, InStepAfter
  <2>8. op'.kind = "remove" /\ op'.name = n /\ op'.text = <<>> /\ op'.slot = s
    BY <2>2 DEF Op
  <2>9. at' = 0 /\ stage' = "dir"
    BY <2>2 DEF Goto
  <2>10. TypeOK'
    <3>1. at' \in 0 .. DirSectors + MaxLen /\ stage' \in Stages
      BY <2>9 DEF Stages
    <3>2. op'.slot \in Slots /\ op'.text \in Texts /\ op'.name \in Names \cup {Missing}
      BY <2>3, <2>8, EmptyText
    <3>3. DOMAIN dir' = Slots /\ \A u \in Slots : EntryOK(dir'[u])
      BY <2>2, <2>4 DEF TypeOK, EntryOK
    <3> QED
      BY <1>1, <1>2, <1>3, <3>1, <3>2, <3>3 DEF TypeOK
  <2>11. MemoryClean' /\ DiskClean' /\ Formatting'
    BY <1>1, <1>2, <2>1, <2>6, <2>7, <2>9 DEF MemoryClean, DiskClean, Formatting,
       Clean, Separate, Unique, Used
  <2>12. Removed'
    <3>1. files'[n] = Missing /\ promised'[n] = Unknown
      BY <1>1 DEF TypeOK
    <3>2. \A u \in Used(dir') : dir'[u].name # n
      BY <2>1, <2>3, <2>5 DEF Clean, Unique, Used
    <3> QED
      BY <3>1, <3>2, <2>8 DEF Removed
  <2>13. InProgress'
    <3>1. ASSUME NEW u \in Slots PROVE ~ (u \div PerSector < 0)
      <4>1. u \div PerSector \in 0 .. DirSectors - 1
        BY SlotSector
      <4> QED
        BY <4>1
    <3> QED
      BY <3>1, <2>8, <2>9, <2>12, <1>1, <1>5 DEF InProgress
  <2> QED
    BY <1>2, <2>10, <2>11, <2>13
<1> QED
  BY <1>1, <1>4, <1>5 DEF FsRemove

LEMMA SyncStep ==
    ASSUME DInv, FsSync
    PROVE  DInv'
<1> USE SizesAssumption DEF DInv
<1>1. /\ stage = "idle" /\ enabled /\ op' = Op("sync", Missing, <<>>, 0)
      /\ stage' = "dir" /\ at' = 0
      /\ UNCHANGED <<dsuper, ddir, ddata, next, dir, enabled, files, boot, promised>>
  BY DEF FsSync, Goto, disk, memory
<1>2. op'.kind = "sync" /\ op'.name = Missing /\ op'.text = <<>> /\ op'.slot = 0
  BY <1>1 DEF Op
<1>3. TypeOK'
  <2>1. at' \in 0 .. DirSectors + MaxLen /\ stage' \in Stages
    BY <1>1 DEF Stages
  <2>2. op'.slot \in Slots /\ op'.text \in Texts /\ op'.name \in Names \cup {Missing}
    BY <1>2, SlotSector, EmptyText
  <2> QED
    BY <1>1, <2>1, <2>2 DEF TypeOK
<1>4. MemoryClean' /\ DiskClean' /\ Formatting' /\ Durable'
  BY <1>1 DEF MemoryClean, DiskClean, Formatting, Clean, Separate, Unique, Used, InStep,
     Durable, OnDisk, Blanked
<1>5. InProgress'
  <2>1. ASSUME NEW u \in Slots PROVE ~ (u \div PerSector < 0)
    <3>1. u \div PerSector \in 0 .. DirSectors - 1
      BY SlotSector
    <3> QED
      BY <3>1
  <2> QED
    BY <2>1, <1>1, <1>2 DEF InProgress
<1> QED
  BY <1>3, <1>4, <1>5

-----------------------------------------------------------------------------
(* Sector writes *)

(* Every sector of the file being written is that file's alone, in memory  *)
(* and on the disk a power cut would leave.                                *)
LEMMA WriteDataStep ==
    ASSUME DInv, WriteData
    PROVE  DInv'
<1> USE SizesAssumption DEF DInv
<1> DEFINE n == op.name
           k == op.slot
           len == Len(op.text)
<1>1. /\ stage = "data"
      /\ ddata' = [ddata EXCEPT ![dir[k].start + at] = op.text[at + 1]]
      /\ UNCHANGED <<dsuper, ddir, next, dir, enabled, files, op, boot, promised>>
      /\ \/ at + 1 < len /\ stage' = "data" /\ at' = at + 1
         \/ ~ (at + 1 < len) /\ stage' = "dir" /\ at' = 0
  BY DEF WriteData, Goto, memory
<1>2. op.kind = "write" /\ at < len /\ Written(at) /\ enabled
  BY <1>1 DEF InProgress
<1>3. Clean(dir, next) /\ InStep /\ dsuper # NoSuper
  BY <1>2 DEF MemoryClean
<1>4. /\ k \in Slots /\ dir[k].used /\ dir[k].name = n /\ dir[k].size = len /\ n \in Names
      /\ promised[n] = Unknown /\ files[n] = op.text
      /\ \A i \in 1 .. at : ddata[dir[k].start + i - 1] = op.text[i]
  BY <1>2 DEF Written, TypeOK
<1>5. /\ len \in 0 .. MaxLen /\ op.text \in [1 .. len -> Data \cup {Blank}]
      /\ at \in Nat /\ dir[k].start \in Nat /\ dir[k].start + len <= DataSectors
  BY <1>4, TextLen DEF TypeOK, EntryOK, Free
<1>6. dir[k].start + at \in 0 .. DataSectors - 1 /\ at + 1 \in 1 .. len
  BY <1>2, <1>5, SMTT(30)
<1>7. dir[k].start + at \in Extent(dir[k])
  <2>1. dir[k].start + at \in dir[k].start .. dir[k].start + dir[k].size - 1
    BY <1>2, <1>4, <1>5, SMTT(30)
  <2> QED
    BY <2>1, <1>4 DEF Extent
<1>8. ddata' \in [0 .. DataSectors - 1 -> Data \cup {Blank}]
  BY <1>1, <1>5, <1>6 DEF TypeOK
<1>9. TypeOK'
  <2>1. at' \in 0 .. DirSectors + MaxLen /\ stage' \in Stages
    BY <1>1, <1>5, SMTT(30) DEF Stages
  <2> QED
    BY <1>1, <1>8, <2>1 DEF TypeOK
<1>10. MemoryClean' /\ DiskClean' /\ Formatting'
  BY <1>1, <1>2, <1>3 DEF MemoryClean, DiskClean, Formatting, Clean, Separate, Unique, Used,
     InStep, Blanked
<1>11. ASSUME NEW i \in 1 .. at + 1
       PROVE  ddata'[dir[k].start + i - 1] = op.text[i]
  <2>1. CASE i = at + 1
    <3>1. dir[k].start + i - 1 = dir[k].start + at
      BY <2>1, <1>5
    <3> QED
      BY <2>1, <3>1, <1>1, <1>6 DEF TypeOK
  <2>2. CASE i # at + 1
    <3>1. i \in 1 .. at /\ dir[k].start + i - 1 # dir[k].start + at
          /\ dir[k].start + i - 1 \in 0 .. DataSectors - 1
      BY <2>2, <1>2, <1>5, SMTT(30)
    <3>2. ddata'[dir[k].start + i - 1] = ddata[dir[k].start + i - 1]
      BY <3>1, <1>1 DEF TypeOK
    <3> QED
      BY <3>1, <3>2, <1>4
  <2> QED
    BY <2>1, <2>2
<1>12. InProgress'
  <2>1. CASE at + 1 < len /\ stage' = "data" /\ at' = at + 1
    <3>1. Written(at)'
      BY <2>1, <1>1, <1>4, <1>11 DEF Written
    <3> QED
      BY <2>1, <3>1, <1>1, <1>2 DEF InProgress
  <2>2. CASE ~ (at + 1 < len) /\ stage' = "dir" /\ at' = 0
    <3>1. at + 1 = len
      BY <2>2, <1>2, <1>5
    <3>2. Written(len)'
      BY <3>1, <1>1, <1>4, <1>11 DEF Written
    <3>3. ASSUME NEW u \in Slots PROVE ~ (u \div PerSector < 0)
      <4>1. u \div PerSector \in 0 .. DirSectors - 1
        BY SlotSector
      <4> QED
        BY <4>1
    <3> QED
      BY <2>2, <3>2, <3>3, <1>1, <1>2 DEF InProgress
  <2> QED
    BY <1>1, <2>1, <2>2
<1>13. Durable'
  <2> SUFFICES ASSUME NEW m \in Names, promised[m] # Unknown
               PROVE  OnDisk(m)' = OnDisk(m)
    BY <1>1 DEF Durable
  <2>1. ASSUME NEW s \in Used(ddir), ddir[s].name = m, NEW i \in 1 .. ddir[s].size
        PROVE  ddata[ddir[s].start + i - 1] = ddata'[ddir[s].start + i - 1]
    <3>1. s \in Slots /\ dir[s] = ddir[s] /\ s \in Used(dir)
      BY <2>1, <1>3, PromisedSame DEF Used
    <3>2. s # k
      BY <2>1, <3>1, <1>4
    <3>3. ddir[s].start \in Nat /\ ddir[s].size \in Nat /\ ddir[s].start + ddir[s].size <= DataSectors
      BY <2>1, <3>1 DEF TypeOK, EntryOK, Free, Used
    <3>4. /\ ddir[s].start + i - 1 \in 0 .. DataSectors - 1
          /\ ddir[s].start + i - 1 \in ddir[s].start .. ddir[s].start + ddir[s].size - 1
      BY <3>3
    <3>5. ddir[s].start + i - 1 \in Extent(dir[s])
      BY <3>1, <3>4 DEF Extent, Used
    <3>6. ddir[s].start + i - 1 # dir[k].start + at
      BY <3>1, <3>2, <3>5, <1>3, <1>4, <1>7 DEF Clean, Separate, Used
    <3> QED
      BY <3>4, <3>6, <1>1 DEF TypeOK
  <2>2. Stored(ddir, ddata, m) = Stored(ddir, ddata', m)
    BY <2>1, SameStored
  <2> QED
    BY <1>1, <1>3, <2>2, SameOnDisk
<1> QED
  BY <1>9, <1>10, <1>12, <1>13

LEMMA WriteDirStep ==
    ASSUME DInv, WriteDir
    PROVE  DInv'
<1> USE SizesAssumption DEF DInv
<1>1. /\ stage = "dir" /\ ddir' = Flushed(at)
      /\ UNCHANGED <<dsuper, ddata, next, dir, enabled, files, op, boot, promised>>
      /\ \/ at < DirSectors - 1 /\ stage' = "dir" /\ at' = at + 1
         \/ ~ (at < DirSectors - 1) /\ stage' = "super" /\ at' = 0
  BY DEF WriteDir, Goto, memory
<1>2. /\ enabled /\ at < DirSectors /\ at \in Nat
      /\ \A s \in Slots : s \div PerSector < at => ddir[s] = dir[s]
      /\ op.kind \in {"write", "remove", "sync"}
      /\ op.kind = "write" => Written(Len(op.text))
      /\ op.kind = "remove" => Removed
  BY <1>1 DEF InProgress, TypeOK
<1>3. Clean(dir, next) /\ InStep /\ dsuper # NoSuper
  BY <1>2 DEF MemoryClean
<1>4. /\ DOMAIN ddir' = Slots
      /\ \A s \in Slots : ddir'[s] = dir[s] \/ ddir'[s] = ddir[s]
      /\ \A s \in Slots : s \div PerSector = at => ddir'[s] = dir[s]
  BY <1>1 DEF Flushed
<1>5. TypeOK'
  <2>1. at' \in 0 .. DirSectors + MaxLen /\ stage' \in Stages
    BY <1>1, <1>2 DEF Stages
  <2>2. \A s \in Slots : EntryOK(ddir'[s])
    BY <1>4 DEF TypeOK
  <2> QED
    BY <1>1, <1>4, <2>1, <2>2 DEF TypeOK
<1>6. InStep'
  BY <1>1, <1>3, <1>4 DEF InStep
<1>7. MemoryClean' /\ DiskClean' /\ Formatting'
  BY <1>1, <1>2, <1>3, <1>6 DEF MemoryClean, DiskClean, Formatting, Clean, Separate, Unique, Used
<1>8. ASSUME NEW s \in Slots
      PROVE  /\ s \div PerSector < at + 1 => ddir'[s] = dir[s]
             /\ s \div PerSector < DirSectors
  <2>1. s \div PerSector \in 0 .. DirSectors - 1
    BY SlotSector
  <2>2. s \div PerSector < at + 1 => s \div PerSector < at \/ s \div PerSector = at
    BY <2>1, <1>2
  <2> QED
    BY <2>1, <2>2, <1>2, <1>4
<1>9. InProgress'
  <2>1. /\ op'.kind = "write" => Written(Len(op.text))'
        /\ op'.kind = "remove" => Removed'
    BY <1>1, <1>2 DEF Written, Removed, Used
  <2>2. CASE at < DirSectors - 1 /\ stage' = "dir" /\ at' = at + 1
    <3>1. at + 1 < DirSectors
      BY <2>2, <1>2
    <3> QED
      BY <2>1, <2>2, <3>1, <1>1, <1>2, <1>8 DEF InProgress
  <2>3. CASE ~ (at < DirSectors - 1) /\ stage' = "super" /\ at' = 0
    <3>1. at + 1 = DirSectors
      BY <2>3, <1>2
    <3>2. \A s \in Slots : ddir'[s] = dir[s]
      BY <3>1, <1>8
    <3> QED
      BY <2>1, <2>3, <3>2, <1>1, <1>2 DEF InProgress
  <2> QED
    BY <1>1, <2>2, <2>3
<1>10. Durable'
  <2> SUFFICES ASSUME NEW m \in Names, promised[m] # Unknown
               PROVE  OnDisk(m)' = OnDisk(m)
    BY <1>1 DEF Durable
  <2>1. /\ \A s \in Slots : (dir[s].used /\ dir[s].name = m) <=> (ddir[s].used /\ ddir[s].name = m)
        /\ \A s \in Used(dir) : dir[s].name = m => dir[s] = ddir[s]
        /\ \A s \in Used(ddir) : ddir[s].name = m => dir[s] = ddir[s]
    BY <1>3, PromisedSame
  <2>2. \A s \in Slots : (ddir[s].used /\ ddir[s].name = m) <=> (ddir'[s].used /\ ddir'[s].name = m)
    BY <2>1, <1>4
  <2>3. \A s \in Used(ddir) : ddir[s].name = m => ddir[s] = ddir'[s]
    BY <2>1, <1>4 DEF Used
  <2>4. Stored(ddir, ddata, m) = Stored(ddir', ddata, m)
    BY <2>2, <2>3, SameStored
  <2> QED
    BY <1>1, <1>3, <2>4, SameOnDisk
<1> QED
  BY <1>5, <1>7, <1>9, <1>10

(* A call that has reached the disk is promised and can be read back.      *)
LEMMA WriteSuperStep ==
    ASSUME DInv, WriteSuper
    PROVE  /\ DInv'
           /\ promised' = promised \/ (op.name \in Names
                 /\ promised' = [promised EXCEPT ![op.name] = files[op.name]])
<1> USE SizesAssumption DEF DInv
<1> DEFINE n == op.name
           k == op.slot
<1>1. /\ stage = "super" /\ dsuper' = next /\ stage' = "idle" /\ at' = 0 /\ op' = NoOp
      /\ UNCHANGED <<ddir, ddata, next, dir, enabled, files, boot>>
      /\ promised' = CASE op.kind = "write" -> [promised EXCEPT ![n] = op.text]
                       [] op.kind = "remove" -> [promised EXCEPT ![n] = Missing]
                       [] OTHER -> promised
  BY DEF WriteSuper, Finish, Goto, memory
<1>2. /\ enabled /\ \A s \in Slots : ddir[s] = dir[s]
      /\ op.kind \in {"write", "remove", "sync"}
      /\ op.kind = "write" => Written(Len(op.text))
      /\ op.kind = "remove" => Removed
  BY <1>1 DEF InProgress
<1>3. Clean(dir, next) /\ dsuper # NoSuper /\ next # NoSuper
  BY <1>2 DEF MemoryClean, TypeOK, NoSuper
<1>4. Clean(ddir, next)
  BY <1>2, <1>3 DEF Clean, Separate, Unique, Used
<1>5. /\ op.kind = "write" => n \in Names /\ op.text \in Texts /\ files[n] = op.text
            /\ promised' = [promised EXCEPT ![n] = op.text]
      /\ op.kind = "remove" => n \in Names /\ files[n] = Missing
            /\ promised' = [promised EXCEPT ![n] = Missing]
      /\ op.kind = "sync" => promised' = promised
  BY <1>1, <1>2 DEF Written, Removed, TypeOK
<1>6. TypeOK'
  <2>1. at' \in 0 .. DirSectors + MaxLen /\ stage' \in Stages
    BY <1>1 DEF Stages
  <2>2. op'.slot \in Slots /\ op'.text \in Texts /\ op'.name \in Names \cup {Missing}
    BY <1>1, NoOpTyped
  <2>3. dsuper' \in 0 .. DataSectors
    BY <1>1 DEF TypeOK
  <2>4. promised' \in [Names -> Texts \cup {Missing, Unknown}]
    BY <1>2, <1>5 DEF TypeOK
  <2> QED
    BY <1>1, <2>1, <2>2, <2>3, <2>4 DEF TypeOK
<1>7. MemoryClean'
  <2>1. InStep'
    BY <1>1, <1>2 DEF InStep
  <2>2. Clean(dir, next)'
    BY <1>1, <1>3 DEF Clean, Separate, Unique, Used
  <2> QED
    BY <2>1, <2>2, <1>1, <1>3 DEF MemoryClean
<1>8. DiskClean'
  <2>1. Clean(ddir', dsuper')
    BY <1>1, <1>4
  <2>2. Clean(ddir, dsuper)'
    BY <2>1 DEF Clean, Separate, Unique, Used
  <2> QED
    BY <2>2, <1>1, <1>3 DEF DiskClean
<1>9. Formatting' /\ InProgress'
  BY <1>1 DEF Formatting, InProgress
<1>10. ASSUME NEW m \in Names
       PROVE  OnDisk(m)' = OnDisk(m) /\ OnDisk(m) = Stored(ddir, ddata, m)
  BY <1>1, <1>3 DEF OnDisk
<1>11. op.kind = "write" => OnDisk(n) = op.text
  <2> SUFFICES ASSUME op.kind = "write" PROVE OnDisk(n) = op.text
    OBVIOUS
  <2>1. /\ k \in Slots /\ n \in Names /\ ddir[k].used /\ ddir[k].name = n
        /\ ddir[k].size = Len(op.text)
        /\ \A i \in 1 .. Len(op.text) : ddata[ddir[k].start + i - 1] = op.text[i]
    BY <1>2 DEF Written, TypeOK
  <2>2. k \in Used(ddir) /\ \A t \in Used(ddir) : ddir[t].name = n => t = k
    BY <2>1, <1>4 DEF Clean, Unique, Used
  <2>3. Stored(ddir, ddata, n) = ReadBack(ddir[k], ddata)
    <3>1. ASSUME NEW m, NEW s \in Used(ddir), ddir[s].name = m,
                 \A t \in Used(ddir) : ddir[t].name = m => t = s
          PROVE  Find(ddir, m) = {s}
      BY <3>1, OneFound
    <3>2. k \in Used(ddir) /\ ddir[k].name = n /\ \A t \in Used(ddir) : ddir[t].name = n => t = k
      BY <2>1, <2>2
    <3> HIDE DEF n, k
    <3>4. Find(ddir, n) = {k}
      BY <3>1, <3>2
    <3>3. (CHOOSE t \in Find(ddir, n) : TRUE) = k /\ Find(ddir, n) # {}
      BY <3>4
    <3> QED
      BY <3>3 DEF Stored
  <2>4. op.text \in [1 .. Len(op.text) -> Data \cup {Blank}]
    BY TextLen DEF TypeOK
  <2>5. ReadBack(ddir[k], ddata) = op.text
    BY <2>1, <2>4 DEF ReadBack
  <2> QED
    BY <2>1, <2>3, <2>5, <1>10
<1>12. op.kind = "remove" => OnDisk(n) = Missing
  <2> SUFFICES ASSUME op.kind = "remove" PROVE OnDisk(n) = Missing
    OBVIOUS
  <2>1. n \in Names /\ \A s \in Used(ddir) : ddir[s].name # n
    BY <1>2 DEF Removed, Used
  <2> QED
    BY <2>1, <1>10, NoneFound
<1>13. Durable'
  <2> SUFFICES ASSUME NEW m \in Names, promised'[m] # Unknown
               PROVE  OnDisk(m)' = promised'[m]
    BY DEF Durable
  <2>1. CASE op.kind = "write"
    BY <2>1, <1>5, <1>10, <1>11 DEF Durable, TypeOK
  <2>2. CASE op.kind = "remove"
    BY <2>2, <1>5, <1>10, <1>12 DEF Durable, TypeOK
  <2>3. CASE op.kind = "sync"
    BY <2>3, <1>5, <1>10 DEF Durable
  <2> QED
    BY <1>2, <2>1, <2>2, <2>3
<1>14. promised' = promised \/ (n \in Names /\ promised' = [promised EXCEPT ![n] = files[n]])
  BY <1>2, <1>5
<1> QED
  BY <1>6, <1>7, <1>8, <1>9, <1>13, <1>14

-----------------------------------------------------------------------------
(* Calls *)

LEMMA FsWriteStep ==
    ASSUME DInv, NEW n \in Names, NEW c \in NewTexts, FsWrite(n, c)
    PROVE  DInv'
<1>1. stage = "idle" /\ Put(n, c) /\ boot' \in 0 .. Len(BootList)
  BY DEF FsWrite, DInv, TypeOK
<1> QED
  BY <1>1, PutStep

(* The next default file of the boot *)
LEMMA BootFile ==
    ASSUME boot \in 0 .. Len(BootList), boot < Len(BootList)
    PROVE  /\ BootList[boot + 1].name \in Names /\ BootList[boot + 1].text \in NewTexts
           /\ boot + 1 \in 0 .. Len(BootList)
<1> DEFINE R == [name : Names, text : NewTexts, keep : BOOLEAN]
<1>1. BootList \in Seq(R)
  BY BootAssumption
<1> HIDE DEF R
<1>2. BootList[boot + 1] \in R /\ boot + 1 \in 0 .. Len(BootList)
  BY <1>1
<1> QED
  BY <1>2 DEF R

LEMMA BootWriteStep ==
    ASSUME DInv, BootWrite
    PROVE  DInv'
<1> DEFINE f == BootList[boot + 1]
<1>1. /\ stage = "idle" /\ boot < Len(BootList) /\ boot' = boot + 1
      /\ \/ Put(f.name, f.text)
         \/ UNCHANGED <<disk, memory, stage, at, op, promised>>
  BY DEF BootWrite
<1>2. boot' \in 0 .. Len(BootList) /\ f.name \in Names /\ f.text \in NewTexts
  BY <1>1, BootFile DEF DInv, TypeOK
<1>3. CASE Put(f.name, f.text)
  <2> HIDE DEF f
  <2> QED
    BY <1>1, <1>2, <1>3, PutStep
<1>4. CASE UNCHANGED <<disk, memory, stage, at, op, promised>>
  <2>1. UNCHANGED <<dsuper, ddir, ddata, next, dir, enabled, files, stage, at, op, promised>>
    BY <1>4 DEF disk, memory
  <2>2. TypeOK'
    BY <1>2, <2>1 DEF DInv, TypeOK
  <2>3. MemoryClean' /\ DiskClean' /\ Formatting'
    BY <2>1 DEF DInv, MemoryClean, DiskClean, Formatting, Clean, Separate, Unique, Used,
       InStep, Blanked
  <2>4. InProgress' /\ Durable'
    BY <2>1 DEF DInv, InProgress, Written, Removed, Used, Durable, OnDisk
  <2> QED
    BY <2>2, <2>3, <2>4 DEF DInv
<1> QED
  BY <1>1, <1>3, <1>4

LEMMA DiskInductive == MetadataSafe /\ DInv /\ [Next]_vars => DInv'
<1> SUFFICES ASSUME MetadataSafe, DInv, [Next]_vars PROVE DInv'
  OBVIOUS
<1>1. CASE Mount \/ Format \/ FormatSuper \/ FormatDir \/ BootWrite
  BY <1>1, MountStep, FormatStep, FormatSuperStep, FormatDirStep, BootWriteStep
<1>2. CASE MountFails
  BY <1>2, FinishStep DEF MountFails
<1>3. ASSUME NEW n \in Names, FsRemove(n) PROVE DInv'
  BY <1>3, RemoveStep
<1>4. ASSUME NEW n \in Names, NEW c \in NewTexts, FsWrite(n, c) PROVE DInv'
  BY <1>4, FsWriteStep
<1>5. CASE WriteData \/ WriteDir \/ WriteSuper \/ FsSync
  BY <1>5, WriteDataStep, WriteDirStep, WriteSuperStep, SyncStep
<1>6. CASE WriteFails \/ PowerOff
  BY <1>6, WriteFailsStep, PowerOffStep
<1>7. CASE UNCHANGED vars
  <2>1. UNCHANGED <<dsuper, ddir, ddata, next, dir, enabled, files, stage, at, op, boot, promised>>
    BY <1>7 DEF vars, disk, memory
  <2>2. TypeOK'
    BY <2>1 DEF DInv, TypeOK
  <2>3. MemoryClean' /\ DiskClean' /\ Formatting'
    BY <2>1 DEF DInv, MemoryClean, DiskClean, Formatting, Clean, Separate, Unique, Used,
       InStep, Blanked
  <2>4. InProgress' /\ Durable'
    BY <2>1 DEF DInv, InProgress, Written, Removed, Used, Durable, OnDisk
  <2> QED
    BY <2>2, <2>3, <2>4 DEF DInv
<1> QED
  BY <1>1, <1>2, <1>3, <1>4, <1>5, <1>6, <1>7 DEF Next

LEMMA DiskInvariant ==
    ASSUME MetadataSafe
    PROVE  Spec => []DInv
<1>1. Init => DInv
  BY InitDInv
<1>2. DInv /\ [Next]_vars => DInv'
  BY DiskInductive
<1> QED
  BY <1>1, <1>2, PTL DEF Spec

(* Every entry in memory and on the disk lies within the disk, names a     *)
(* file, and every sector address the code computes is one the disk has.   *)
THEOREM DiskTyped ==
    ASSUME MetadataSafe
    PROVE  Spec => []TypeOK
<1>1. DInv => TypeOK
  BY DEF DInv
<1> QED
  BY <1>1, DiskInvariant, PTL

(* No two files share a sector, in memory and on the disk a power cut      *)
(* leaves, after any series of calls, refusals, write errors and power     *)
(* cuts outside the directory and superblock writes.                       *)
THEOREM SectorsApart ==
    ASSUME MetadataSafe
    PROVE  Spec => []NoSharedSector
<1>1. DInv => NoSharedSector
  BY DEF DInv, MemoryClean, DiskClean, Clean, NoSharedSector
<1> QED
  BY <1>1, DiskInvariant, PTL

(* A completed write or removal can be read back from the disk at any      *)
(* moment from then on, until the name is written again.                   *)
THEOREM CompletedIsDurable ==
    ASSUME MetadataSafe
    PROVE  Spec => []Durable
<1>1. DInv => Durable
  BY DEF DInv
<1> QED
  BY <1>1, DiskInvariant, PTL

-----------------------------------------------------------------------------
(* The file store *)

(* What a session can read of the disk is what the store holds. *)
LEMMA MountIsSession ==
    ASSUME DInv, Mount
    PROVE  \E readable \in SUBSET Names : Store!Session(readable)
<1>1. PICK readable :
        /\ files' = [n \in Names |->
            IF Find(ddir, n) \cap Loaded(readable) = {} THEN Missing ELSE OnDisk(n)]
        /\ promised' = [n \in Names |->
            IF Find(ddir, n) \subseteq Loaded(readable) THEN OnDisk(n) ELSE promised[n]]
  BY DEF Mount
<1>2. dsuper # NoSuper /\ \A n \in Names : OnDisk(n) \in Texts \cup {Missing}
  BY OnDiskTyped DEF Mount, DInv
<1> DEFINE R == {n \in Names : Find(ddir, n) \subseteq Loaded(readable)}
<1>3. \A n \in R : files'[n] = OnDisk(n)
  <2> SUFFICES ASSUME NEW n \in R PROVE files'[n] = OnDisk(n)
    OBVIOUS
  <2>1. CASE Find(ddir, n) = {}
    BY <2>1, <1>1 DEF OnDisk, Stored
  <2>2. CASE Find(ddir, n) # {}
    BY <2>2, <1>1
  <2> QED
    BY <2>1, <2>2
<1>4. \A n \in Names \ R : files'[n] = Missing
  <2> SUFFICES ASSUME NEW n \in Names, ~ (Find(ddir, n) \subseteq Loaded(readable))
               PROVE  files'[n] = Missing
    OBVIOUS
  <2>1. Find(ddir, n) \cap Loaded(readable) = {}
    BY FoundIs
  <2> QED
    BY <2>1, <1>1
<1>5. files' \in [Names -> Texts \cup {Missing}]
  BY <1>1, <1>2
<1>6. \A n \in R : promised[n] # Unknown => files'[n] = promised[n]
  BY <1>3 DEF DInv, Durable
<1>7. promised' = [n \in Names |-> IF n \in R THEN files'[n] ELSE promised[n]]
  BY <1>1, <1>3
<1> HIDE DEF R
<1>8. Store!Session(R)
  BY <1>4, <1>5, <1>6, <1>7 DEF Store!Session
<1> QED
  BY <1>8 DEF R

LEMMA PutIsWrite ==
    ASSUME NEW n \in Names, NEW c \in NewTexts, Put(n, c)
    PROVE  Store!Write(n)
<1>1. /\ files' = [files EXCEPT ![n] = c]
      /\ promised' = [promised EXCEPT ![n] = Unknown]
      /\ c \in Texts
  BY NewText DEF Put
<1> QED
  BY <1>1 DEF Store!Write, Store!Change

LEMMA StoreStep == MetadataSafe /\ DInv /\ [Next]_vars => [Store!Next]_(Store!vars)
<1> SUFFICES ASSUME MetadataSafe, DInv, [Next]_vars PROVE [Store!Next]_(Store!vars)
  OBVIOUS
<1> USE DEF Store!vars
<1>1. CASE Mount
  BY <1>1, MountIsSession DEF Store!Next
<1>2. CASE MountFails \/ Format \/ FormatSuper \/ FormatDir \/ WriteData \/ WriteDir
           \/ FsSync \/ WriteFails \/ UNCHANGED vars
  BY <1>2 DEF MountFails, Format, FormatSuper, FormatDir, WriteData, WriteDir,
     FsSync, WriteFails, memory, vars
<1>3. CASE WriteSuper
  <2>1. files' = files
    BY <1>3 DEF WriteSuper, memory
  <2>2. promised' = promised \/ (op.name \in Names
                 /\ promised' = [promised EXCEPT ![op.name] = files[op.name]])
    BY <1>3, WriteSuperStep
  <2> QED
    BY <2>1, <2>2 DEF Store!Next, Store!Saved
<1>4. CASE PowerOff
  <2>1. files' = [n \in Names |-> Missing] /\ promised' = promised
    BY <1>4 DEF PowerOff
  <2>2. promised = [n \in Names |-> promised[n]]
    BY DEF DInv, TypeOK
  <2>3. Store!Session({})
    BY <2>1, <2>2 DEF Store!Session
  <2> QED
    BY <2>3 DEF Store!Next
<1>5. ASSUME NEW n \in Names, FsRemove(n) PROVE Store!Next
  <2>1. /\ files[n] # Missing /\ files' = [files EXCEPT ![n] = Missing]
        /\ promised' = [promised EXCEPT ![n] = Unknown]
    BY <1>5 DEF FsRemove
  <2>2. Store!Delete(n)
    BY <2>1 DEF Store!Delete, Store!Change
  <2> QED
    BY <2>2 DEF Store!Next
<1>6. ASSUME NEW n \in Names, NEW c \in NewTexts, FsWrite(n, c) PROVE Store!Next
  BY <1>6, PutIsWrite DEF FsWrite, Store!Next
<1>7. CASE BootWrite
  <2> DEFINE f == BootList[boot + 1]
  <2>1. /\ boot < Len(BootList)
        /\ Put(f.name, f.text) \/ UNCHANGED <<memory, promised>>
    BY <1>7 DEF BootWrite
  <2>3. f.name \in Names /\ f.text \in NewTexts
    BY <2>1, BootFile DEF DInv, TypeOK
  <2> HIDE DEF f
  <2>4. CASE Put(f.name, f.text)
    BY <2>3, <2>4, PutIsWrite DEF Store!Next
  <2>5. CASE UNCHANGED <<memory, promised>>
    BY <2>5 DEF memory
  <2> QED
    BY <2>1, <2>4, <2>5
<1> QED
  BY <1>1, <1>2, <1>3, <1>4, <1>5, <1>6, <1>7 DEF Next

(* fs.c over diskfs.c over the sectors is a map from names to contents in  *)
(* which a change takes effect at once and is kept once its call is done.  *)
THEOREM DiskImplements ==
    ASSUME MetadataSafe
    PROVE  Spec => StoreSpec
<1>1. Init => Store!Init
  BY DEF Init, Store!Init
<1>2. DInv /\ [Next]_vars => [Store!Next]_(Store!vars)
  BY StoreStep
<1> QED
  BY <1>1, <1>2, DiskInvariant, PTL DEF Spec, StoreSpec, Store!Spec
=============================================================================
