------------------------- MODULE CatalogPublishProofs -------------------------
(* Theorems about the two directories the process writes: CatalogPublish,    *)
(* for any sources, files, callers, faults and kills, and ImageFiles, for    *)
(* any number of calls, names, slots and limits of the policy.               *)
EXTENDS CatalogPublish, ImageFiles, FiniteSetTheorems, TLAPS

Busy == {"persist", "sync", "rollback"}
Bytes == Int \cup SUBSET Alias

(* Types, as far as the steps need them.                                     *)
FileTypes ==
  /\ setup \in Setups /\ clock \in Nat \ {0}
  /\ disk \in [File -> [bytes : Bytes, stamp : 0..clock]]
  /\ disk[Doc].bytes \subseteq Alias /\ \A f \in File \ {Doc} : disk[f].bytes \in Int
  /\ upstream \in [Source -> Nat] /\ torn \subseteq Source

CallTypes ==
  /\ lock \in {"free", "refresh"} \cup Caller
  /\ alias \in [Caller -> [pc : {"idle", "edit", "check", "load"}, op : {"in", "out"}, what : SUBSET Alias]]
  /\ acked \in [Alias -> {"unknown", "in", "out"}]

RefTypes ==
  /\ DOMAIN ref = DOMAIN NoRef
  /\ ref.pc \in Busy \cup {"idle", "source", "reload", "loading"}
  /\ ref.left \subseteq Source /\ ref.now \subseteq Source /\ ref.now \cap ref.left = {}
  /\ ref.pc # "idle" => ref.got = upstream
  /\ ref.start \in 0..clock

LoadTypes ==
  LET n == Len(Loaded) IN
  /\ DOMAIN load = DOMAIN NoLoad
  /\ load.pc \in {"idle", "before", "read", "after", "publish"}
  /\ load.i \in Nat \ {0} /\ (load.pc # "idle" => load.i <= n)
  /\ load.before \in Seq(Nat) /\ load.seen \in Seq(Bytes)
  /\ load.pc = "idle" => load.before = <<>> /\ load.seen = <<>>
  /\ load.pc = "before" => Len(load.before) = load.i - 1 /\ Len(load.seen) = 0
  /\ load.pc = "read" => Len(load.before) = n /\ Len(load.seen) = load.i - 1
  /\ load.pc \in {"after", "publish"} => Len(load.before) = n /\ Len(load.seen) = n

-----------------------------------------------------------------------------
(* The bundle in flight: what has been replaced is of the offered version,   *)
(* the rest as it was.                                                       *)
Old(f) == IF f \in ToSet(ref.files) THEN ref.prev[f].bytes ELSE disk[f].bytes

Bundle(s) ==
  LET n == Len(ref.files) IN
  /\ ref.files = Targets[s] \/ (s \in Tagged /\ ref.files = Append(Targets[s], EtagFile))
  /\ ref.i \in 1..(n + 1)
  /\ ref.pc = "persist" => ref.i <= n
  /\ ref.pc = "sync" => ref.i = n + 1
  /\ ref.stamp \in 1..clock
  /\ DOMAIN ref.prev = ToSet(ref.files)
  /\ \A f \in ToSet(ref.files) :
       /\ ref.prev[f] \in [bytes : Int, stamp : {Absent} \cup (ref.stamp + 1)..clock]
       /\ ref.prev[f].bytes <= upstream[s]
  /\ \A j \in 1..n : disk[ref.files[j]].bytes = IF j < ref.i THEN upstream[s]
                                                ELSE ref.prev[ref.files[j]].bytes
  /\ s \in Tagged => \A f \in ToSet(Targets[s]) : Old(EtagFile) <= ref.prev[f].bytes
  /\ s \notin torn => \A f, g \in ToSet(Targets[s]) : ref.prev[f].bytes = ref.prev[g].bytes

FilesInv ==
  /\ ref.pc \in Busy => \E s \in Source : ref.now = {s} /\ Bundle(s)
  /\ \A s \in Source : \A f \in ToSet(Targets[s]) : disk[f].bytes <= upstream[s]
  /\ BundlesWhole

-----------------------------------------------------------------------------
(* The stamps the refresh will still give to file f.                         *)
Ahead(f, n) ==
  \/ ref.pc = "persist" /\ n = ref.stamp /\ \E j \in ref.i..Len(ref.files) : f = ref.files[j]
  \/ ref.pc \in {"persist", "sync"} /\ f \in ToSet(ref.files) /\ n = ref.prev[f].stamp
  \/ ref.pc = "rollback" /\ \E j \in 1..(ref.i - 1) : f = ref.files[j] /\ n = ref.prev[f].stamp
  \/ n = ref.start /\ \E s \in ref.left \cap ref.same : f \in ToSet(Targets[s])

(* A stamp that no file will get again.                                      *)
Past(f, n) == n = Absent \/ (n <= clock /\ ~Ahead(f, n))

StampInv == \A f \in File : Past(f, disk[f].stamp)

(* What a load in progress knows of the files.                               *)
LoadInv ==
  /\ \A j \in DOMAIN load.before : Past(Loaded[j], load.before[j])
  /\ load.pc \in {"read", "after", "publish"} =>
       \A j \in DOMAIN Loaded :
         load.before[j] # Absent /\ disk[Loaded[j]].stamp = load.before[j] =>
           /\ disk[Loaded[j]].bytes = load.instant[Loaded[j]]
           /\ j \in DOMAIN load.seen => load.seen[j] = load.instant[Loaded[j]]
  /\ load.pc \in {"after", "publish"} =>
       \A j \in DOMAIN Loaded :
         load.before[j] # Absent /\ (load.pc = "after" => j < load.i) =>
           load.seen[j] = load.instant[Loaded[j]]

(* Who holds reload_lock.                                                    *)
LockInv ==
  /\ \A c \in Caller : alias[c].pc # "idle" <=> lock = c
  /\ lock = "refresh" <=> ref.pc = "loading"
  /\ load.pc # "idle" <=> lock = "refresh" \/ (\E c \in Caller : lock = c /\ alias[c].pc = "load")
  /\ RefreshReloadUndisturbed

(* What the holder knows of the alias document, and what was told of it.     *)
DocInv ==
  /\ \A j \in DOMAIN load.before : Loaded[j] = Doc => load.before[j] = disk[Doc].stamp
  /\ \A j \in DOMAIN load.seen : Loaded[j] = Doc => load.seen[j] = disk[Doc].bytes
  /\ \A c \in Caller : alias[c].pc \in {"load", "check"} => Edited(c) = disk[Doc].bytes
  /\ served.rev[Doc] \in Nat /\ served.rev[Doc] <= disk[Doc].stamp
  /\ served.rev[Doc] = disk[Doc].stamp => served.bytes[Doc] = disk[Doc].bytes
  /\ \A a \in Alias :
       /\ acked[a] = "in"  => a \in disk[Doc].bytes /\ a \in served.bytes[Doc]
       /\ acked[a] = "out" => a \notin disk[Doc].bytes /\ a \notin served.bytes[Doc]

-----------------------------------------------------------------------------
(* What the files are.                                                       *)

(* The snapshot and the bundles are made of files the model has. *)
LEMMA FileFacts ==
  ASSUME setup \in Setups
  PROVE  /\ Source \subseteq DOMAIN Targets
         /\ {Doc, EtagFile} \subseteq File /\ Doc \in Snapshot /\ Snapshot \subseteq File
         /\ Loaded \in Seq(File) /\ \A j \in DOMAIN Loaded : Loaded[j] \in Snapshot
         /\ \A s \in Source : ToSet(Targets[s]) \subseteq File /\ ToSet(Targets[s]) # {}
<1>1. Source \subseteq DOMAIN Targets /\ Doc \in Snapshot /\ Loaded \in Seq(Snapshot)
  BY TargetsAssumption DEF Source, Loaded, Snapshot
<1>2. Snapshot \subseteq File /\ EtagFile \in File
  <2> DEFINE targets == UNION {ToSet(Targets[s]) : s \in Source}
  <2>1. File = targets \cup Snapshot \cup {EtagFile}
    BY DEF File, Snapshot
  <2> HIDE DEF targets
  <2>2. QED
    BY <2>1
<1>5. ASSUME NEW s \in Source PROVE ToSet(Targets[s]) \subseteq File
  <2> DEFINE q == ToSet(Targets[s])
  <2>1. q \in {ToSet(Targets[t]) : t \in Source}
    OBVIOUS
  <2> HIDE DEF q
  <2>2. q \subseteq File
    BY <2>1 DEF File
  <2>3. QED
    BY <2>2 DEF q
<1>6. ASSUME NEW s \in Source PROVE ToSet(Targets[s]) # {}
  <2>1. Targets[s] \in Seq(ToSet(Targets[s])) /\ Len(Targets[s]) > 0
    BY <1>1, TargetsAssumption
  <2>2. Targets[s][1] \in ToSet(Targets[s])
    BY <2>1
  <2>3. QED
    BY <2>2
<1>3. \A j \in DOMAIN Loaded : Loaded[j] \in Snapshot
  BY <1>1
<1>4. QED
  BY <1>1, <1>2, <1>3, <1>5, <1>6

(* The files of a bundle.                                                    *)
LEMMA BundleFiles ==
  ASSUME setup \in Setups, NEW s \in Source,
         NEW files, files = Targets[s] \/ (s \in Tagged /\ files = Append(Targets[s], EtagFile))
  PROVE  /\ files \in Seq(File) /\ Len(files) > 0 /\ DOMAIN files = 1..Len(files)
         /\ ToSet(files) = {files[j] : j \in 1..Len(files)}
         /\ \A j, k \in 1..Len(files) : files[j] = files[k] => j = k
         /\ ToSet(Targets[s]) \subseteq ToSet(files) /\ ToSet(files) \subseteq ToSet(Targets[s]) \cup {EtagFile}
         /\ Doc \notin ToSet(files) /\ EtagFile \notin ToSet(Targets[s])
         /\ \A j \in 1..Len(files) : files[j] = EtagFile => j = Len(files) /\ s \in Tagged
         /\ \A t \in Source \ {s} : ToSet(files) \cap ToSet(Targets[t]) = {}
<1> DEFINE q == Targets[s]
<1>1. s \in DOMAIN Targets /\ q \in Seq(ToSet(q)) /\ Len(q) > 0 /\ ToSet(q) \subseteq File /\ EtagFile \in File
  BY FileFacts, TargetsAssumption
<1>2. \A j, k \in 1..Len(q) : q[j] = q[k] => j = k
  BY <1>1, TargetsAssumption DEF IsInjective
<1>3. EtagFile \notin ToSet(q) /\ Doc \notin ToSet(q) /\ Doc # EtagFile
  BY <1>1, TargetsAssumption
<1>4. \A t \in Source \ {s} : ToSet(q) \cap ToSet(Targets[t]) = {} /\ EtagFile \notin ToSet(Targets[t])
  BY <1>1, FileFacts, TargetsAssumption
<1>5. ToSet(q) = {q[j] : j \in 1..Len(q)} /\ q \in Seq(File)
  BY <1>1 DEF ToSet
<1>6. CASE files = q
  <2> HIDE DEF q
  <2>1. \A j \in 1..Len(q) : q[j] # EtagFile
    BY <1>3, <1>5
  <2>2. DOMAIN q = 1..Len(q)
    BY <1>5
  <2>3. \A t \in Source \ {s} : ToSet(q) \cap ToSet(Targets[t]) = {}
    BY <1>4
  <2>4. \A j \in 1..Len(files) : files[j] = EtagFile => j = Len(files) /\ s \in Tagged
    BY <1>6, <2>1
  <2> DEFINE t == Targets[s]
  <2>5. t = q
    BY DEF q
  <2> HIDE DEF t
  <2>6. /\ files \in Seq(File) /\ Len(files) > 0 /\ DOMAIN files = 1..Len(files)
        /\ \A j, k \in 1..Len(files) : files[j] = files[k] => j = k
        /\ ToSet(files) = {files[j] : j \in 1..Len(files)}
        /\ \A x \in Source \ {s} : ToSet(files) \cap ToSet(Targets[x]) = {}
        /\ Doc \notin ToSet(files) /\ EtagFile \notin ToSet(t) /\ ToSet(files) = ToSet(t)
    BY <1>1, <1>2, <1>3, <1>5, <1>6, <2>2, <2>3, <2>5
  <2>7. QED
    BY <2>4, <2>6 DEF t
<1>7. CASE s \in Tagged /\ files = Append(q, EtagFile)
  <2> HIDE DEF q
  <2>1. /\ files \in Seq(File) /\ Len(files) = Len(q) + 1 /\ DOMAIN files = 1..(Len(q) + 1)
        /\ \A j \in 1..Len(q) : files[j] = q[j]
        /\ files[Len(q) + 1] = EtagFile
    BY <1>1, <1>5, <1>7
  <2>2. \A j \in 1..Len(q) : files[j] # EtagFile
    BY <1>3, <1>5, <2>1
  <2>3. ToSet(files) = ToSet(q) \cup {EtagFile}
    BY <1>1, <1>5, <2>1 DEF ToSet
  <2>4. \A j, k \in 1..Len(files) : files[j] = files[k] => j = k
    BY <1>1, <1>2, <2>1, <2>2
  <2>5. ToSet(files) = {files[j] : j \in 1..Len(files)}
    BY <2>1 DEF ToSet
  <2>6. QED
    BY <1>1, <1>3, <1>4, <1>7, <2>1, <2>2, <2>3, <2>4, <2>5 DEF q
<1>8. QED
  BY <1>6, <1>7

(* The setup, and with it the files, never changes. *)
LEMMA SetupStays ==
  ASSUME [Next]_vars
  PROVE  setup' = setup
BY DEF Next, vars, Refresh, Publication, Plan, Prepare, Persist, SyncParents, Rollback, RestoreFile, Touch,
       Conclude, Reload, Load, ReadRevision, ReadBytes, CompareRevision, PublishSnapshot, Continue, Release,
       AliasCall, BeginAlias, Edit, Check, World, TimePasses, UpstreamMoves, Crash, Start, Quiet, Can, Fault, Fine

(* What a setup fixes stays with it. *)
LEMMA FilesStay ==
  ASSUME setup' = setup
  PROVE  Source' = Source /\ Loaded' = Loaded /\ Snapshot' = Snapshot /\ File' = File
BY DEF Source, Loaded, Snapshot, File

-----------------------------------------------------------------------------
(* Stamps.                                                                   *)

(* What a step may do to the files: a changed one gets a stamp that is new   *)
(* to it, or is away.                                                        *)
NewStamps ==
  \A f \in File :
    /\ \A n \in Nat : Past(f, n) => (Past(f, n))'
    /\ disk'[f] # disk[f] => disk'[f].stamp = Absent \/ ~Past(f, disk'[f].stamp)
    /\ (Past(f, disk[f].stamp))'

(* When stamps the refresh announces are new or announced before, and a    *)
(* changed file gets such a stamp, no past stamp is given again.           *)
LEMMA StampsAreNew ==
  ASSUME FileTypes, StampInv, clock' \in Nat, clock <= clock',
         \A f \in File, n \in Nat : (Ahead(f, n))' => n > clock \/ n = Absent \/ Ahead(f, n),
         \A f \in File :
           \/ disk'[f] = disk[f]
           \/ disk'[f].stamp = Absent
           \/ /\ disk'[f].stamp \in 1..clock' /\ ~(Ahead(f, disk[f].stamp))'
              /\ disk'[f].stamp > clock \/ Ahead(f, disk'[f].stamp)
  PROVE  NewStamps
<1> SUFFICES ASSUME NEW f \in File
             PROVE  /\ \A n \in Nat : Past(f, n) => (Past(f, n))'
                    /\ disk'[f] # disk[f] => disk'[f].stamp = Absent \/ ~Past(f, disk'[f].stamp)
                    /\ (Past(f, disk[f].stamp))'
  BY DEF NewStamps
<1>1. disk[f].stamp \in Nat /\ Past(f, disk[f].stamp) /\ clock \in Nat
  BY DEF FileTypes, StampInv
<1>2. ASSUME NEW n \in Nat, Past(f, n) PROVE (Past(f, n))'
  BY <1>1, <1>2 DEF Past, Absent
<1>3. ASSUME disk'[f] # disk[f] PROVE disk'[f].stamp = Absent \/ ~Past(f, disk'[f].stamp)
  <2>1. \/ disk'[f].stamp = Absent
        \/ disk'[f].stamp \in 1..clock' /\ (disk'[f].stamp > clock \/ Ahead(f, disk'[f].stamp))
    BY <1>3
  <2>2. QED
    BY <1>1, <2>1 DEF Past, Absent
<1>4. (Past(f, disk[f].stamp))'
  <2>1. CASE disk'[f] = disk[f]
    <3>1. PICK n \in Nat : n = disk[f].stamp
      BY <1>1
    <3>2. (Past(f, n))' /\ disk'[f].stamp = n
      BY <1>1, <1>2, <2>1, <3>1
    <3>3. QED
      BY <3>2 DEF Past
  <2>2. CASE disk'[f].stamp = Absent
    BY <2>2 DEF Past
  <2>3. CASE disk'[f].stamp \in 1..clock' /\ ~(Ahead(f, disk[f].stamp))'
    BY <2>3 DEF Past
  <2>4. QED
    BY <2>1, <2>2, <2>3
<1>5. QED
  BY <1>2, <1>3, <1>4

(* Stamps stay past when nothing about them changes. *)
LEMMA FilesKeptStamps ==
  ASSUME FileTypes, StampInv, UNCHANGED <<disk, clock, ref>>
  PROVE  NewStamps
<1>1. \A f \in File, n \in Nat : (Ahead(f, n))' => Ahead(f, n)
  BY DEF Ahead
<1>2. QED
  BY <1>1, StampsAreNew DEF FileTypes

(* The stamps on disk are past after every step that keeps NewStamps. *)
LEMMA StampsStayPast ==
  ASSUME setup' = setup, NewStamps
  PROVE  StampInv'
BY FilesStay DEF NewStamps, StampInv

(* Only the refresh's pc moves, outside a bundle, or nothing at all.         *)
LEMMA FilesKept ==
  ASSUME FileTypes, RefTypes, FilesInv, StampInv, setup' = setup, UNCHANGED <<disk, clock, upstream, torn>>,
         DOMAIN ref' = DOMAIN ref, \A x \in DOMAIN ref \ {"pc"} : ref'[x] = ref[x],
         \/ ref'.pc = ref.pc
         \/ /\ ref.pc \in {"source", "reload", "loading"}
            /\ ref'.pc \in {"idle", "source", "reload", "loading"}
  PROVE  FileTypes' /\ RefTypes' /\ FilesInv' /\ NewStamps
<1>s. Source' = Source /\ Loaded' = Loaded /\ Snapshot' = Snapshot /\ File' = File
  BY FilesStay
<1>f. /\ ref'.left = ref.left /\ ref'.got = ref.got /\ ref'.same = ref.same /\ ref'.start = ref.start
      /\ ref'.now = ref.now /\ ref'.files = ref.files /\ ref'.i = ref.i /\ ref'.stamp = ref.stamp
      /\ ref'.prev = ref.prev
  BY DEF RefTypes, NoRef
<1>1. FileTypes'
  BY <1>s DEF FileTypes
<1>2. RefTypes'
  BY <1>s, <1>f DEF RefTypes
<1>3. FilesInv'
  <2>1. \A s \in Source : (Bundle(s))' = Bundle(s) \/ ref'.pc \notin Busy
    BY <1>f DEF Bundle, Old, Busy
  <2>2. ref'.pc \in Busy => ref'.pc = ref.pc
    BY DEF Busy
  <2>3. BundlesWhole'
    BY <1>s, <1>f DEF FilesInv, BundlesWhole, FilesAgree, EtagNeverAhead
  <2>4. QED
    BY <1>s, <1>f, <2>1, <2>2, <2>3 DEF FilesInv
<1>4. \A f \in File, n \in Nat : (Ahead(f, n))' => Ahead(f, n)
  BY <1>f DEF Ahead
<1>5. NewStamps
  BY <1>4, StampsAreNew DEF FileTypes
<1>6. QED
  BY <1>1, <1>2, <1>3, <1>5

-----------------------------------------------------------------------------
(* The refresh at work on the files.                                         *)

(* A plan announces its start as a stamp. *)
LEMMA PlanKeepsFiles ==
  ASSUME FileTypes, RefTypes, FilesInv, StampInv, setup' = setup, Plan
  PROVE  FileTypes' /\ RefTypes' /\ FilesInv' /\ NewStamps
<1>s. Source' = Source /\ Loaded' = Loaded /\ Snapshot' = Snapshot /\ File' = File
  BY FilesStay
<1>1. PICK force \in BOOLEAN, failed \in SUBSET Source :
        ref' = [NoRef EXCEPT !.pc = "source", !.left = Due(force) \ failed, !.got = upstream, !.start = clock + 1,
                  !.same = {s \in Due(force) : Unmodified(s)}]
  BY DEF Plan
<1>2. /\ ref.pc = "idle" /\ clock' = clock + 1 /\ UNCHANGED <<disk, torn, upstream>>
  BY DEF Plan, RefreshStep
<1>3. Due(force) \subseteq Source
  BY DEF Due
<1>4. /\ ref'.pc = "source" /\ ref'.left \subseteq Source /\ ref'.now = {} /\ ref'.got = upstream
      /\ ref'.start = clock + 1 /\ DOMAIN ref' = DOMAIN NoRef
  BY <1>1, <1>3 DEF NoRef
<1>5. FileTypes'
  BY <1>s, <1>2 DEF FileTypes
<1>6. RefTypes'
  BY <1>s, <1>2, <1>4 DEF RefTypes, NoRef, FileTypes
<1>7. FilesInv'
  BY <1>s, <1>2, <1>4 DEF FilesInv, Busy, BundlesWhole, FilesAgree, EtagNeverAhead
<1>8. \A f \in File, n \in Nat : (Ahead(f, n))' => n > clock
  BY <1>2, <1>4 DEF Ahead, FileTypes
<1>9. NewStamps
  BY <1>2, <1>8, StampsAreNew DEF FileTypes
<1>10. QED
  BY <1>5, <1>6, <1>7, <1>9

(* A source that is through leaves the files as they are. *)
LEMMA SettledKeepsFiles ==
  ASSUME FileTypes, RefTypes, FilesInv, StampInv, setup' = setup, UNCHANGED <<disk, clock, upstream, torn>>,
         ref.pc = "source", ref'.pc = "source", DOMAIN ref' = DOMAIN ref,
         ref'.left \subseteq ref.left, ref'.now = {}, ref'.got = ref.got, ref'.same = ref.same,
         ref'.start = ref.start
  PROVE  FileTypes' /\ RefTypes' /\ FilesInv' /\ NewStamps
<1>s. Source' = Source /\ Loaded' = Loaded /\ Snapshot' = Snapshot /\ File' = File
  BY FilesStay
<1>1. FileTypes'
  BY <1>s DEF FileTypes
<1>2. RefTypes'
  BY <1>s DEF RefTypes, FileTypes
<1>3. FilesInv'
  BY <1>s DEF FilesInv, Busy, BundlesWhole, FilesAgree, EtagNeverAhead
<1>4. \A f \in File, n \in Nat : (Ahead(f, n))' => Ahead(f, n)
  BY DEF Ahead
<1>5. NewStamps
  BY <1>4, StampsAreNew DEF FileTypes
<1>6. QED
  BY <1>1, <1>2, <1>3, <1>5

(* A prepared bundle is one of which nothing is replaced yet. *)
LEMMA PrepareKeepsFiles ==
  ASSUME FileTypes, RefTypes, FilesInv, StampInv, setup' = setup, NEW s \in Source, Prepare(s)
  PROVE  FileTypes' /\ RefTypes' /\ FilesInv' /\ NewStamps
<1>s. Source' = Source /\ Loaded' = Loaded /\ Snapshot' = Snapshot /\ File' = File
  BY FilesStay
<1>1. ref.pc = "source" /\ s \in ref.left \ ref.same /\ UNCHANGED <<disk, torn, upstream>>
  BY DEF Prepare, RefreshStep
<1>2. CASE ref' = Settled(s) /\ UNCHANGED clock
  <2>1. /\ ref'.pc = "source" /\ DOMAIN ref' = DOMAIN ref /\ ref'.left = ref.left \ {s} /\ ref'.now = {}
        /\ ref'.got = ref.got /\ ref'.same = ref.same /\ ref'.start = ref.start
    BY <1>1, <1>2 DEF Settled, RefTypes, NoRef
  <2>2. QED
    BY <1>1, <1>2, <2>1, SettledKeepsFiles
<1>3. ASSUME NEW tag \in BOOLEAN, tag => s \in Tagged, clock' = clock + 2,
             ref' = [ref EXCEPT !.pc = "persist", !.left = @ \ {s}, !.now = {s},
                  !.files = Prepared(s, tag), !.i = 1, !.stamp = clock + 1,
                  !.prev = [f \in ToSet(Prepared(s, tag)) |->
                              [bytes |-> disk[f].bytes,
                               stamp |-> IF disk[f].bytes = Missing THEN Absent ELSE clock + 2]]]
      PROVE  FileTypes' /\ RefTypes' /\ FilesInv' /\ NewStamps
  <2>1. PICK files : files = Prepared(s, tag)
    OBVIOUS
  <2>2. /\ files = Targets[s] \/ (s \in Tagged /\ files = Append(Targets[s], EtagFile))
    BY <1>3, <2>1 DEF Prepared
  <2>3. /\ files \in Seq(File) /\ Len(files) > 0 /\ Len(files) \in Nat
        /\ ToSet(files) = {files[j] : j \in 1..Len(files)}
        /\ ToSet(Targets[s]) \subseteq ToSet(files) /\ ToSet(files) \subseteq ToSet(Targets[s]) \cup {EtagFile}
        /\ Doc \notin ToSet(files)
        /\ EtagFile \in ToSet(files) => s \in Tagged
        /\ ToSet(files) \subseteq File /\ EtagFile \in File
    <3>1. /\ files \in Seq(File) /\ Len(files) > 0 /\ Len(files) \in Nat
          /\ ToSet(files) = {files[j] : j \in 1..Len(files)}
          /\ ToSet(Targets[s]) \subseteq ToSet(files) /\ ToSet(files) \subseteq ToSet(Targets[s]) \cup {EtagFile}
          /\ Doc \notin ToSet(files)
          /\ \A j \in 1..Len(files) : files[j] = EtagFile => s \in Tagged
      BY <2>2, BundleFiles DEF FileTypes
    <3>2. EtagFile \in File
      BY FileFacts DEF FileTypes
    <3>3. QED
      BY <3>1, <3>2
  <2>4. /\ ref'.pc = "persist" /\ ref'.left = ref.left \ {s} /\ ref'.now = {s} /\ ref'.files = files
        /\ ref'.i = 1 /\ ref'.stamp = clock + 1 /\ ref'.got = ref.got /\ ref'.same = ref.same
        /\ ref'.start = ref.start /\ DOMAIN ref' = DOMAIN ref
        /\ ref'.prev = [f \in ToSet(files) |->
                              [bytes |-> disk[f].bytes,
                               stamp |-> IF disk[f].bytes = Missing THEN Absent ELSE clock + 2]]
    BY <1>3, <2>1 DEF RefTypes, NoRef
  <2>5. /\ DOMAIN ref'.prev = ToSet(files)
        /\ \A f \in ToSet(files) : /\ ref'.prev[f] \in [bytes : Int, stamp : {Absent, clock + 2}]
                                   /\ ref'.prev[f].bytes = disk[f].bytes
    BY <2>3, <2>4 DEF FileTypes, Absent
  <2>6. FileTypes'
    <3>1. clock' \in Nat \ {0} /\ 0..clock \subseteq 0..clock'
      BY <1>3 DEF FileTypes
    <3>2. QED
      BY <1>s, <1>1, <3>1 DEF FileTypes
  <2>7. RefTypes'
    BY <1>s, <1>1, <1>3, <2>4 DEF RefTypes, Busy, FileTypes
  <2>8. BundlesWhole'
    BY <1>s, <1>1, <2>4 DEF FilesInv, BundlesWhole, FilesAgree, EtagNeverAhead, Busy
  <2>9. (Bundle(s))'
    <3>1. \A f \in ToSet(Targets[s]) : (s \in Tagged => disk[EtagFile].bytes <= disk[f].bytes) /\ disk[f].bytes <= upstream[s]
      BY DEF FilesInv, BundlesWhole, EtagNeverAhead
    <3>2. \E f \in ToSet(Targets[s]) : f \in ToSet(files) /\ disk[f].bytes \in Int /\ f # Doc
      <4>1. files[1] \in ToSet(files)
        BY <2>3
      <4>2. ToSet(Targets[s]) # {}
        BY FileFacts DEF FileTypes
      <4>3. QED
        BY <2>3, <4>2 DEF FileTypes
    <3>3. \A f \in ToSet(files) : disk[f].bytes \in Int /\ disk[f].bytes <= upstream[s]
      <4>1. upstream[s] \in Int /\ \A f \in ToSet(files) : disk[f].bytes \in Int
        BY <2>3 DEF FileTypes
      <4>2. EtagFile \in ToSet(files) => disk[EtagFile].bytes <= upstream[s]
        BY <2>3, <3>1, <3>2, <4>1
      <4>3. QED
        BY <2>3, <3>1, <4>1, <4>2
    <3>4. (Old(EtagFile))' = disk[EtagFile].bytes
      BY <1>1, <2>4, <2>5 DEF Old
    <3>5. s \notin torn => \A f, g \in ToSet(Targets[s]) : disk[f].bytes = disk[g].bytes
      BY <1>1 DEF FilesInv, BundlesWhole, FilesAgree
    <3>6. \A f \in ToSet(files) :
             /\ ref'.prev[f] \in [bytes : Int, stamp : {Absent} \cup (ref'.stamp + 1)..clock']
             /\ ref'.prev[f].bytes <= upstream'[s]
      BY <1>1, <1>3, <2>4, <2>5, <3>3 DEF FileTypes
    <3>7. \A j \in 1..Len(files) : files[j] \in ToSet(files) /\ disk'[files[j]].bytes = ref'.prev[files[j]].bytes /\ ~(j < 1)
      BY <1>1, <2>3, <2>5
    <3>8. s \in Tagged => \A f \in ToSet(Targets[s]) : (Old(EtagFile))' <= ref'.prev[f].bytes
      BY <2>3, <2>5, <3>1, <3>4
    <3>9. s \notin torn' => \A f, g \in ToSet(Targets[s]) : ref'.prev[f].bytes = ref'.prev[g].bytes
      BY <1>1, <2>3, <2>5, <3>5
    <3>10. ref'.i \in 1..(Len(files) + 1) /\ ref'.i <= Len(files) /\ ref'.stamp \in 1..clock'
      BY <1>3, <2>3, <2>4 DEF FileTypes
    <3>11. QED
      BY <2>2, <2>4, <2>5, <3>6, <3>7, <3>8, <3>9, <3>10 DEF Bundle
  <2>10. FilesInv'
    BY <1>s, <1>1, <2>4, <2>8, <2>9 DEF FilesInv
  <2>11. ASSUME NEW f \in File, NEW n \in Nat, (Ahead(f, n))' PROVE n > clock \/ n = Absent \/ Ahead(f, n)
    <3>1. CASE n = ref'.stamp
      BY <2>4, <3>1 DEF FileTypes
    <3>2. CASE f \in ToSet(files) /\ n = ref'.prev[f].stamp
      BY <2>5, <3>2 DEF FileTypes
    <3>3. CASE n = ref'.start /\ \E t \in ref'.left \cap ref'.same : f \in ToSet(Targets[t])
      BY <1>1, <2>4, <3>3 DEF Ahead
    <3>4. QED
      BY <2>4, <2>11, <3>1, <3>2, <3>3 DEF Ahead
  <2>12. NewStamps
    BY <1>1, <1>3, <2>11, StampsAreNew DEF FileTypes
  <2>13. QED
    BY <2>6, <2>7, <2>10, <2>12
<1>4. QED
  BY <1>2, <1>3 DEF Prepare

(* What is known of the bundle in flight. *)
LEMMA BundleInFlight ==
  ASSUME FileTypes, NEW s \in Source, Bundle(s), NEW files, files = ref.files
  PROVE  /\ files \in Seq(File) /\ Len(files) \in Nat
         /\ ToSet(files) = {files[j] : j \in 1..Len(files)}
         /\ \A j, k \in 1..Len(files) : files[j] = files[k] => j = k
         /\ ToSet(Targets[s]) \subseteq ToSet(files)
         /\ ToSet(files) \subseteq ToSet(Targets[s]) \cup {EtagFile}
         /\ Doc \notin ToSet(files) /\ EtagFile \notin ToSet(Targets[s])
         /\ \A j \in 1..Len(files) : files[j] = EtagFile => j = Len(files) /\ s \in Tagged
         /\ \A t \in Source \ {s} : ToSet(files) \cap ToSet(Targets[t]) = {}
         /\ \A j \in 1..Len(files) : files[j] \in ToSet(files) /\ files[j] \in File \ {Doc}
<1>1. files = Targets[s] \/ (s \in Tagged /\ files = Append(Targets[s], EtagFile))
  BY DEF Bundle
<1>2. /\ files \in Seq(File) /\ Len(files) \in Nat
      /\ ToSet(files) = {files[j] : j \in 1..Len(files)}
      /\ \A j, k \in 1..Len(files) : files[j] = files[k] => j = k
      /\ ToSet(Targets[s]) \subseteq ToSet(files)
      /\ ToSet(files) \subseteq ToSet(Targets[s]) \cup {EtagFile}
      /\ Doc \notin ToSet(files) /\ EtagFile \notin ToSet(Targets[s])
      /\ \A j \in 1..Len(files) : files[j] = EtagFile => j = Len(files) /\ s \in Tagged
      /\ \A t \in Source \ {s} : ToSet(files) \cap ToSet(Targets[t]) = {}
  <2>1. setup \in Setups
    BY DEF FileTypes
  <2>2. QED
    BY <1>1, <2>1, BundleFiles
<1>3. \A j \in 1..Len(files) : files[j] \in ToSet(files) /\ files[j] \in File \ {Doc}
  BY <1>2
<1>4. QED
  BY <1>2, <1>3

(* One rename. *)
LEMMA PersistKeepsFiles ==
  ASSUME FileTypes, RefTypes, FilesInv, StampInv, setup' = setup, NEW s \in Source, Persist(s)
  PROVE  FileTypes' /\ RefTypes' /\ FilesInv' /\ NewStamps
<1>s. Source' = Source /\ Loaded' = Loaded /\ Snapshot' = Snapshot /\ File' = File
  BY FilesStay
<1>1. ref.pc = "persist" /\ ref.now = {s} /\ UNCHANGED <<clock, torn, upstream>> /\ Bundle(s)
  BY DEF Persist, RefreshStep, FilesInv, Busy
<1>2. PICK files : files = ref.files
  OBVIOUS
<1>3. PICK i : i = ref.i
  OBVIOUS
<1>4. /\ files \in Seq(File) /\ Len(files) \in Nat /\ ToSet(files) = {files[j] : j \in 1..Len(files)}
      /\ \A j, k \in 1..Len(files) : files[j] = files[k] => j = k
      /\ ToSet(Targets[s]) \subseteq ToSet(files) /\ ToSet(files) \subseteq ToSet(Targets[s]) \cup {EtagFile}
      /\ Doc \notin ToSet(files) /\ EtagFile \notin ToSet(Targets[s])
      /\ \A j \in 1..Len(files) : files[j] = EtagFile => j = Len(files) /\ s \in Tagged
      /\ \A t \in Source \ {s} : ToSet(files) \cap ToSet(Targets[t]) = {}
  BY <1>1, <1>2, BundleInFlight
<1>5. i \in 1..Len(files) /\ files[i] \in ToSet(files) /\ files[i] \in File /\ files[i] # Doc
  BY <1>1, <1>2, <1>3, <1>4 DEF Bundle
<1>6. /\ ref.got[s] = upstream[s] /\ upstream[s] \in Nat /\ ref.stamp \in 1..clock /\ clock \in Nat
      /\ \A f \in ToSet(files) : ref.prev[f].bytes \in Int /\ ref.prev[f].bytes <= upstream[s]
                                 /\ ref.prev[f].stamp \in Nat /\ ref.prev[f].stamp # ref.stamp
  BY <1>1, <1>2 DEF RefTypes, FileTypes, Bundle, Absent
<1>7. ASSUME ref' = [ref EXCEPT !.pc = "rollback"] \/ ref' = [ref EXCEPT !.pc = "source"],
             ref'.pc = "source" => i = 1, UNCHANGED disk
      PROVE  FileTypes' /\ RefTypes' /\ FilesInv' /\ NewStamps
  <2>1. /\ ref'.pc \in {"rollback", "source"} /\ DOMAIN ref' = DOMAIN ref
        /\ ref'.left = ref.left /\ ref'.got = ref.got /\ ref'.same = ref.same /\ ref'.start = ref.start
        /\ ref'.now = ref.now /\ ref'.files = files /\ ref'.i = i /\ ref'.stamp = ref.stamp
        /\ ref'.prev = ref.prev
    BY <1>2, <1>3, <1>7 DEF RefTypes, NoRef
  <2>2. FileTypes' /\ RefTypes'
    BY <1>s, <1>1, <1>7, <2>1 DEF FileTypes, RefTypes, Busy
  <2>3. (Bundle(s))' \/ ref'.pc = "source"
    BY <1>1, <1>2, <1>3, <1>7, <2>1 DEF Bundle, Old
  <2>4. ref'.pc = "source" /\ s \notin torn => \A f, g \in ToSet(Targets[s]) : disk[f].bytes = disk[g].bytes
    <3>1. SUFFICES ASSUME i = 1, s \notin torn, NEW f \in ToSet(Targets[s]), NEW g \in ToSet(Targets[s])
                   PROVE  disk[f].bytes = disk[g].bytes
      BY <1>7
    <3>2. /\ disk[f].bytes = ref.prev[f].bytes /\ disk[g].bytes = ref.prev[g].bytes
      BY <1>1, <1>2, <1>3, <1>4, <3>1 DEF Bundle
    <3>3. QED
      BY <1>1, <3>1, <3>2 DEF Bundle
  <2>5. BundlesWhole'
    BY <1>s, <1>1, <1>7, <2>1, <2>4 DEF FilesInv, BundlesWhole, FilesAgree, EtagNeverAhead, Busy
  <2>6. FilesInv'
    BY <1>s, <1>1, <1>7, <2>1, <2>3, <2>5 DEF FilesInv, Busy
  <2>7. \A f \in File, n \in Nat : (Ahead(f, n))' => Ahead(f, n)
    <3>1. \A j \in 1..(i - 1) : files[j] \in ToSet(files)
      BY <1>4, <1>5
    <3>2. QED
      BY <1>1, <1>2, <1>3, <2>1, <3>1 DEF Ahead
  <2>8. NewStamps
    BY <1>1, <1>7, <2>7, StampsAreNew DEF FileTypes
  <2>9. QED
    BY <2>2, <2>6, <2>8
<1>8. ASSUME disk' = [disk EXCEPT ![ref.files[ref.i]] = [bytes |-> ref.got[s], stamp |-> ref.stamp]],
             ref' = [ref EXCEPT !.i = @ + 1, !.pc = IF ref.i = Len(ref.files) THEN "sync" ELSE "persist"]
      PROVE  FileTypes' /\ RefTypes' /\ FilesInv' /\ NewStamps
  <2>1. /\ ref'.pc = (IF i = Len(files) THEN "sync" ELSE "persist") /\ DOMAIN ref' = DOMAIN ref
        /\ ref'.left = ref.left /\ ref'.got = ref.got /\ ref'.same = ref.same /\ ref'.start = ref.start
        /\ ref'.now = ref.now /\ ref'.files = files /\ ref'.i = i + 1 /\ ref'.stamp = ref.stamp
        /\ ref'.prev = ref.prev
    BY <1>2, <1>3, <1>8 DEF RefTypes, NoRef
  <2>2. disk' = [disk EXCEPT ![files[i]] = [bytes |-> upstream[s], stamp |-> ref.stamp]]
    BY <1>2, <1>3, <1>6, <1>8
  <2>3. /\ disk'[files[i]].bytes = upstream[s] /\ disk'[files[i]].stamp = ref.stamp
        /\ \A f \in File \ {files[i]} : disk'[f] = disk[f]
    BY <1>5, <2>2 DEF FileTypes
  <2>4. FileTypes'
    <3>1. [bytes |-> upstream[s], stamp |-> ref.stamp] \in [bytes : Bytes, stamp : 0..clock]
      BY <1>6 DEF Bytes
    <3>2. disk' \in [File -> [bytes : Bytes, stamp : 0..clock]]
      BY <1>5, <2>2, <3>1 DEF FileTypes
    <3>3. disk'[Doc].bytes \subseteq Alias /\ \A f \in File \ {Doc} : disk'[f].bytes \in Int
      <4>1. Doc \in File \ {files[i]} /\ disk'[Doc] = disk[Doc]
        BY <1>5, <2>3, FileFacts DEF FileTypes
      <4>2. QED
        BY <1>5, <1>6, <2>3, <4>1 DEF FileTypes
    <3>4. QED
      BY <1>s, <1>1, <3>2, <3>3 DEF FileTypes
  <2>5. RefTypes'
    BY <1>s, <1>1, <2>1 DEF RefTypes, Busy
  <2>6. \A j \in 1..Len(files) : disk'[files[j]].bytes = IF j < i + 1 THEN upstream[s] ELSE ref.prev[files[j]].bytes
    <3>1. SUFFICES ASSUME NEW j \in 1..Len(files)
                   PROVE  disk'[files[j]].bytes = IF j < i + 1 THEN upstream[s] ELSE ref.prev[files[j]].bytes
      OBVIOUS
    <3>2. CASE j = i
      BY <1>5, <2>3, <3>2
    <3>3. CASE j # i
      <4>1. files[j] \in File \ {files[i]}
        BY <1>4, <1>5, <3>3
      <4>2. disk[files[j]].bytes = IF j < i THEN upstream[s] ELSE ref.prev[files[j]].bytes
        BY <1>1, <1>2, <1>3 DEF Bundle
      <4>3. QED
        BY <1>5, <2>3, <3>3, <4>1, <4>2
    <3>4. QED
      BY <3>2, <3>3
  <2>7. (Old(EtagFile))' = Old(EtagFile)
    <3>1. EtagFile \notin ToSet(files) => disk'[EtagFile] = disk[EtagFile]
      BY <1>5, <2>3, FileFacts DEF FileTypes
    <3>2. QED
      BY <1>2, <2>1, <3>1 DEF Old
  <2>8. (Bundle(s))'
    <3>1. i + 1 \in 1..(Len(files) + 1) /\ (i # Len(files) => i + 1 <= Len(files))
      BY <1>5
    <3>2. QED
      BY <1>1, <1>2, <2>1, <2>6, <2>7, <3>1 DEF Bundle
  <2>9. \A t \in Source : \A f \in ToSet(Targets[t]) : disk'[f].bytes <= upstream[t]
    <3>1. SUFFICES ASSUME NEW t \in Source, NEW f \in ToSet(Targets[t]) PROVE disk'[f].bytes <= upstream[t]
      OBVIOUS
    <3>2. f \in File /\ disk[f].bytes <= upstream[t]
      BY FileFacts DEF FilesInv, FileTypes
    <3>3. CASE f = files[i]
      <4>1. t = s
        BY <1>4, <1>5, <3>3
      <4>2. QED
        BY <1>6, <2>3, <3>3, <4>1
    <3>4. QED
      BY <2>3, <3>2, <3>3
  <2>10. EtagNeverAhead'
    <3>1. SUFFICES ASSUME NEW t \in Source \cap Tagged, NEW f \in ToSet(Targets[t])
                   PROVE  disk'[EtagFile].bytes <= disk'[f].bytes
      BY <1>s DEF EtagNeverAhead
    <3>2. /\ disk[EtagFile].bytes <= disk[f].bytes /\ f \in File /\ EtagFile \in File /\ f # EtagFile
          /\ disk[EtagFile].bytes \in Int /\ disk[f].bytes \in Int /\ disk[f].bytes <= upstream[t]
      <4>1. f # EtagFile /\ f # Doc
        BY TargetsAssumption, FileFacts DEF FileTypes
      <4>2. EtagFile \in File \ {Doc} /\ f \in File
        BY TargetsAssumption, FileFacts DEF FileTypes
      <4>3. QED
        BY <4>1, <4>2 DEF FilesInv, BundlesWhole, EtagNeverAhead, FileTypes
    <3>3. CASE files[i] = f
      <4>1. t = s
        BY <1>4, <1>5, <3>3
      <4>2. QED
        BY <1>6, <2>3, <3>2, <3>3, <4>1
    <3>4. CASE files[i] = EtagFile
      <4>1. i = Len(files) /\ s \in Tagged
        BY <1>4, <1>5, <3>4
      <4>2. t = s
        BY <4>1, TargetsAssumption
      <4>3. PICK j \in 1..Len(files) : files[j] = f
        BY <1>4, <4>2
      <4>4. j < i
        BY <1>5, <3>2, <3>4, <4>1, <4>3
      <4>5. disk'[f].bytes = upstream[s]
        BY <1>5, <2>6, <4>3, <4>4
      <4>6. QED
        BY <1>6, <2>3, <3>4, <4>5
    <3>5. CASE files[i] \notin {f, EtagFile}
      BY <2>3, <3>2, <3>5
    <3>6. QED
      BY <3>3, <3>4, <3>5
  <2>11. FilesAgree'
    <3>1. SUFFICES ASSUME NEW t \in Source \ torn, t # s, NEW f \in ToSet(Targets[t]), NEW g \in ToSet(Targets[t])
                   PROVE  disk'[f].bytes = disk'[g].bytes
      BY <1>s, <1>1, <2>1 DEF FilesAgree
    <3>2. disk[f].bytes = disk[g].bytes
      BY <1>1, <3>1 DEF FilesInv, BundlesWhole, FilesAgree
    <3>3. f \in File \ {files[i]} /\ g \in File \ {files[i]}
      <4>1. f \in File /\ g \in File
        BY <3>1, FileFacts DEF FileTypes
      <4>2. f \notin ToSet(files) /\ g \notin ToSet(files)
        BY <1>4, <3>1
      <4>3. QED
        BY <1>5, <4>1, <4>2
    <3>4. QED
      BY <2>3, <3>2, <3>3
  <2>12. FilesInv'
    BY <1>s, <1>1, <2>1, <2>8, <2>9, <2>10, <2>11 DEF FilesInv, BundlesWhole
  <2>13. \A f \in File, n \in Nat : (Ahead(f, n))' => Ahead(f, n)
    BY <1>1, <1>2, <1>3, <1>5, <2>1 DEF Ahead
  <2>14. \A n \in Nat : n = ref.stamp => Ahead(files[i], n) /\ ~(Ahead(files[i], n))'
    <3>1. SUFFICES ASSUME NEW n \in Nat, n = ref.stamp PROVE Ahead(files[i], n) /\ ~(Ahead(files[i], n))'
      OBVIOUS
    <3>2. Ahead(files[i], n)
      BY <1>1, <1>2, <1>3, <1>5, <3>1 DEF Ahead
    <3>3. \A j \in (i + 1)..Len(files) : files[i] # files[j]
      BY <1>4, <1>5
    <3>4. \A t \in ref.left : files[i] \notin ToSet(Targets[t])
      BY <1>1, <1>4, <1>5 DEF RefTypes
    <3>5. ~(Ahead(files[i], n))'
      BY <1>5, <1>6, <2>1, <3>1, <3>3, <3>4 DEF Ahead
    <3>6. QED
      BY <3>2, <3>5
  <2>15. (Ahead(files[i], disk[files[i]].stamp))' => FALSE
    <3>1. PICK n \in Nat : n = ref.stamp
      BY <1>6
    <3>2. ~(Ahead(files[i], n))' /\ disk'[files[i]].stamp = n
      BY <2>3, <2>14, <3>1
    <3>3. QED
      BY <3>2 DEF Ahead
  <2>16. NewStamps
    <3>1. \A f \in File : \/ disk'[f] = disk[f]
                          \/ /\ disk'[f].stamp \in 1..clock' /\ ~(Ahead(f, disk[f].stamp))'
                             /\ Ahead(f, disk'[f].stamp)
      BY <1>1, <1>6, <2>3, <2>14, <2>15
    <3>2. QED
      BY <1>1, <2>13, <3>1, StampsAreNew DEF FileTypes
  <2>17. QED
    BY <2>4, <2>5, <2>12, <2>16
<1>9. QED
  <2>1. ASSUME UNCHANGED disk,
               ref' = IF ref.i = 1 THEN [ref EXCEPT !.pc = "source"] ELSE [ref EXCEPT !.pc = "rollback"]
        PROVE  FileTypes' /\ RefTypes' /\ FilesInv' /\ NewStamps
    <3>1. ref'.pc = "source" => ref.i = 1
      BY <2>1 DEF RefTypes, NoRef
    <3>2. QED
      BY <1>3, <1>7, <2>1, <3>1
  <2>2. QED
    BY <1>8, <2>1 DEF Persist

(* The directories are synced. *)
LEMMA SyncKeepsFiles ==
  ASSUME FileTypes, RefTypes, FilesInv, StampInv, setup' = setup, NEW s \in Source, SyncParents(s)
  PROVE  FileTypes' /\ RefTypes' /\ FilesInv' /\ NewStamps
<1>s. Source' = Source /\ Loaded' = Loaded /\ Snapshot' = Snapshot /\ File' = File
  BY FilesStay
<1>1. ref.pc = "sync" /\ ref.now = {s} /\ UNCHANGED <<disk, clock, upstream>> /\ Bundle(s)
  BY DEF SyncParents, RefreshStep, FilesInv, Busy, fileVars
<1>3. /\ ref'.pc \in {"source", "rollback"} /\ DOMAIN ref' = DOMAIN ref
      /\ ref'.left = ref.left /\ ref'.got = ref.got /\ ref'.same = ref.same /\ ref'.start = ref.start
      /\ ref'.now = ref.now /\ ref'.files = ref.files /\ ref'.i = ref.i /\ ref'.stamp = ref.stamp
      /\ ref'.prev = ref.prev
  BY DEF SyncParents, RefTypes, NoRef
<1>4. /\ ref'.pc = "source" => torn' = torn \ {s}
      /\ ref'.pc = "rollback" => torn' = torn
  BY DEF SyncParents, RefTypes, NoRef
<1>5. FileTypes' /\ RefTypes'
  BY <1>s, <1>1, <1>3, <1>4 DEF FileTypes, RefTypes, Busy
<1>6. (Bundle(s))' \/ ref'.pc = "source"
  BY <1>1, <1>3, <1>4 DEF Bundle, Old
<1>7. \A f \in ToSet(Targets[s]) : disk[f].bytes = upstream[s]
  <2>1. PICK files : files = ref.files
    OBVIOUS
  <2>2. /\ ToSet(files) = {files[j] : j \in 1..Len(files)} /\ ToSet(Targets[s]) \subseteq ToSet(files)
        /\ Len(files) \in Nat
    BY <1>1, <2>1, BundleInFlight
  <2>3. \A j \in 1..Len(files) : disk[files[j]].bytes = upstream[s]
    BY <1>1, <2>1, <2>2 DEF Bundle
  <2>4. QED
    BY <2>2, <2>3
<1>8. FilesAgree'
  <2>1. SUFFICES ASSUME NEW t \in Source \ torn', ref'.pc = "source" \/ t # s,
                        NEW f \in ToSet(Targets[t]), NEW g \in ToSet(Targets[t])
                 PROVE  disk[f].bytes = disk[g].bytes
    BY <1>s, <1>1, <1>3 DEF FilesAgree
  <2>2. CASE t = s
    BY <1>7, <2>2
  <2>3. CASE t # s
    BY <1>1, <1>3, <1>4, <2>3 DEF FilesInv, BundlesWhole, FilesAgree
  <2>4. QED
    BY <2>2, <2>3
<1>9. FilesInv'
  BY <1>s, <1>1, <1>3, <1>6, <1>8 DEF FilesInv, BundlesWhole, EtagNeverAhead, Busy
<1>10. \A f \in File, n \in Nat : (Ahead(f, n))' => Ahead(f, n)
  <2>1. PICK files : files = ref.files
    OBVIOUS
  <2>2. \A j \in 1..Len(files) : files[j] \in ToSet(files)
    BY <1>1, <2>1, BundleInFlight
  <2>3. \A j \in 1..(ref.i - 1) : files[j] \in ToSet(files)
    BY <1>1, <2>1, <2>2 DEF Bundle
  <2>4. QED
    BY <1>1, <1>3, <2>1, <2>3 DEF Ahead
<1>11. NewStamps
  BY <1>1, <1>10, StampsAreNew DEF FileTypes
<1>12. QED
  BY <1>5, <1>9, <1>11

(* A bundle is taken back, the last file first. *)
LEMMA RollbackKeepsFiles ==
  ASSUME FileTypes, RefTypes, FilesInv, StampInv, setup' = setup, NEW s \in Source, Rollback(s)
  PROVE  FileTypes' /\ RefTypes' /\ FilesInv' /\ NewStamps
<1>s. Source' = Source /\ Loaded' = Loaded /\ Snapshot' = Snapshot /\ File' = File
  BY FilesStay
<1>1. ref.pc = "rollback" /\ ref.now = {s} /\ UNCHANGED <<clock, upstream>> /\ Bundle(s)
  BY DEF Rollback, RefreshStep, FilesInv, Busy
<1>2. PICK files : files = ref.files
  OBVIOUS
<1>3. PICK i : i = ref.i
  OBVIOUS
<1>4. /\ files \in Seq(File) /\ Len(files) \in Nat /\ ToSet(files) = {files[j] : j \in 1..Len(files)}
      /\ \A j, k \in 1..Len(files) : files[j] = files[k] => j = k
      /\ ToSet(Targets[s]) \subseteq ToSet(files) /\ ToSet(files) \subseteq ToSet(Targets[s]) \cup {EtagFile}
      /\ Doc \notin ToSet(files) /\ EtagFile \notin ToSet(Targets[s])
      /\ \A j \in 1..Len(files) : files[j] = EtagFile => j = Len(files) /\ s \in Tagged
      /\ \A t \in Source \ {s} : ToSet(files) \cap ToSet(Targets[t]) = {}
      /\ \A j \in 1..Len(files) : files[j] \in ToSet(files) /\ files[j] \in File \ {Doc}
  BY <1>1, <1>2, BundleInFlight
<1>5. i \in 1..(Len(files) + 1)
  BY <1>1, <1>2, <1>3 DEF Bundle
<1>6. /\ upstream[s] \in Nat /\ clock \in Nat
      /\ \A f \in ToSet(files) : ref.prev[f].bytes \in Int /\ ref.prev[f].bytes <= upstream[s]
                                 /\ ref.prev[f].stamp \in 0..clock
  BY <1>1, <1>2 DEF RefTypes, FileTypes, Bundle, Absent
<1>7. CASE RestoreFile(s)
  <2>1. PICK k : k = i - 1
    OBVIOUS
  <2>2. k \in 1..Len(files) /\ i = k + 1 /\ UNCHANGED torn
    BY <1>3, <1>5, <1>7, <2>1 DEF RestoreFile
  <2>3. disk' = [disk EXCEPT ![files[k]] = ref.prev[files[k]]] /\ ref' = [ref EXCEPT !.i = @ - 1]
    BY <1>2, <1>3, <1>7, <2>1 DEF RestoreFile
  <2>4. /\ ref'.pc = "rollback" /\ DOMAIN ref' = DOMAIN ref
        /\ ref'.left = ref.left /\ ref'.got = ref.got /\ ref'.same = ref.same /\ ref'.start = ref.start
        /\ ref'.now = ref.now /\ ref'.files = files /\ ref'.i = k /\ ref'.stamp = ref.stamp
        /\ ref'.prev = ref.prev
    BY <1>1, <1>2, <1>3, <2>1, <2>3 DEF RefTypes, NoRef
  <2>5. /\ disk'[files[k]] = ref.prev[files[k]]
        /\ \A f \in File \ {files[k]} : disk'[f] = disk[f]
    BY <1>4, <2>2, <2>3 DEF FileTypes
  <2>6. files[k] \in ToSet(files) /\ files[k] \in File /\ files[k] # Doc
    BY <1>4, <2>2
  <2>7. FileTypes'
    <3>1. ref.prev[files[k]] \in [bytes : Bytes, stamp : 0..clock]
      <4>1. ref.prev[files[k]] \in [bytes : Int, stamp : {Absent} \cup (ref.stamp + 1)..clock]
        BY <1>1, <1>2, <2>6 DEF Bundle
      <4>2. QED
        BY <1>6, <2>6, <4>1 DEF Bytes
    <3>2. disk' \in [File -> [bytes : Bytes, stamp : 0..clock]]
      BY <2>3, <2>6, <3>1 DEF FileTypes
    <3>3. disk'[Doc] = disk[Doc]
      BY <2>5, <2>6, FileFacts DEF FileTypes
    <3>4. \A f \in File \ {Doc} : disk'[f].bytes \in Int
      BY <1>6, <2>5, <2>6 DEF FileTypes
    <3>5. QED
      BY <1>s, <1>1, <2>2, <3>2, <3>3, <3>4 DEF FileTypes
  <2>8. RefTypes'
    BY <1>s, <1>1, <2>4 DEF RefTypes, Busy
  <2>9. \A j \in 1..Len(files) : disk'[files[j]].bytes = IF j < k THEN upstream[s] ELSE ref.prev[files[j]].bytes
    <3>1. SUFFICES ASSUME NEW j \in 1..Len(files)
                   PROVE  disk'[files[j]].bytes = IF j < k THEN upstream[s] ELSE ref.prev[files[j]].bytes
      OBVIOUS
    <3>2. CASE j = k
      BY <2>2, <2>5, <3>2
    <3>3. CASE j # k
      <4>1. files[j] \in File \ {files[k]}
        BY <1>4, <2>2, <3>3
      <4>2. disk[files[j]].bytes = IF j < i THEN upstream[s] ELSE ref.prev[files[j]].bytes
        BY <1>1, <1>2, <1>3 DEF Bundle
      <4>3. QED
        BY <2>2, <2>5, <3>3, <4>1, <4>2
    <3>4. QED
      BY <3>2, <3>3
  <2>10. (Old(EtagFile))' = Old(EtagFile)
    <3>1. EtagFile \notin ToSet(files) => disk'[EtagFile] = disk[EtagFile]
      BY <2>5, <2>6, FileFacts DEF FileTypes
    <3>2. QED
      BY <1>2, <2>4, <3>1 DEF Old
  <2>11. (Bundle(s))'
    <3>1. k \in 1..(Len(files) + 1)
      BY <1>4, <2>2
    <3>2. QED
      BY <1>1, <1>2, <2>2, <2>4, <2>9, <2>10, <3>1 DEF Bundle
  <2>12. \A t \in Source : \A f \in ToSet(Targets[t]) : disk'[f].bytes <= upstream[t]
    <3>1. SUFFICES ASSUME NEW t \in Source, NEW f \in ToSet(Targets[t]) PROVE disk'[f].bytes <= upstream[t]
      OBVIOUS
    <3>2. f \in File /\ disk[f].bytes <= upstream[t]
      BY FileFacts DEF FilesInv, FileTypes
    <3>3. CASE f = files[k]
      <4>1. t = s
        BY <1>4, <2>6, <3>3
      <4>2. QED
        BY <1>6, <2>5, <2>6, <3>3, <4>1
    <3>4. QED
      BY <2>5, <3>2, <3>3
  <2>13. EtagNeverAhead'
    <3>1. SUFFICES ASSUME NEW t \in Source \cap Tagged, NEW f \in ToSet(Targets[t])
                   PROVE  disk'[EtagFile].bytes <= disk'[f].bytes
      BY <1>s DEF EtagNeverAhead
    <3>2. /\ disk[EtagFile].bytes <= disk[f].bytes /\ f \in File /\ EtagFile \in File /\ f # EtagFile
      <4>1. f # EtagFile /\ f \in File /\ EtagFile \in File
        BY TargetsAssumption, FileFacts DEF FileTypes
      <4>2. QED
        BY <4>1 DEF FilesInv, BundlesWhole, EtagNeverAhead
    <3>3. CASE t # s
      <4>1. files[k] # f
        BY <1>4, <2>6, <3>1, <3>3
      <4>2. s \notin Tagged
        BY <3>1, <3>3, TargetsAssumption
      <4>3. files[k] # EtagFile
        BY <1>4, <2>2, <4>2
      <4>4. QED
        BY <2>5, <3>2, <4>1, <4>3
    <3>4. CASE t = s
      <4>1. PICK j \in 1..Len(files) : files[j] = f
        BY <1>4, <3>4
      <4>2. Old(EtagFile) <= ref.prev[f].bytes
        BY <1>1, <3>4 DEF Bundle
      <4>3. disk'[EtagFile].bytes = Old(EtagFile)
        <5>1. CASE EtagFile \in ToSet(files)
          <6>1. PICK e \in 1..Len(files) : files[e] = EtagFile
            BY <1>4, <5>1
          <6>2. e = Len(files) /\ ~(e < k)
            BY <1>4, <2>2, <6>1
          <6>3. disk'[EtagFile].bytes = ref.prev[EtagFile].bytes
            BY <2>9, <6>1, <6>2
          <6>4. QED
            BY <1>2, <5>1, <6>3 DEF Old
        <5>2. CASE EtagFile \notin ToSet(files)
          BY <1>2, <2>5, <2>6, <3>2, <5>2 DEF Old
        <5>3. QED
          BY <5>1, <5>2
      <4>4. disk'[f].bytes = upstream[s] \/ disk'[f].bytes = ref.prev[f].bytes
        BY <2>9, <4>1
      <4>5. f \in ToSet(files) /\ Old(EtagFile) \in Int
        <5>1. f \in ToSet(files) /\ EtagFile \in File /\ EtagFile # Doc
          BY <1>4, <3>2, <3>4, TargetsAssumption
        <5>2. QED
          BY <1>2, <1>6, <5>1 DEF Old, FileTypes
      <4>6. QED
        BY <1>6, <4>2, <4>3, <4>4, <4>5
    <3>5. QED
      BY <3>3, <3>4
  <2>14. FilesAgree'
    <3>1. SUFFICES ASSUME NEW t \in Source \ torn, t # s, NEW f \in ToSet(Targets[t]), NEW g \in ToSet(Targets[t])
                   PROVE  disk'[f].bytes = disk'[g].bytes
      BY <1>s, <1>1, <2>2, <2>4 DEF FilesAgree
    <3>2. disk[f].bytes = disk[g].bytes
      BY <1>1, <3>1 DEF FilesInv, BundlesWhole, FilesAgree
    <3>3. f \in File \ {files[k]} /\ g \in File \ {files[k]}
      <4>1. f \in File /\ g \in File
        BY <3>1, FileFacts DEF FileTypes
      <4>2. f \notin ToSet(files) /\ g \notin ToSet(files)
        BY <1>4, <3>1
      <4>3. QED
        BY <2>6, <4>1, <4>2
    <3>4. QED
      BY <2>5, <3>2, <3>3
  <2>15. FilesInv'
    BY <1>s, <1>1, <2>4, <2>11, <2>12, <2>13, <2>14 DEF FilesInv, BundlesWhole
  <2>16. \A f \in File, n \in Nat : (Ahead(f, n))' => Ahead(f, n)
    <3>1. 1..(k - 1) \subseteq 1..(i - 1)
      BY <2>2
    <3>2. QED
      BY <1>1, <1>2, <1>3, <2>4, <3>1 DEF Ahead
  <2>17. \A n \in Nat : n = ref.prev[files[k]].stamp => Ahead(files[k], n) /\ (n # Absent => ~(Ahead(files[k], n))')
    <3>1. SUFFICES ASSUME NEW n \in Nat, n = ref.prev[files[k]].stamp
                   PROVE  Ahead(files[k], n) /\ ~(Ahead(files[k], n))'
      OBVIOUS
    <3>2. Ahead(files[k], n)
      <4>1. k \in 1..(i - 1)
        BY <2>2
      <4>2. QED
        BY <1>1, <1>2, <1>3, <3>1, <4>1 DEF Ahead
    <3>3. \A j \in 1..(k - 1) : files[k] # files[j]
      BY <1>4, <2>2
    <3>4. \A t \in ref.left : files[k] \notin ToSet(Targets[t])
      BY <1>1, <1>4, <2>6 DEF RefTypes
    <3>5. ~(Ahead(files[k], n))'
      BY <2>4, <3>1, <3>3, <3>4 DEF Ahead
    <3>6. QED
      BY <3>2, <3>5
  <2>18. ref.prev[files[k]].stamp # Absent => ~(Ahead(files[k], disk[files[k]].stamp))'
    <3>1. PICK n \in Nat : n = ref.prev[files[k]].stamp
      BY <1>6, <2>6
    <3>2. n # Absent => ~(Ahead(files[k], n))' /\ disk'[files[k]].stamp = n
      BY <2>5, <2>17, <3>1
    <3>3. QED
      BY <3>1, <3>2 DEF Ahead
  <2>19. NewStamps
    <3>1. \A f \in File : \/ disk'[f] = disk[f]
                          \/ disk'[f].stamp = Absent
                          \/ /\ disk'[f].stamp \in 1..clock' /\ ~(Ahead(f, disk[f].stamp))'
                             /\ Ahead(f, disk'[f].stamp)
      BY <1>1, <1>6, <2>5, <2>6, <2>17, <2>18 DEF Absent
    <3>2. QED
      BY <1>1, <2>16, <3>1, StampsAreNew DEF FileTypes
  <2>20. QED
    BY <2>7, <2>8, <2>15, <2>19
<1>8. ASSUME UNCHANGED disk, DOMAIN ref' = DOMAIN ref, ref'.pc = "source", ref'.left = ref.left, ref'.got = ref.got,
             ref'.same = ref.same, ref'.start = ref.start, ref'.now = ref.now,
             (i = 1 /\ torn' = torn) \/ torn' = torn \cup {s}
      PROVE  FileTypes' /\ RefTypes' /\ FilesInv' /\ NewStamps
  <2>1. FileTypes' /\ RefTypes'
    BY <1>s, <1>1, <1>8 DEF FileTypes, RefTypes, Busy
  <2>2. FilesAgree'
    <3>1. SUFFICES ASSUME NEW t \in Source \ torn', NEW f \in ToSet(Targets[t]), NEW g \in ToSet(Targets[t])
                   PROVE  disk[f].bytes = disk[g].bytes
      BY <1>s, <1>8 DEF FilesAgree
    <3>2. CASE t # s
      BY <1>1, <1>8, <3>2 DEF FilesInv, BundlesWhole, FilesAgree
    <3>3. CASE t = s
      <4>1. i = 1 /\ s \notin torn
        BY <1>8, <3>3
      <4>2. \A j \in 1..Len(files) : disk[files[j]].bytes = ref.prev[files[j]].bytes
        BY <1>1, <1>2, <1>3, <4>1 DEF Bundle
      <4>4. disk[f].bytes = ref.prev[f].bytes /\ disk[g].bytes = ref.prev[g].bytes
        BY <1>4, <3>3, <4>2
      <4>3. QED
        BY <1>1, <3>3, <4>1, <4>4 DEF Bundle
    <3>4. QED
      BY <3>2, <3>3
  <2>3. FilesInv'
    BY <1>s, <1>1, <1>8, <2>2 DEF FilesInv, BundlesWhole, EtagNeverAhead, Busy
  <2>4. \A f \in File, n \in Nat : (Ahead(f, n))' => Ahead(f, n)
    BY <1>8 DEF Ahead
  <2>5. NewStamps
    BY <1>1, <1>8, <2>4, StampsAreNew DEF FileTypes
  <2>6. QED
    BY <2>1, <2>3, <2>5
<1>9. QED
  <2>1. CASE ref.i = 1 /\ ref' = [ref EXCEPT !.pc = "source"] /\ UNCHANGED <<disk, torn>>
    <3>1. /\ DOMAIN ref' = DOMAIN ref /\ ref'.pc = "source" /\ ref'.left = ref.left /\ ref'.got = ref.got
          /\ ref'.same = ref.same /\ ref'.start = ref.start /\ ref'.now = ref.now
      BY <2>1 DEF RefTypes, NoRef
    <3>2. QED
      BY <1>3, <1>8, <2>1, <3>1
  <2>2. CASE ref' = [ref EXCEPT !.pc = "source", !.unsafe = @ \cup {s}] /\ torn' = torn \cup {s} /\ UNCHANGED disk
    <3>1. /\ DOMAIN ref' = DOMAIN ref /\ ref'.pc = "source" /\ ref'.left = ref.left /\ ref'.got = ref.got
          /\ ref'.same = ref.same /\ ref'.start = ref.start /\ ref'.now = ref.now
      BY <2>2 DEF RefTypes, NoRef
    <3>2. QED
      BY <1>8, <2>2, <3>1
  <2>3. QED
    BY <1>7, <2>1, <2>2 DEF Rollback

(* The bytes are the same, the time is that of the refresh. *)
LEMMA TouchKeepsFiles ==
  ASSUME FileTypes, RefTypes, FilesInv, StampInv, setup' = setup, NEW s \in Source, Touch(s)
  PROVE  FileTypes' /\ RefTypes' /\ FilesInv' /\ NewStamps
<1>s. Source' = Source /\ Loaded' = Loaded /\ Snapshot' = Snapshot /\ File' = File
  BY FilesStay
<1>1. /\ ref.pc = "source" /\ s \in ref.left \cap ref.same /\ UNCHANGED <<clock, torn, upstream>>
  BY DEF Touch, RefreshStep
<1>2. /\ ref'.pc = "source" /\ DOMAIN ref' = DOMAIN ref /\ ref'.left = ref.left \ {s} /\ ref'.now = {}
      /\ ref'.got = ref.got /\ ref'.same = ref.same /\ ref'.start = ref.start
  <2>1. ASSUME NEW tagged, ref' = [Settled(s) EXCEPT !.unsafe = @ \cup tagged]
        PROVE  /\ ref'.pc = "source" /\ DOMAIN ref' = DOMAIN ref /\ ref'.left = ref.left \ {s} /\ ref'.now = {}
               /\ ref'.got = ref.got /\ ref'.same = ref.same /\ ref'.start = ref.start
    BY <1>1, <2>1 DEF Settled, RefTypes, NoRef
  <2>2. CASE ref' = [Settled(s) EXCEPT !.changed = TRUE]
    BY <1>1, <2>2 DEF Settled, RefTypes, NoRef
  <2>3. QED
    BY <2>1, <2>2 DEF Touch
<1>3. CASE UNCHANGED disk
  BY <1>1, <1>2, <1>3, SettledKeepsFiles
<1>4. CASE disk' = [f \in File |-> IF f \in ToSet(Targets[s])
                                   THEN [disk[f] EXCEPT !.stamp = ref.start] ELSE disk[f]]
  <2>1. \A f \in File : /\ disk'[f].bytes = disk[f].bytes
                        /\ disk'[f] \in [bytes : Bytes, stamp : 0..clock]
                        /\ f \in ToSet(Targets[s]) => disk'[f].stamp = ref.start
                        /\ f \notin ToSet(Targets[s]) => disk'[f] = disk[f]
    <3>1. ASSUME NEW f \in File
          PROVE  /\ disk'[f].bytes = disk[f].bytes
                 /\ disk'[f] \in [bytes : Bytes, stamp : 0..clock]
                 /\ f \in ToSet(Targets[s]) => disk'[f].stamp = ref.start
                 /\ f \notin ToSet(Targets[s]) => disk'[f] = disk[f]
      <4>1. disk[f] \in [bytes : Bytes, stamp : 0..clock] /\ ref.start \in 0..clock
        BY DEF FileTypes, RefTypes
      <4>2. disk'[f] = IF f \in ToSet(Targets[s]) THEN [disk[f] EXCEPT !.stamp = ref.start] ELSE disk[f]
        BY <1>4
      <4>3. QED
        BY <4>1, <4>2
    <3>2. QED
      BY <3>1
  <2>2. FileTypes'
    <3>1. disk' \in [File -> [bytes : Bytes, stamp : 0..clock]]
      BY <1>4, <2>1
    <3>2. Doc \in File
      BY FileFacts DEF FileTypes
    <3>3. QED
      BY <1>s, <1>1, <2>1, <3>1, <3>2 DEF FileTypes
  <2>3. RefTypes'
    BY <1>s, <1>1, <1>2 DEF RefTypes
  <2>4. FilesInv'
    <3>1. \A t \in Source : ToSet(Targets[t]) \subseteq File
      BY FileFacts DEF FileTypes
    <3>2. EtagFile \in File
      BY FileFacts DEF FileTypes
    <3>3. FilesAgree'
      BY <1>s, <1>1, <1>2, <2>1, <3>1 DEF FilesInv, BundlesWhole, FilesAgree
    <3>4. EtagNeverAhead'
      BY <1>s, <2>1, <3>1, <3>2 DEF FilesInv, BundlesWhole, EtagNeverAhead
    <3>5. \A t \in Source : \A f \in ToSet(Targets[t]) : disk'[f].bytes <= upstream'[t]
      BY <1>1, <2>1, <3>1 DEF FilesInv
    <3>6. QED
      BY <1>s, <1>2, <3>3, <3>4, <3>5 DEF FilesInv, BundlesWhole, Busy
  <2>5. \A f \in File, n \in Nat : (Ahead(f, n))' => Ahead(f, n)
    BY <1>1, <1>2 DEF Ahead
  <2>6. \A f \in ToSet(Targets[s]), n \in Nat : n = ref.start => Ahead(f, n) /\ ~(Ahead(f, n))'
    <3>1. SUFFICES ASSUME NEW f \in ToSet(Targets[s]), NEW n \in Nat, n = ref.start
                   PROVE  Ahead(f, n) /\ ~(Ahead(f, n))'
      OBVIOUS
    <3>2. Ahead(f, n)
      BY <1>1, <3>1 DEF Ahead
    <3>3. \A t \in ref.left \ {s} : f \notin ToSet(Targets[t])
      BY FileFacts, TargetsAssumption DEF FileTypes, RefTypes
    <3>4. QED
      BY <1>2, <3>2, <3>3 DEF Ahead
  <2>7. ASSUME NEW f \in ToSet(Targets[s])
        PROVE  ~(Ahead(f, disk[f].stamp))' /\ Ahead(f, disk'[f].stamp)
    <3>1. PICK n \in Nat : n = ref.start
      BY DEF RefTypes, FileTypes
    <3>2. ~(Ahead(f, n))' /\ Ahead(f, n) /\ disk'[f].stamp = n
      BY <2>1, <2>6, <3>1, FileFacts DEF FileTypes
    <3>3. QED
      BY <3>2 DEF Ahead
  <2>8. NewStamps
    <3>1. \A f \in File : \/ disk'[f] = disk[f]
                          \/ disk'[f].stamp = Absent
                          \/ /\ disk'[f].stamp \in 1..clock' /\ ~(Ahead(f, disk[f].stamp))'
                             /\ Ahead(f, disk'[f].stamp)
      <4>1. ref.start \in 0..clock /\ clock \in Nat
        BY DEF RefTypes, FileTypes
      <4>2. QED
        BY <1>1, <2>1, <2>7, <4>1 DEF Absent
    <3>2. QED
      BY <1>1, <2>5, <3>1, StampsAreNew DEF FileTypes
  <2>9. QED
    BY <2>2, <2>3, <2>4, <2>8
<1>5. QED
  BY <1>3, <1>4 DEF Touch

-----------------------------------------------------------------------------
(* The others and the files.                                                 *)

(* The refresh does not replace the alias document. *)
LEMMA DocIsNotAhead ==
  ASSUME FileTypes, RefTypes, FilesInv
  PROVE  \A n \in Nat : ~Ahead(Doc, n)
<1>1. SUFFICES ASSUME NEW n \in Nat, Ahead(Doc, n) PROVE FALSE
  OBVIOUS
<1>2. CASE ref.pc \in Busy
  <2>1. PICK s \in Source : Bundle(s)
    BY <1>2 DEF FilesInv
  <2>2. PICK files : files = ref.files
    OBVIOUS
  <2>3. /\ Doc \notin ToSet(files) /\ Len(files) \in Nat
        /\ \A j \in 1..Len(files) : files[j] # Doc
    BY <2>1, <2>2, BundleInFlight
  <2>4. ref.i \in 1..(Len(files) + 1)
    BY <2>1, <2>2 DEF Bundle
  <2>5. \A t \in ref.left : Doc \notin ToSet(Targets[t])
    BY FileFacts, TargetsAssumption DEF RefTypes, FileTypes
  <2>6. QED
    BY <1>1, <2>2, <2>3, <2>4, <2>5 DEF Ahead
<1>3. CASE ref.pc \notin Busy
  <2>1. \A t \in ref.left : Doc \notin ToSet(Targets[t])
    BY FileFacts, TargetsAssumption DEF RefTypes, FileTypes
  <2>2. QED
    BY <1>1, <1>3, <2>1 DEF Ahead, Busy
<1>4. QED
  BY <1>2, <1>3

(* The alias document is replaced. *)
LEMMA EditKeepsFiles ==
  ASSUME FileTypes, RefTypes, FilesInv, StampInv, setup' = setup, UNCHANGED <<ref, upstream, torn>>,
         NEW bytes \in SUBSET Alias, clock' = clock + 1,
         disk' = [disk EXCEPT ![Doc] = [bytes |-> bytes, stamp |-> clock + 1]]
  PROVE  FileTypes' /\ RefTypes' /\ FilesInv' /\ NewStamps
<1>s. Source' = Source /\ Loaded' = Loaded /\ Snapshot' = Snapshot /\ File' = File
  BY FilesStay
<1>1. Doc \in File /\ clock \in Nat
  BY FileFacts DEF FileTypes
<1>2. /\ disk'[Doc] = [bytes |-> bytes, stamp |-> clock + 1] /\ \A f \in File \ {Doc} : disk'[f] = disk[f]
  BY <1>1 DEF FileTypes
<1>3. FileTypes'
  <2>1. [bytes |-> bytes, stamp |-> clock + 1] \in [bytes : Bytes, stamp : 0..clock']
    BY <1>1 DEF Bytes
  <2>2. ASSUME NEW f \in File PROVE disk'[f] \in [bytes : Bytes, stamp : 0..clock']
    <3>1. disk[f] \in [bytes : Bytes, stamp : 0..clock]
      BY DEF FileTypes
    <3>2. disk'[f] = disk[f] => disk'[f] \in [bytes : Bytes, stamp : 0..clock']
      BY <1>1, <3>1
    <3>3. QED
      BY <1>2, <2>1, <3>2
  <2>3. disk' \in [File -> [bytes : Bytes, stamp : 0..clock']]
    BY <2>2 DEF FileTypes
  <2>4. QED
    BY <1>s, <1>1, <1>2, <2>3 DEF FileTypes
<1>4. RefTypes'
  BY <1>s, <1>1 DEF RefTypes
<1>5. \A s \in Source : Doc \notin ToSet(Targets[s]) /\ ToSet(Targets[s]) \subseteq File \ {Doc}
  BY FileFacts, TargetsAssumption DEF FileTypes
<1>6. EtagFile \in File \ {Doc}
  BY FileFacts, TargetsAssumption DEF FileTypes
<1>7. ASSUME NEW s \in Source, Bundle(s) PROVE (Bundle(s))'
  <2>1. PICK files : files = ref.files
    OBVIOUS
  <2>2. \A j \in 1..Len(files) : files[j] \in File \ {Doc}
    BY <1>7, <2>1, BundleInFlight
  <2>3. \A j \in 1..Len(files) : disk'[files[j]] = disk[files[j]]
    BY <1>2, <2>2
  <2>4. disk'[EtagFile] = disk[EtagFile]
    BY <1>2, <1>6
  <2>5. ASSUME NEW x \in 1..clock PROVE x \in 1..clock' /\ (x + 1)..clock \subseteq (x + 1)..clock'
    BY <1>1
  <2>6. (Old(EtagFile))' = Old(EtagFile)
    BY <2>4 DEF Old
  <2>7. ref.stamp \in 1..clock /\ ref.stamp \in 1..clock'
    BY <1>1, <1>7 DEF Bundle
  <2>8. \A f \in ToSet(files) : ref.prev[f] \in [bytes : Int, stamp : {Absent} \cup (ref.stamp + 1)..clock']
    <3>1. SUFFICES ASSUME NEW f \in ToSet(files)
                   PROVE  ref.prev[f] \in [bytes : Int, stamp : {Absent} \cup (ref.stamp + 1)..clock']
      OBVIOUS
    <3>2. ref.prev[f] \in [bytes : Int, stamp : {Absent} \cup (ref.stamp + 1)..clock]
      BY <1>7, <2>1, <3>1 DEF Bundle
    <3>3. {Absent} \cup (ref.stamp + 1)..clock \subseteq {Absent} \cup (ref.stamp + 1)..clock'
      BY <1>1, <2>7
    <3>4. QED
      BY <3>2, <3>3
  <2>9. QED
    BY <1>7, <2>1, <2>3, <2>6, <2>7, <2>8 DEF Bundle
<1>8. FilesInv'
  <2>1. FilesAgree'
    BY <1>s, <1>2, <1>5 DEF FilesInv, BundlesWhole, FilesAgree
  <2>2. EtagNeverAhead'
    BY <1>s, <1>2, <1>5, <1>6 DEF FilesInv, BundlesWhole, EtagNeverAhead
  <2>3. \A t \in Source : \A f \in ToSet(Targets[t]) : disk'[f].bytes <= upstream[t]
    BY <1>2, <1>5 DEF FilesInv
  <2>4. QED
    BY <1>s, <1>7, <2>1, <2>2, <2>3 DEF FilesInv, BundlesWhole
<1>9. \A f \in File, n \in Nat : (Ahead(f, n))' <=> Ahead(f, n)
  BY DEF Ahead
<1>10. ~(Ahead(Doc, disk[Doc].stamp))'
  <2>1. PICK n \in Nat : n = clock + 1
    BY <1>1
  <2>2. ~(Ahead(Doc, n))' /\ disk'[Doc].stamp = n
    BY <1>1, <1>2, <1>9, <2>1, DocIsNotAhead
  <2>3. QED
    BY <2>2 DEF Ahead
<1>11. NewStamps
  <2>1. \A f \in File : \/ disk'[f] = disk[f]
                        \/ /\ disk'[f].stamp \in 1..clock' /\ ~(Ahead(f, disk[f].stamp))'
                           /\ disk'[f].stamp > clock
    BY <1>1, <1>2, <1>10
  <2>2. QED
    BY <1>1, <1>9, <2>1, StampsAreNew DEF FileTypes
<1>12. QED
  BY <1>3, <1>4, <1>8, <1>11

(* A kill leaves the bundle in flight torn and every other one whole. *)
LEMMA CrashKeepsFiles ==
  ASSUME FileTypes, RefTypes, FilesInv, StampInv, setup' = setup, Crash
  PROVE  FileTypes' /\ RefTypes' /\ FilesInv' /\ NewStamps
<1>s. Source' = Source /\ Loaded' = Loaded /\ Snapshot' = Snapshot /\ File' = File
  BY FilesStay
<1>1. /\ UNCHANGED <<disk, clock, upstream>> /\ ref' = NoRef
      /\ torn' = torn \cup (IF ref.pc \in {"persist", "sync", "rollback"} THEN ref.now ELSE {})
  BY DEF Crash, fileVars
<1>2. ref'.pc = "idle" /\ ref'.left = {} /\ ref'.now = {} /\ ref'.start = 0 /\ DOMAIN ref' = DOMAIN NoRef
  BY <1>1 DEF NoRef
<1>3. FileTypes'
  BY <1>s, <1>1 DEF FileTypes, RefTypes
<1>4. RefTypes'
  BY <1>s, <1>1, <1>2 DEF RefTypes, FileTypes, NoRef
<1>5. FilesInv'
  BY <1>s, <1>1, <1>2 DEF FilesInv, BundlesWhole, FilesAgree, EtagNeverAhead, Busy
<1>6. \A f \in File, n \in Nat : ~(Ahead(f, n))'
  BY <1>2 DEF Ahead
<1>7. NewStamps
  BY <1>1, <1>6, StampsAreNew DEF FileTypes
<1>8. QED
  BY <1>3, <1>4, <1>5, <1>7

(* A newer version upstream is announced by nobody yet. *)
LEMMA UpstreamKeepsFiles ==
  ASSUME FileTypes, RefTypes, FilesInv, StampInv, setup' = setup, NEW s \in Source, UpstreamMoves(s)
  PROVE  FileTypes' /\ RefTypes' /\ FilesInv' /\ NewStamps
<1>s. Source' = Source /\ Loaded' = Loaded /\ Snapshot' = Snapshot /\ File' = File
  BY FilesStay
<1>1. /\ UNCHANGED <<disk, clock, ref, torn>> /\ ref.pc = "idle" /\ upstream' = [upstream EXCEPT ![s] = @ + 1]
  BY DEF UpstreamMoves, fileVars
<1>2. upstream' \in [Source -> Nat] /\ \A t \in Source : upstream[t] \in Nat /\ upstream'[t] >= upstream[t]
  BY <1>1 DEF FileTypes
<1>3. FileTypes'
  BY <1>s, <1>1, <1>2 DEF FileTypes
<1>4. RefTypes'
  BY <1>s, <1>1 DEF RefTypes
<1>5. \A t \in Source : \A f \in ToSet(Targets[t]) : disk[f].bytes <= upstream'[t]
  <2>1. SUFFICES ASSUME NEW t \in Source, NEW f \in ToSet(Targets[t]) PROVE disk[f].bytes <= upstream'[t]
    OBVIOUS
  <2>2. f \in File \ {Doc}
    BY FileFacts, TargetsAssumption DEF FileTypes
  <2>3. disk[f].bytes \in Int /\ disk[f].bytes <= upstream[t]
    BY <2>2 DEF FileTypes, FilesInv
  <2>4. QED
    BY <1>2, <2>3
<1>6. FilesInv'
  BY <1>s, <1>1, <1>5 DEF FilesInv, BundlesWhole, FilesAgree, EtagNeverAhead, Busy
<1>7. \A f \in File, n \in Nat : (Ahead(f, n))' => Ahead(f, n)
  BY <1>1 DEF Ahead
<1>8. NewStamps
  BY <1>1, <1>7, StampsAreNew DEF FileTypes
<1>9. QED
  BY <1>3, <1>4, <1>6, <1>8

-----------------------------------------------------------------------------
(* Loads and the alias document.                                             *)

(* The sequences a load has gathered. *)
LEMMA Gathered ==
  ASSUME FileTypes, LoadTypes
  PROVE  /\ Len(Loaded) \in Nat \ {0} /\ DOMAIN Loaded = 1..Len(Loaded)
         /\ DOMAIN load.before = 1..Len(load.before) /\ Len(load.before) \in Nat
         /\ DOMAIN load.seen = 1..Len(load.seen) /\ Len(load.seen) \in Nat
         /\ DOMAIN load.before \subseteq DOMAIN Loaded /\ DOMAIN load.seen \subseteq DOMAIN Loaded
         /\ \A j \in DOMAIN load.before : load.before[j] \in Nat
         /\ \A j \in DOMAIN Loaded : Loaded[j] \in Snapshot /\ Loaded[j] \in File
<1>1. /\ Loaded \in Seq(File) /\ Doc \in Snapshot /\ Snapshot \subseteq File
      /\ \A j \in DOMAIN Loaded : Loaded[j] \in Snapshot
  BY FileFacts DEF FileTypes
<1>2. Len(Loaded) \in Nat \ {0} /\ DOMAIN Loaded = 1..Len(Loaded)
  <2>1. Len(Loaded) \in Nat /\ DOMAIN Loaded = 1..Len(Loaded)
    BY <1>1
  <2>2. \E j \in DOMAIN Loaded : Loaded[j] = Doc
    BY <1>1 DEF Snapshot, ToSet
  <2>3. QED
    BY <2>1, <2>2
<1>3. /\ DOMAIN load.before = 1..Len(load.before) /\ Len(load.before) \in Nat
      /\ DOMAIN load.seen = 1..Len(load.seen) /\ Len(load.seen) \in Nat
      /\ \A j \in DOMAIN load.before : load.before[j] \in Nat
  <2>1. load.before \in Seq(Nat) /\ load.seen \in Seq(Bytes)
    BY DEF LoadTypes
  <2>2. QED
    BY <2>1
<1>4. Len(load.before) <= Len(Loaded) /\ Len(load.seen) <= Len(Loaded)
  <2>1. Len(<<>>) = 0
    OBVIOUS
  <2>2. QED
    BY <1>2, <2>1 DEF LoadTypes
<1>5. QED
  BY <1>1, <1>2, <1>3, <1>4

(* What a load knows is not disturbed by new stamps. *)
LEMMA LoadUndisturbed ==
  ASSUME FileTypes, LoadTypes, LoadInv, NewStamps, setup' = setup, UNCHANGED load, clock' \in Nat, clock <= clock'
  PROVE  LoadTypes' /\ LoadInv'
<1>s. Source' = Source /\ Loaded' = Loaded /\ Snapshot' = Snapshot /\ File' = File
  BY FilesStay
<1>1. LoadTypes'
  BY <1>s DEF LoadTypes
<1>2. ASSUME NEW j \in DOMAIN load.before
      PROVE  /\ (Past(Loaded[j], load.before[j]))'
             /\ load.before[j] # Absent /\ disk'[Loaded[j]].stamp = load.before[j] => disk'[Loaded[j]] = disk[Loaded[j]]
  <2>1. PICK f \in File : f = Loaded[j]
    BY Gathered
  <2>2. PICK n \in Nat : n = load.before[j]
    BY Gathered DEF FileTypes
  <2>3. Past(f, n)
    BY <2>1, <2>2 DEF LoadInv
  <2>4. (Past(f, n))' /\ (disk'[f] # disk[f] => disk'[f].stamp = Absent \/ ~Past(f, disk'[f].stamp))
    BY <2>3 DEF NewStamps
  <2>5. Loaded'[j] = f /\ load'.before[j] = n
    BY <1>s, <2>1, <2>2
  <2>6. (Past(Loaded[j], load.before[j]))'
    BY <2>4, <2>5
  <2>7. n # Absent /\ disk'[f].stamp = n => disk'[f] = disk[f]
    BY <2>3, <2>4
  <2>8. QED
    BY <2>1, <2>2, <2>6, <2>7
<1>3. LoadInv'
  <2>1. \A j \in DOMAIN load.before : (Past(Loaded[j], load.before[j]))'
    BY <1>2
  <2>2. load.pc \in {"read", "after", "publish"} => DOMAIN load.before = DOMAIN Loaded
    BY Gathered DEF LoadTypes
  <2>3. load.pc \in {"read", "after", "publish"} =>
       \A j \in DOMAIN Loaded :
         load.before[j] # Absent /\ disk'[Loaded[j]].stamp = load.before[j] =>
           /\ disk'[Loaded[j]].bytes = load.instant[Loaded[j]]
           /\ j \in DOMAIN load.seen => load.seen[j] = load.instant[Loaded[j]]
    BY <1>2, <2>2 DEF LoadInv
  <2>4. QED
    BY <1>s, <2>1, <2>3 DEF LoadInv
<1>4. QED
  BY <1>1, <1>3

(* A step of the refresh on the files. *)
LEMMA RefreshKeepsLoads ==
  ASSUME FileTypes, CallTypes, LoadTypes, LoadInv, LockInv, DocInv, setup' = setup, RefreshStep,
         NewStamps, clock' \in Nat, clock <= clock', disk'[Doc] = disk[Doc],
         ref.pc # "loading", ref'.pc # "loading"
  PROVE  CallTypes' /\ LoadTypes' /\ LoadInv' /\ LockInv' /\ DocInv'
<1>s. Source' = Source /\ Loaded' = Loaded /\ Snapshot' = Snapshot /\ File' = File
  BY FilesStay
<1>1. UNCHANGED <<served, lock, load, alias, acked>>
  BY DEF RefreshStep
<1>2. CallTypes'
  BY <1>1 DEF CallTypes
<1>3. LoadTypes' /\ LoadInv'
  BY <1>1, LoadUndisturbed
<1>4. LockInv'
  BY <1>1 DEF LockInv, RefreshReloadUndisturbed
<1>5. DocInv'
  BY <1>s, <1>1 DEF DocInv, Edited
<1>6. QED
  BY <1>2, <1>3, <1>4, <1>5

(* The lock is dropped; the snapshot it leaves has the aliases of the file. *)
LEMMA ReleaseKeepsLoads ==
  ASSUME FileTypes, CallTypes, LockInv, DocInv, setup' = setup, UNCHANGED fileVars,
         NEW ok \in BOOLEAN, Release(ok),
         \/ UNCHANGED served
         \/ served'.rev[Doc] = disk[Doc].stamp /\ served'.bytes[Doc] = disk[Doc].bytes,
         ok => /\ lock \in Caller => alias[lock].pc \in {"load", "check"}
               /\ served'.bytes[Doc] = disk[Doc].bytes
  PROVE  CallTypes' /\ LoadTypes' /\ LoadInv' /\ LockInv' /\ DocInv'
<1>s. Source' = Source /\ Loaded' = Loaded /\ Snapshot' = Snapshot /\ File' = File
  BY FilesStay
<1>1. /\ lock' = "free" /\ load' = NoLoad /\ UNCHANGED <<disk, clock>>
      /\ alias' = [c \in Caller |-> IF c = lock THEN NoCall ELSE alias[c]]
      /\ acked' = [a \in Alias |-> IF ok /\ lock \in Caller /\ a \in alias[lock].what
                               THEN alias[lock].op ELSE acked[a]]
  BY DEF Release, fileVars
<1>2. CallTypes'
  <2>1. NoCall \in [pc : {"idle", "edit", "check", "load"}, op : {"in", "out"}, what : SUBSET Alias]
    BY DEF NoCall
  <2>2. alias' \in [Caller -> [pc : {"idle", "edit", "check", "load"}, op : {"in", "out"}, what : SUBSET Alias]]
    BY <1>1, <2>1 DEF CallTypes
  <2>3. acked' \in [Alias -> {"unknown", "in", "out"}]
    BY <1>1 DEF CallTypes
  <2>4. QED
    BY <1>1, <2>2, <2>3 DEF CallTypes
<1>3. load'.pc = "idle" /\ load'.before = <<>> /\ load'.seen = <<>> /\ load'.i = 1 /\ DOMAIN load' = DOMAIN NoLoad
  BY <1>1 DEF NoLoad
<1>4. LoadTypes'
  <2>1. <<>> \in Seq(Nat) /\ <<>> \in Seq(Bytes)
    OBVIOUS
  <2>2. DOMAIN load' = DOMAIN NoLoad'
    BY <1>3 DEF NoLoad
  <2>3. QED
    BY <1>3, <2>1, <2>2 DEF LoadTypes
<1>5. DOMAIN load'.before = {} /\ DOMAIN load'.seen = {}
  BY <1>3
<1>6. LoadInv'
  BY <1>3, <1>5 DEF LoadInv
<1>7. \A c \in Caller : alias'[c].pc = "idle" /\ (c = lock \/ alias'[c] = alias[c])
  BY <1>1 DEF LockInv, NoCall
<1>8. LockInv'
  <2>1. ref'.pc # "loading"
    BY DEF Release, LockInv
  <2>2. lock' \notin Caller /\ lock' # "refresh"
    BY <1>1, CallerAssumption
  <2>3. QED
    BY <1>3, <1>5, <1>7, <2>1, <2>2 DEF LockInv, RefreshReloadUndisturbed
<1>9. DocInv'
  <2>1. \A a \in Alias :
       /\ acked'[a] = "in"  => a \in disk[Doc].bytes /\ a \in served'.bytes[Doc]
       /\ acked'[a] = "out" => a \notin disk[Doc].bytes /\ a \notin served'.bytes[Doc]
    <3>1. SUFFICES ASSUME NEW a \in Alias
                   PROVE  /\ acked'[a] = "in"  => a \in disk[Doc].bytes /\ a \in served'.bytes[Doc]
                          /\ acked'[a] = "out" => a \notin disk[Doc].bytes /\ a \notin served'.bytes[Doc]
      OBVIOUS
    <3>2. CASE ok /\ lock \in Caller /\ a \in alias[lock].what
      <4>1. acked'[a] = alias[lock].op /\ Edited(lock) = disk[Doc].bytes /\ served'.bytes[Doc] = disk[Doc].bytes
        BY <1>1, <3>2 DEF DocInv
      <4>2. QED
        BY <3>2, <4>1 DEF Edited
    <3>3. CASE ~(ok /\ lock \in Caller /\ a \in alias[lock].what)
      <4>1. acked'[a] = acked[a]
        BY <1>1, <3>3
      <4>2. QED
        BY <4>1 DEF DocInv
    <3>4. QED
      BY <3>2, <3>3
  <2>2. /\ served'.rev[Doc] \in Nat /\ served'.rev[Doc] <= disk[Doc].stamp
        /\ served'.rev[Doc] = disk[Doc].stamp => served'.bytes[Doc] = disk[Doc].bytes
    <3>1. disk[Doc].stamp \in Nat
      BY FileFacts DEF FileTypes
    <3>2. QED
      BY <3>1 DEF DocInv
  <2>3. QED
    BY <1>1, <1>5, <1>7, <2>1, <2>2 DEF DocInv
<1>10. QED
  BY <1>2, <1>4, <1>6, <1>8, <1>9

(* The first look at a revision. *)
LEMMA ReadRevisionKeepsLoads ==
  ASSUME FileTypes, CallTypes, LoadTypes, StampInv, LoadInv, LockInv, DocInv, setup' = setup, ReadRevision
  PROVE  CallTypes' /\ LoadTypes' /\ LoadInv' /\ LockInv' /\ DocInv'
<1>s. Source' = Source /\ Loaded' = Loaded /\ Snapshot' = Snapshot /\ File' = File
  BY FilesStay
<1>1. PICK f \in File : f = Loaded[load.i]
  BY Gathered DEF ReadRevision, LoadTypes
<1>2. /\ load.pc = "before" /\ UNCHANGED <<disk, clock, served, lock, ref, alias, acked>>
      /\ load' = [Step("read") EXCEPT !.before = Append(@, disk[f].stamp), !.instant = BytesOf(Snapshot)]
  BY <1>1 DEF ReadRevision, Continue, LoadStep, fileVars
<1>3. Step("read") = IF load.i < Len(Loaded) THEN [load EXCEPT !.i = @ + 1] ELSE [load EXCEPT !.pc = "read", !.i = 1]
  BY DEF Step
<1>4. /\ DOMAIN load' = DOMAIN load /\ load'.before = Append(load.before, disk[f].stamp)
      /\ load'.instant = BytesOf(Snapshot) /\ load'.seen = load.seen
      /\ load.i < Len(Loaded) => load'.pc = "before" /\ load'.i = load.i + 1
      /\ ~(load.i < Len(Loaded)) => load'.pc = "read" /\ load'.i = 1
  BY <1>2, <1>3 DEF LoadTypes, NoLoad
<1>5. /\ load.before \in Seq(Nat) /\ Len(load.before) = load.i - 1 /\ load.seen \in Seq(Bytes) /\ Len(load.seen) = 0
      /\ load.i \in Nat \ {0} /\ load.i <= Len(Loaded) /\ Len(Loaded) \in Nat \ {0} /\ disk[f].stamp \in Nat
  BY <1>2, Gathered DEF LoadTypes, FileTypes
<1>6. /\ load'.before \in Seq(Nat) /\ Len(load'.before) = load.i /\ DOMAIN load'.before = 1..load.i
      /\ load'.before[load.i] = disk[f].stamp
      /\ \A j \in 1..(load.i - 1) : j \in DOMAIN load.before /\ load'.before[j] = load.before[j]
  BY <1>4, <1>5
<1>7. CallTypes' /\ LoadTypes'
  <2>1. CallTypes'
    BY <1>2 DEF CallTypes
  <2>2. LoadTypes'
    BY <1>s, <1>4, <1>5, <1>6 DEF LoadTypes, NoLoad
  <2>3. QED
    BY <2>1, <2>2
<1>8. \A j \in 1..load.i : j = load.i \/ j \in 1..(load.i - 1)
  BY <1>5
<1>9. DOMAIN load'.seen = {}
  BY <1>4, <1>5
<1>10. LoadInv'
  <2>1. ASSUME NEW j \in DOMAIN load'.before PROVE (Past(Loaded[j], load.before[j]))'
    <3>1. CASE j = load.i
      <4>1. PICK n \in Nat : n = disk[f].stamp
        BY <1>5
      <4>2. Past(f, n) /\ Loaded'[j] = f /\ load'.before[j] = n
        BY <1>s, <1>1, <1>6, <3>1, <4>1 DEF StampInv
      <4>3. (Past(f, n))'
        BY <1>2, <4>2 DEF Past, Ahead
      <4>4. QED
        BY <4>2, <4>3 DEF Past
    <3>2. CASE j \in 1..(load.i - 1)
      <4>1. Past(Loaded[j], load.before[j]) /\ load'.before[j] = load.before[j]
        BY <1>6, <3>2 DEF LoadInv
      <4>2. PICK g, n : g = Loaded[j] /\ n = load.before[j]
        OBVIOUS
      <4>3. Past(g, n) /\ Loaded'[j] = g /\ load'.before[j] = n
        BY <1>s, <4>1, <4>2
      <4>4. (Past(g, n))'
        BY <1>2, <4>3 DEF Past, Ahead
      <4>5. QED
        BY <4>3, <4>4 DEF Past
    <3>3. QED
      BY <1>6, <1>8, <3>1, <3>2
  <2>2. \A j \in DOMAIN Loaded : disk[Loaded[j]].bytes = load'.instant[Loaded[j]]
    BY <1>4, Gathered DEF BytesOf
  <2>3. load'.pc \notin {"after", "publish"}
    BY <1>4
  <2>4. QED
    BY <1>s, <1>2, <1>9, <2>1, <2>2, <2>3 DEF LoadInv
<1>11. LockInv'
  <2>1. \A j \in DOMAIN load'.before : ref.pc = "loading" => load'.before[j] = disk[Loaded[j]].stamp
    BY <1>1, <1>6, <1>8 DEF LockInv, RefreshReloadUndisturbed
  <2>2. load.pc # "idle" /\ load'.pc # "idle"
    BY <1>2, <1>4
  <2>3. QED
    BY <1>s, <1>2, <2>1, <2>2 DEF LockInv, RefreshReloadUndisturbed
<1>12. DocInv'
  <2>1. \A j \in DOMAIN load'.before : Loaded[j] = Doc => load'.before[j] = disk[Doc].stamp
    BY <1>1, <1>6, <1>8 DEF DocInv
  <2>2. QED
    BY <1>s, <1>2, <1>9, <2>1 DEF DocInv, Edited
<1>13. QED
  BY <1>7, <1>10, <1>11, <1>12

(* A document is read. *)
LEMMA ReadBytesKeepsLoads ==
  ASSUME FileTypes, CallTypes, LoadTypes, LoadInv, LockInv, DocInv, setup' = setup, ReadBytes
  PROVE  CallTypes' /\ LoadTypes' /\ LoadInv' /\ LockInv' /\ DocInv'
<1>s. Source' = Source /\ Loaded' = Loaded /\ Snapshot' = Snapshot /\ File' = File
  BY FilesStay
<1>0. /\ load.pc = "read" /\ UNCHANGED <<disk, clock, served>>
  BY DEF ReadBytes, LoadStep, fileVars
<1>1. PICK f \in File : f = Loaded[load.i]
  BY <1>0, Gathered DEF LoadTypes
<1>2. CASE Fault /\ Release(FALSE)
  BY <1>0, <1>2, ReleaseKeepsLoads DEF fileVars
<1>3. CASE Continue([Step("after") EXCEPT !.seen = Append(@, disk[f].bytes)])
  <2>1. /\ UNCHANGED <<lock, ref, alias, acked>>
        /\ load' = [Step("after") EXCEPT !.seen = Append(@, disk[f].bytes)]
    BY <1>3 DEF Continue
  <2>2. Step("after") = IF load.i < Len(Loaded) THEN [load EXCEPT !.i = @ + 1] ELSE [load EXCEPT !.pc = "after", !.i = 1]
    BY DEF Step
  <2>3. /\ DOMAIN load' = DOMAIN load /\ load'.seen = Append(load.seen, disk[f].bytes)
        /\ load'.instant = load.instant /\ load'.before = load.before
        /\ load.i < Len(Loaded) => load'.pc = "read" /\ load'.i = load.i + 1
        /\ ~(load.i < Len(Loaded)) => load'.pc = "after" /\ load'.i = 1
    BY <1>0, <2>1, <2>2 DEF LoadTypes, NoLoad
  <2>4. /\ load.before \in Seq(Nat) /\ Len(load.seen) = load.i - 1 /\ load.seen \in Seq(Bytes)
        /\ Len(load.before) = Len(Loaded)
        /\ load.i \in Nat \ {0} /\ load.i <= Len(Loaded) /\ Len(Loaded) \in Nat \ {0} /\ disk[f].bytes \in Bytes
    BY <1>0, Gathered DEF LoadTypes, FileTypes
  <2>5. /\ load'.seen \in Seq(Bytes) /\ Len(load'.seen) = load.i /\ DOMAIN load'.seen = 1..load.i
        /\ load'.seen[load.i] = disk[f].bytes
        /\ \A j \in 1..(load.i - 1) : j \in DOMAIN load.seen /\ load'.seen[j] = load.seen[j]
    BY <2>3, <2>4
  <2>6. CallTypes' /\ LoadTypes'
    <3>1. CallTypes'
      BY <2>1 DEF CallTypes
    <3>2. LoadTypes'
      BY <1>s, <2>3, <2>4, <2>5 DEF LoadTypes, NoLoad
    <3>3. QED
      BY <3>1, <3>2
  <2>7. \A j \in 1..load.i : j = load.i \/ j \in 1..(load.i - 1)
    BY <2>4
  <2>8. LoadInv'
    <3>1. \A j \in DOMAIN load.before : (Past(Loaded[j], load.before[j]))'
      <4>1. SUFFICES ASSUME NEW j \in DOMAIN load.before PROVE (Past(Loaded[j], load.before[j]))'
        BY <2>3
      <4>2. PICK g, n : g = Loaded[j] /\ n = load.before[j]
        OBVIOUS
      <4>3. Past(g, n) /\ Loaded'[j] = g /\ load'.before[j] = n
        BY <1>s, <2>3, <4>2 DEF LoadInv
      <4>4. (Past(g, n))'
        BY <1>0, <2>1, <4>3 DEF Past, Ahead
      <4>5. QED
        BY <4>3, <4>4 DEF Past
    <3>2. ASSUME NEW j \in DOMAIN Loaded, load.before[j] # Absent, disk[Loaded[j]].stamp = load.before[j]
          PROVE  /\ disk[Loaded[j]].bytes = load.instant[Loaded[j]]
                 /\ j \in DOMAIN load'.seen => load'.seen[j] = load.instant[Loaded[j]]
      <4>1. /\ disk[Loaded[j]].bytes = load.instant[Loaded[j]]
            /\ j \in DOMAIN load.seen => load.seen[j] = load.instant[Loaded[j]]
        BY <1>0, <3>2 DEF LoadInv
      <4>2. QED
        BY <1>1, <2>5, <2>7, <4>1
    <3>3. load'.pc # "publish" /\ (load'.pc = "after" => load'.i = 1)
      BY <2>3
    <3>4. \A j \in DOMAIN Loaded : ~(j < 1)
      BY Gathered
    <3>5. QED
      BY <1>s, <1>0, <2>3, <3>1, <3>2, <3>3, <3>4 DEF LoadInv
  <2>9. LockInv'
    <3>1. load.pc # "idle" /\ load'.pc # "idle"
      BY <1>0, <2>3
    <3>2. QED
      BY <1>s, <1>0, <2>1, <2>3, <3>1 DEF LockInv, RefreshReloadUndisturbed
  <2>10. DocInv'
    <3>1. \A j \in DOMAIN load'.seen : Loaded[j] = Doc => load'.seen[j] = disk[Doc].bytes
      BY <1>1, <2>5, <2>7 DEF DocInv
    <3>2. QED
      BY <1>s, <1>0, <2>1, <2>3, <3>1 DEF DocInv, Edited
  <2>11. QED
    BY <2>6, <2>8, <2>9, <2>10
<1>4. QED
  BY <1>1, <1>2, <1>3 DEF ReadBytes

(* The second look. *)
LEMMA CompareKeepsLoads ==
  ASSUME FileTypes, CallTypes, LoadTypes, LoadInv, LockInv, DocInv, setup' = setup, CompareRevision
  PROVE  CallTypes' /\ LoadTypes' /\ LoadInv' /\ LockInv' /\ DocInv'
<1>s. Source' = Source /\ Loaded' = Loaded /\ Snapshot' = Snapshot /\ File' = File
  BY FilesStay
<1>0. /\ load.pc = "after" /\ UNCHANGED <<disk, clock, served>>
  BY DEF CompareRevision, LoadStep, fileVars
<1>1. PICK f \in File : f = Loaded[load.i]
  BY <1>0, Gathered DEF LoadTypes
<1>2. CASE Fine /\ Release(FALSE)
  BY <1>0, <1>2, ReleaseKeepsLoads DEF fileVars
<1>3. CASE load.before[load.i] = disk[f].stamp /\ Continue(Step("publish"))
  <2>1. /\ UNCHANGED <<lock, ref, alias, acked>> /\ load' = Step("publish")
    BY <1>3 DEF Continue
  <2>2. Step("publish") = IF load.i < Len(Loaded) THEN [load EXCEPT !.i = @ + 1]
                                                  ELSE [load EXCEPT !.pc = "publish", !.i = 1]
    BY DEF Step
  <2>3. /\ DOMAIN load' = DOMAIN load /\ load'.seen = load.seen
        /\ load'.instant = load.instant /\ load'.before = load.before
        /\ load.i < Len(Loaded) => load'.pc = "after" /\ load'.i = load.i + 1
        /\ ~(load.i < Len(Loaded)) => load'.pc = "publish" /\ load'.i = 1
    BY <1>0, <2>1, <2>2 DEF LoadTypes, NoLoad
  <2>4. /\ load.i \in Nat \ {0} /\ load.i <= Len(Loaded) /\ Len(Loaded) \in Nat \ {0}
        /\ DOMAIN load.seen = DOMAIN Loaded /\ DOMAIN Loaded = 1..Len(Loaded) /\ DOMAIN load.before = DOMAIN Loaded
    BY <1>0, Gathered DEF LoadTypes
  <2>5. CallTypes' /\ LoadTypes'
    <3>1. CallTypes'
      BY <2>1 DEF CallTypes
    <3>2. LoadTypes'
      BY <1>s, <1>0, <2>3, <2>4 DEF LoadTypes, NoLoad
    <3>3. QED
      BY <3>1, <3>2
  <2>6. LoadInv'
    <3>1. \A j \in DOMAIN load.before : (Past(Loaded[j], load.before[j]))'
      <4>1. SUFFICES ASSUME NEW j \in DOMAIN load.before PROVE (Past(Loaded[j], load.before[j]))'
        BY <2>3
      <4>2. PICK g, n : g = Loaded[j] /\ n = load.before[j]
        OBVIOUS
      <4>3. Past(g, n) /\ Loaded'[j] = g /\ load'.before[j] = n
        BY <1>s, <2>3, <4>2 DEF LoadInv
      <4>4. (Past(g, n))'
        BY <1>0, <2>1, <4>3 DEF Past, Ahead
      <4>5. QED
        BY <4>3, <4>4 DEF Past
    <3>2. \A j \in DOMAIN Loaded :
            load.before[j] # Absent /\ disk[Loaded[j]].stamp = load.before[j] =>
              disk[Loaded[j]].bytes = load.instant[Loaded[j]] /\ load.seen[j] = load.instant[Loaded[j]]
      BY <1>0, <2>4 DEF LoadInv
    <3>3. ASSUME NEW j \in DOMAIN Loaded, load.before[j] # Absent, load'.pc = "after" => j < load'.i
          PROVE  load.seen[j] = load.instant[Loaded[j]]
      <4>1. j = load.i \/ j < load.i
        BY <2>3, <2>4, <3>3
      <4>2. CASE j = load.i
        BY <1>1, <1>3, <3>2, <3>3, <4>2
      <4>3. CASE j < load.i
        BY <1>0, <3>3, <4>3 DEF LoadInv
      <4>4. QED
        BY <4>1, <4>2, <4>3
    <3>4. QED
      BY <1>s, <1>0, <2>3, <3>1, <3>2, <3>3 DEF LoadInv
  <2>7. LockInv'
    <3>1. load.pc # "idle" /\ load'.pc # "idle"
      BY <1>0, <2>3
    <3>2. QED
      BY <1>s, <1>0, <2>1, <2>3, <3>1 DEF LockInv, RefreshReloadUndisturbed
  <2>8. DocInv'
    BY <1>s, <1>0, <2>1, <2>3 DEF DocInv, Edited
  <2>9. QED
    BY <2>5, <2>6, <2>7, <2>8
<1>4. QED
  BY <1>1, <1>2, <1>3 DEF CompareRevision

(* What the new snapshot has of a file is what the load saw of it. *)
LEMMA Published ==
  ASSUME FileTypes, LoadTypes, PublishSnapshot
  PROVE  \A f \in Snapshot : \E j \in DOMAIN Loaded :
           Loaded[j] = f /\ served'.bytes[f] = load.seen[j] /\ served'.rev[f] = load.before[j]
<1> DEFINE at(f) == CHOOSE j \in DOMAIN Loaded : Loaded[j] = f
<1>1. served' = [bytes |-> [f \in Snapshot |-> load.seen[at(f)]],
                 rev   |-> [f \in Snapshot |-> load.before[at(f)]]]
  BY DEF PublishSnapshot
<1>2. ASSUME NEW f \in Snapshot PROVE at(f) \in DOMAIN Loaded /\ Loaded[at(f)] = f
  <2>1. \E j \in DOMAIN Loaded : Loaded[j] = f
    BY DEF Snapshot, ToSet
  <2>2. QED
    BY <2>1
<1>3. \A f \in Snapshot : served'.bytes[f] = load.seen[at(f)] /\ served'.rev[f] = load.before[at(f)]
  BY <1>1
<1> HIDE DEF at
<1>4. QED
  BY <1>2, <1>3

(* What is published is what the files of the load say of the alias        *)
(* document.                                                               *)
LEMMA PublishKeepsLoads ==
  ASSUME FileTypes, CallTypes, LoadTypes, LoadInv, LockInv, DocInv, setup' = setup, PublishSnapshot
  PROVE  CallTypes' /\ LoadTypes' /\ LoadInv' /\ LockInv' /\ DocInv'
<1>1. load.pc = "publish" /\ UNCHANGED fileVars /\ Release(TRUE)
  BY DEF PublishSnapshot
<1>2. DOMAIN load.seen = DOMAIN Loaded /\ DOMAIN load.before = DOMAIN Loaded /\ Doc \in Snapshot
  BY <1>1, Gathered, FileFacts DEF LoadTypes, FileTypes
<1>3. served'.rev[Doc] = disk[Doc].stamp /\ served'.bytes[Doc] = disk[Doc].bytes
  <2>1. PICK j \in DOMAIN Loaded :
          Loaded[j] = Doc /\ served'.bytes[Doc] = load.seen[j] /\ served'.rev[Doc] = load.before[j]
    BY <1>2, Published
  <2>2. QED
    BY <1>2, <2>1 DEF DocInv
<1>4. lock \in Caller => alias[lock].pc = "load"
  BY <1>1, CallerAssumption DEF LockInv
<1>5. QED
  BY <1>1, <1>3, <1>4, ReleaseKeepsLoads

(* A load begins. *)
LEMMA BegunIsEmpty ==
  ASSUME FileTypes, setup' = setup, load' = Begun
  PROVE  /\ LoadTypes' /\ LoadInv' /\ load'.pc = "before"
         /\ DOMAIN load'.before = {} /\ DOMAIN load'.seen = {}
<1>s. Source' = Source /\ Loaded' = Loaded /\ Snapshot' = Snapshot /\ File' = File
  BY FilesStay
<1>1. load'.pc = "before" /\ load'.before = <<>> /\ load'.seen = <<>> /\ load'.i = 1 /\ DOMAIN load' = DOMAIN NoLoad
  BY DEF Begun, NoLoad
<1>2. DOMAIN load'.before = {} /\ DOMAIN load'.seen = {} /\ Len(load'.before) = 0 /\ Len(load'.seen) = 0
  BY <1>1
<1>3. <<>> \in Seq(Nat) /\ <<>> \in Seq(Bytes)
  OBVIOUS
<1>4. Len(Loaded) >= 1
  <2>1. Loaded \in Seq(File) /\ Doc \in Snapshot
    BY FileFacts DEF FileTypes
  <2>2. \E j \in DOMAIN Loaded : Loaded[j] = Doc
    BY <2>1 DEF Snapshot, ToSet
  <2>3. QED
    BY <2>1, <2>2
<1>5. DOMAIN load' = DOMAIN NoLoad'
  BY <1>1 DEF NoLoad
<1>6. LoadTypes'
  BY <1>s, <1>1, <1>2, <1>3, <1>4, <1>5 DEF LoadTypes
<1>7. LoadInv'
  BY <1>1, <1>2 DEF LoadInv
<1>8. QED
  BY <1>1, <1>2, <1>6, <1>7

(* The reload of the refresh starts with the lock and nothing read. *)
LEMMA ReloadKeepsLoads ==
  ASSUME FileTypes, CallTypes, LoadTypes, LoadInv, LockInv, DocInv, RefTypes, setup' = setup, Reload
  PROVE  CallTypes' /\ LoadTypes' /\ LoadInv' /\ LockInv' /\ DocInv'
<1>1. /\ lock = "free" /\ lock' = "refresh" /\ load' = Begun /\ ref'.pc = "loading"
      /\ UNCHANGED <<disk, clock, served, alias, acked>>
  BY DEF Reload, fileVars, RefTypes, NoRef
<1>2. /\ LoadTypes' /\ LoadInv' /\ load'.pc = "before" /\ DOMAIN load'.before = {} /\ DOMAIN load'.seen = {}
  BY <1>1, BegunIsEmpty
<1>3. CallTypes'
  BY <1>1 DEF CallTypes
<1>4. LockInv'
  BY <1>1, <1>2, CallerAssumption DEF LockInv, RefreshReloadUndisturbed
<1>5. DocInv'
  BY <1>1, <1>2 DEF DocInv, Edited
<1>6. QED
  BY <1>2, <1>3, <1>4, <1>5

-----------------------------------------------------------------------------
(* The alias calls.                                                          *)

(* An alias call gets the lock only when nobody has it. *)
LEMMA BeginAliasKeepsLoads ==
  ASSUME FileTypes, CallTypes, LoadTypes, StampInv, LoadInv, LockInv, DocInv, setup' = setup,
         NEW c \in Caller, BeginAlias(c)
  PROVE  CallTypes' /\ LoadTypes' /\ LoadInv' /\ LockInv' /\ DocInv'
<1>1. PICK a \in Alias, op \in {"in", "out"} :
        alias' = [alias EXCEPT ![c] = [pc |-> "edit", op |-> op, what |-> {a}]]
  BY DEF BeginAlias
<1>2. lock = "free" /\ lock' = c /\ UNCHANGED <<disk, clock, served, load, ref, acked>>
  BY DEF BeginAlias, AliasStep, fileVars
<1>3. /\ CallTypes' /\ alias'[c].pc = "edit" /\ \A d \in Caller \ {c} : alias'[d] = alias[d]
  BY <1>1, <1>2 DEF CallTypes
<1>4. NewStamps
  BY <1>2, FilesKeptStamps
<1>5. LoadTypes' /\ LoadInv'
  BY <1>2, <1>4, LoadUndisturbed DEF FileTypes
<1>6. load.pc = "idle"
  BY <1>2, CallerAssumption DEF LockInv
<1>7. LockInv'
  BY <1>2, <1>3, <1>6, CallerAssumption DEF LockInv, RefreshReloadUndisturbed
<1>8. DocInv'
  BY <1>2, <1>3, FilesStay DEF DocInv, Edited
<1>9. QED
  BY <1>3, <1>5, <1>7, <1>8

(* An edit makes the document what the call asked for and takes back what  *)
(* was told of the alias.                                                  *)
LEMMA EditKeepsLoads ==
  ASSUME FileTypes, CallTypes, LoadTypes, RefTypes, FilesInv, StampInv, LoadInv, LockInv, DocInv, setup' = setup,
         NEW c \in Caller, Edit(c)
  PROVE  CallTypes' /\ LoadTypes' /\ LoadInv' /\ LockInv' /\ DocInv'
<1>s. Source' = Source /\ Loaded' = Loaded /\ Snapshot' = Snapshot /\ File' = File
  BY FilesStay
<1>1. alias[c].pc = "edit" /\ lock = c /\ UNCHANGED <<served, upstream, torn>> /\ c \notin {"free", "refresh"}
  BY CallerAssumption DEF Edit, AliasStep
<1>2. load.pc = "idle" /\ ref.pc # "loading" /\ \A d \in Caller \ {c} : alias[d].pc = "idle"
  BY <1>1 DEF LockInv
<1>3. ASSUME Release(FALSE), UNCHANGED fileVars PROVE CallTypes' /\ LoadTypes' /\ LoadInv' /\ LockInv' /\ DocInv'
  BY <1>1, <1>3, ReleaseKeepsLoads
<1>4. CASE /\ Edited(c) = disk[Doc].bytes /\ alias[c].op = "in"
           /\ alias' = [alias EXCEPT ![c].pc = "check"] /\ UNCHANGED <<lock, load, ref, acked, fileVars>>
  <2>1. /\ CallTypes' /\ alias'[c].pc = "check" /\ alias'[c].op = alias[c].op /\ alias'[c].what = alias[c].what
        /\ \A d \in Caller \ {c} : alias'[d] = alias[d]
    BY <1>4 DEF CallTypes
  <2>2. LoadTypes' /\ LoadInv'
    <3>1. UNCHANGED <<disk, clock>>
      BY <1>4 DEF fileVars
    <3>2. NewStamps
      BY <1>4, <3>1, FilesKeptStamps
    <3>3. QED
      BY <1>4, <3>1, <3>2, LoadUndisturbed DEF FileTypes
  <2>3. LockInv'
    BY <1>1, <1>2, <1>4, <2>1 DEF LockInv, RefreshReloadUndisturbed
  <2>4. DocInv'
    BY <1>s, <1>1, <1>2, <1>4, <2>1 DEF DocInv, Edited, fileVars
  <2>5. QED
    BY <2>1, <2>2, <2>3, <2>4
<1>5. CASE /\ clock' = clock + 1
           /\ disk' = [disk EXCEPT ![Doc] = [bytes |-> Edited(c), stamp |-> clock + 1]]
           /\ \/ alias' = [alias EXCEPT ![c].pc = "load"] /\ load' = Begun /\ UNCHANGED <<lock, ref>>
              \/ lock' = "free" /\ alias' = [alias EXCEPT ![c] = NoCall] /\ UNCHANGED <<load, ref>>
           /\ acked' = [a \in Alias |-> IF a \in alias[c].what THEN "unknown" ELSE acked[a]]
  <2>1. Edited(c) \in SUBSET Alias /\ Doc \in File /\ clock \in Nat /\ disk[Doc].stamp \in 0..clock
    BY FileFacts DEF Edited, FileTypes, CallTypes
  <2>2. PICK bytes \in SUBSET Alias : bytes = Edited(c)
    BY <2>1
  <2>3. disk' = [disk EXCEPT ![Doc] = [bytes |-> bytes, stamp |-> clock + 1]] /\ UNCHANGED ref
    BY <1>5, <2>2
  <2>4. disk'[Doc] = [bytes |-> bytes, stamp |-> clock + 1] /\ \A f \in File \ {Doc} : disk'[f] = disk[f]
    BY <2>1, <2>3 DEF FileTypes
  <2>5. FileTypes' /\ NewStamps
    BY <1>1, <1>5, <2>3, EditKeepsFiles
  <2>7. \A a \in Alias : acked'[a] = IF a \in alias[c].what THEN "unknown" ELSE acked[a]
    BY <1>5
  <2>8. ASSUME NEW a \in Alias
        PROVE  /\ acked'[a] = "in"  => a \in bytes /\ a \in served.bytes[Doc]
               /\ acked'[a] = "out" => a \notin bytes /\ a \notin served.bytes[Doc]
    <3>1. a \notin alias[c].what => (a \in bytes <=> a \in disk[Doc].bytes)
      BY <2>2 DEF Edited
    <3>2. QED
      BY <2>7, <3>1 DEF DocInv
  <2>9. served.rev[Doc] \in Nat /\ served.rev[Doc] < clock + 1
    <3>1. served.rev[Doc] \in Nat /\ served.rev[Doc] <= disk[Doc].stamp
      BY DEF DocInv
    <3>2. QED
      BY <2>1, <3>1
  <2>10. CASE alias' = [alias EXCEPT ![c].pc = "load"] /\ load' = Begun /\ UNCHANGED <<lock, ref>>
    <3>1. /\ alias'[c].pc = "load" /\ alias'[c].op = alias[c].op /\ alias'[c].what = alias[c].what
          /\ \A d \in Caller \ {c} : alias'[d] = alias[d]
          /\ CallTypes'
      BY <1>5, <2>10 DEF CallTypes
    <3>2. /\ LoadTypes' /\ LoadInv' /\ load'.pc = "before" /\ DOMAIN load'.before = {} /\ DOMAIN load'.seen = {}
      BY <2>10, BegunIsEmpty
    <3>3. LockInv'
      BY <1>1, <1>2, <2>10, <3>1, <3>2 DEF LockInv, RefreshReloadUndisturbed
    <3>4. DocInv'
      <4>1. (Edited(c))' = bytes
        <5>1. (Edited(c))' = IF alias[c].op = "in" THEN bytes \cup alias[c].what ELSE bytes \ alias[c].what
          BY <2>4, <3>1 DEF Edited
        <5>2. QED
          BY <2>2, <5>1 DEF Edited
      <4>2. \A d \in Caller : alias'[d].pc \in {"load", "check"} => d = c
        BY <1>2, <3>1
      <4>3. QED
        <5>1. disk'[Doc].bytes = bytes /\ disk'[Doc].stamp = clock + 1 /\ served' = served
          BY <1>1, <2>4
        <5>2. served'.rev[Doc] # disk'[Doc].stamp /\ served'.rev[Doc] <= disk'[Doc].stamp
          BY <2>1, <2>9, <5>1
        <5>3. \A d \in Caller : alias'[d].pc \in {"load", "check"} => (Edited(d))' = disk'[Doc].bytes
          BY <4>1, <4>2, <5>1
        <5>4. QED
          BY <2>8, <2>9, <3>2, <5>1, <5>2, <5>3 DEF DocInv
    <3>5. QED
      BY <3>1, <3>2, <3>3, <3>4
  <2>11. CASE lock' = "free" /\ alias' = [alias EXCEPT ![c] = NoCall] /\ UNCHANGED <<load, ref>>
    <3>1. /\ \A d \in Caller : alias'[d].pc = "idle"
          /\ CallTypes'
      BY <1>2, <1>5, <2>11 DEF CallTypes, NoCall
    <3>2. LoadTypes' /\ LoadInv'
      BY <1>5, <2>1, <2>5, <2>11, LoadUndisturbed
    <3>3. LockInv'
      BY <1>1, <1>2, <2>11, <3>1, CallerAssumption DEF LockInv, RefreshReloadUndisturbed
    <3>4. DOMAIN load.before = {} /\ DOMAIN load.seen = {}
      BY <1>2 DEF LoadTypes
    <3>5. DocInv'
      <4>1. disk'[Doc].bytes = bytes /\ disk'[Doc].stamp = clock + 1 /\ served' = served /\ load' = load
        BY <1>1, <2>4, <2>11
      <4>2. served'.rev[Doc] # disk'[Doc].stamp /\ served'.rev[Doc] <= disk'[Doc].stamp
        BY <2>1, <2>9, <4>1
      <4>3. QED
        BY <2>8, <2>9, <3>1, <3>4, <4>1, <4>2 DEF DocInv
    <3>6. QED
      BY <3>1, <3>2, <3>3, <3>5
  <2>12. QED
    BY <1>5, <2>10, <2>11
<1>6. QED
  BY <1>3, <1>4, <1>5 DEF Edit

(* A call is answered without a reload only if the snapshot has the        *)
(* revision of the document.                                               *)
LEMMA CheckKeepsLoads ==
  ASSUME FileTypes, CallTypes, LoadTypes, StampInv, LoadInv, LockInv, DocInv, setup' = setup,
         NEW c \in Caller, Check(c)
  PROVE  CallTypes' /\ LoadTypes' /\ LoadInv' /\ LockInv' /\ DocInv'
<1>1. alias[c].pc = "check" /\ UNCHANGED <<served, fileVars>> /\ lock = c /\ c \notin {"free", "refresh"}
  BY CallerAssumption DEF Check, AliasStep, LockInv
<1>2. CASE (\A f \in Snapshot : served.rev[f] = disk[f].stamp) /\ Release(TRUE)
  <2>1. served.rev[Doc] = disk[Doc].stamp
    BY <1>2, FileFacts DEF FileTypes
  <2>2. served'.bytes[Doc] = disk[Doc].bytes
    BY <1>1, <2>1 DEF DocInv
  <2>3. QED
    BY <1>1, <1>2, <2>2, ReleaseKeepsLoads
<1>3. CASE alias' = [alias EXCEPT ![c].pc = "load"] /\ load' = Begun /\ UNCHANGED <<lock, ref, acked>>
  <2>1. /\ alias'[c].pc = "load" /\ alias'[c].op = alias[c].op /\ alias'[c].what = alias[c].what
        /\ \A d \in Caller \ {c} : alias'[d] = alias[d]
        /\ CallTypes'
    BY <1>3 DEF CallTypes
  <2>2. /\ LoadTypes' /\ LoadInv' /\ load'.pc = "before" /\ DOMAIN load'.before = {} /\ DOMAIN load'.seen = {}
    BY <1>3, BegunIsEmpty
  <2>3. LockInv'
    BY <1>1, <1>3, <2>1, <2>2 DEF LockInv, RefreshReloadUndisturbed
  <2>4. DocInv'
    <3>1. UNCHANGED <<disk, served, acked>>
      BY <1>1, <1>3 DEF fileVars
    <3>2. \A d \in Caller : (Edited(d))' = Edited(d)
      BY <2>1, <3>1 DEF Edited
    <3>3. \A d \in Caller : alias'[d].pc \in {"load", "check"} => alias[d].pc \in {"load", "check"}
      BY <1>1, <2>1
    <3>4. QED
      BY <2>2, <3>1, <3>2, <3>3 DEF DocInv
  <2>5. QED
    BY <2>1, <2>2, <2>3, <2>4
<1>4. QED
  BY <1>2, <1>3 DEF Check

-----------------------------------------------------------------------------
(* Kills and starts.                                                         *)

(* A kill ends every load and every call. *)
LEMMA CrashKeepsLoads ==
  ASSUME FileTypes, CallTypes, LoadTypes, LockInv, DocInv, setup' = setup, Crash
  PROVE  CallTypes' /\ LoadTypes' /\ LoadInv' /\ LockInv' /\ DocInv'
<1>1. /\ lock' = "free" /\ load' = NoLoad /\ ref' = NoRef /\ alias' = [c \in Caller |-> NoCall]
      /\ UNCHANGED <<disk, clock, served, acked>>
  BY DEF Crash, fileVars
<1>2. /\ load'.pc = "idle" /\ load'.before = <<>> /\ load'.seen = <<>> /\ load'.i = 1 /\ DOMAIN load' = DOMAIN NoLoad
      /\ ref'.pc = "idle" /\ \A c \in Caller : alias'[c].pc = "idle"
  BY <1>1 DEF NoLoad, NoRef, NoCall
<1>3. DOMAIN load'.before = {} /\ DOMAIN load'.seen = {} /\ <<>> \in Seq(Nat) /\ <<>> \in Seq(Bytes)
  BY <1>2
<1>4. DOMAIN load' = DOMAIN NoLoad'
  BY <1>2 DEF NoLoad
<1>5. CallTypes'
  BY <1>1 DEF CallTypes, NoCall
<1>6. LoadTypes' /\ LoadInv'
  BY <1>2, <1>3, <1>4 DEF LoadTypes, LoadInv
<1>7. LockInv'
  BY <1>1, <1>2, <1>3, CallerAssumption DEF LockInv, RefreshReloadUndisturbed
<1>8. DocInv'
  BY <1>1, <1>2, <1>3 DEF DocInv
<1>9. QED
  BY <1>5, <1>6, <1>7, <1>8

(* Only the snapshot changes, to the files on disk, or nothing at all. *)
LEMMA StartKeepsLoads ==
  ASSUME FileTypes, CallTypes, LoadTypes, StampInv, LoadInv, LockInv, DocInv, setup' = setup,
         UNCHANGED <<fileVars, lock, load, ref, alias, acked>>,
         \/ UNCHANGED served
         \/ served' = [bytes |-> BytesOf(Snapshot), rev |-> [f \in Snapshot |-> disk[f].stamp]]
  PROVE  CallTypes' /\ LoadTypes' /\ LoadInv' /\ LockInv' /\ DocInv'
<1>s. Source' = Source /\ Loaded' = Loaded /\ Snapshot' = Snapshot /\ File' = File
  BY FilesStay
<1>1. UNCHANGED <<disk, clock>>
  BY DEF fileVars
<1>2. CallTypes'
  BY DEF CallTypes
<1>3. NewStamps
  BY <1>1, FilesKeptStamps
<1>4. LoadTypes' /\ LoadInv'
  BY <1>1, <1>3, LoadUndisturbed DEF FileTypes
<1>5. LockInv'
  BY <1>s, <1>1 DEF LockInv, RefreshReloadUndisturbed
<1>6. UNCHANGED served \/ (served'.bytes[Doc] = disk[Doc].bytes /\ served'.rev[Doc] = disk[Doc].stamp)
  BY FileFacts DEF BytesOf, FileTypes
<1>7. disk[Doc].stamp \in Nat
  BY FileFacts DEF FileTypes
<1>8. DocInv'
  BY <1>s, <1>1, <1>6, <1>7 DEF DocInv, Edited
<1>9. QED
  BY <1>2, <1>4, <1>5, <1>8

-----------------------------------------------------------------------------
(* The invariant.                                                            *)

PublishInv ==
  /\ FileTypes /\ CallTypes /\ RefTypes /\ LoadTypes
  /\ FilesInv /\ StampInv /\ LoadInv /\ LockInv /\ DocInv

(* The process starts in the invariant. *)
LEMMA InitHolds == Init => PublishInv
<1> SUFFICES ASSUME Init PROVE PublishInv
  OBVIOUS
<1>1. PICK x \in Setups, gone \in SUBSET Optional, tagged \in BOOLEAN :
        /\ setup = x /\ gone \subseteq File /\ (tagged => Source \cap Tagged # {})
        /\ disk = [f \in File |->
                     [bytes |-> IF f = Doc THEN {} ELSE
                                IF f \in gone \/ (f = EtagFile /\ ~tagged) THEN Missing ELSE 0,
                      stamp |-> IF f \in gone THEN Absent ELSE 1]]
        /\ served = [bytes |-> BytesOf(Snapshot), rev |-> [f \in Snapshot |-> disk[f].stamp]]
        /\ clock = 1 /\ upstream = [s \in Source |-> 0] /\ lock = "free" /\ load = NoLoad /\ ref = NoRef
        /\ alias = [c \in Caller |-> NoCall] /\ acked = [a \in Alias |-> "unknown"] /\ torn = {}
  BY DEF Init
<1>2. /\ Doc \in File /\ EtagFile \in File /\ Doc # EtagFile /\ Doc \in Snapshot
      /\ \A s \in Source : ToSet(Targets[s]) \subseteq File \ {Doc, EtagFile}
  BY <1>1, FileFacts, TargetsAssumption
<1>3. \A f \in File : /\ disk[f].stamp \in 0..1
                      /\ f = Doc => disk[f].bytes = {}
                      /\ f # Doc => disk[f].bytes = IF f \in gone \/ (f = EtagFile /\ ~tagged) THEN -1 ELSE 0
                      /\ disk[f] \in [bytes : Bytes, stamp : 0..1]
  <2>1. ASSUME NEW f \in File
        PROVE  /\ disk[f].stamp \in 0..1
               /\ f = Doc => disk[f].bytes = {}
               /\ f # Doc => disk[f].bytes = IF f \in gone \/ (f = EtagFile /\ ~tagged) THEN -1 ELSE 0
               /\ disk[f] \in [bytes : Bytes, stamp : 0..1]
    <3>1. disk[f] = [bytes |-> IF f = Doc THEN {} ELSE
                                IF f \in gone \/ (f = EtagFile /\ ~tagged) THEN -1 ELSE 0,
                      stamp |-> IF f \in gone THEN 0 ELSE 1]
      BY <1>1 DEF Missing, Absent
    <3>2. {} \in Bytes /\ -1 \in Bytes /\ 0 \in Bytes
      BY DEF Bytes
    <3>3. QED
      BY <3>1, <3>2
  <2>2. QED
    BY <2>1
<1>4. FileTypes
  <2>1. disk \in [File -> [bytes : Bytes, stamp : 0..1]]
    BY <1>1, <1>3
  <2>2. \A f \in File \ {Doc} : disk[f].bytes \in Int
    BY <1>3
  <2>3. QED
    BY <1>1, <1>2, <1>3, <2>1, <2>2 DEF FileTypes
<1>5. CallTypes
  BY <1>1 DEF CallTypes, NoCall
<1>6. RefTypes
  BY <1>1 DEF RefTypes, NoRef, Busy
<1>7. load.before = <<>> /\ load.seen = <<>> /\ load.pc = "idle" /\ load.i = 1
  BY <1>1 DEF NoLoad
<1>8. LoadTypes
  <2>1. <<>> \in Seq(Nat) /\ <<>> \in Seq(Bytes)
    OBVIOUS
  <2>2. QED
    BY <1>1, <1>7, <2>1 DEF LoadTypes
<1>9. FilesInv
  <2>1. ASSUME NEW s \in Source, NEW f \in ToSet(Targets[s])
        PROVE  /\ disk[f].bytes \in {-1, 0} /\ disk[f].bytes <= upstream[s]
               /\ s \in Tagged => disk[f].bytes = 0
    <3>1. f \in File \ {Doc, EtagFile} /\ upstream[s] = 0
      BY <1>1, <1>2
    <3>2. s \in Tagged => f \notin gone
      BY <1>1, FileFacts, TargetsAssumption
    <3>3. QED
      BY <1>3, <3>1, <3>2
  <2>2. ASSUME NEW s \in Source, NEW f \in ToSet(Targets[s]), NEW g \in ToSet(Targets[s])
        PROVE  disk[f].bytes = disk[g].bytes
    <3>1. CASE ToSet(Targets[s]) \cap Optional = {}
      <4>1. f \notin gone /\ g \notin gone /\ f \in File \ {Doc, EtagFile} /\ g \in File \ {Doc, EtagFile}
        BY <1>1, <1>2, <3>1
      <4>2. QED
        BY <1>3, <4>1
    <3>2. CASE ToSet(Targets[s]) \cap Optional # {}
      <4>1. Len(Targets[s]) = 1 /\ Targets[s] \in Seq(ToSet(Targets[s]))
        BY <1>1, <3>2, FileFacts, TargetsAssumption
      <4>2. DOMAIN Targets[s] = {1}
        BY <4>1
      <4>3. f = g
        BY <4>2 DEF ToSet
      <4>4. QED
        BY <4>3
    <3>3. QED
      BY <3>1, <3>2
  <2>3. disk[EtagFile].bytes \in {-1, 0}
    BY <1>2, <1>3
  <2>4. EtagNeverAhead
    BY <2>1, <2>3 DEF EtagNeverAhead
  <2>5. FilesAgree
    BY <2>2 DEF FilesAgree
  <2>6. ref.pc = "idle"
    BY <1>1 DEF NoRef
  <2>7. QED
    BY <2>1, <2>4, <2>5, <2>6 DEF FilesInv, BundlesWhole, Busy
<1>10. StampInv
  <2>1. \A f \in File, n \in Nat : ~Ahead(f, n)
    BY <1>1 DEF Ahead, NoRef
  <2>2. ASSUME NEW f \in File PROVE Past(f, disk[f].stamp)
    <3>1. disk[f].stamp \in 0..1 /\ clock = 1
      BY <1>1, <1>3
    <3>2. ~Ahead(f, disk[f].stamp)
      BY <2>1, <3>1
    <3>3. QED
      BY <3>1, <3>2 DEF Past, Absent
  <2>3. QED
    BY <2>2 DEF StampInv
<1>11. LoadInv
  BY <1>7 DEF LoadInv
<1>12. LockInv
  BY <1>1, <1>7, CallerAssumption DEF LockInv, RefreshReloadUndisturbed, NoCall, NoRef
<1>13. DocInv
  <2>1. served.rev[Doc] = disk[Doc].stamp /\ served.bytes[Doc] = disk[Doc].bytes
    BY <1>1, <1>2 DEF BytesOf
  <2>2. disk[Doc].stamp \in Nat
    BY <1>2, <1>3
  <2>3. QED
    BY <1>1, <1>7, <2>1, <2>2 DEF DocInv, NoCall
<1>14. QED
  BY <1>4, <1>5, <1>6, <1>8, <1>9, <1>10, <1>11, <1>12, <1>13 DEF PublishInv

(* The refresh leaves the alias document alone. *)
LEMMA RefreshSparesDoc ==
  ASSUME PublishInv, Plan \/ Publication \/ Conclude
  PROVE  disk'[Doc] = disk[Doc] /\ ref.pc # "loading" /\ ref'.pc # "loading" /\ clock' \in Nat /\ clock <= clock'
<1>1. FileTypes /\ RefTypes /\ FilesInv /\ Doc \in File /\ clock \in Nat
  BY FileFacts DEF PublishInv, FileTypes
<1>2. CASE Plan
  <2>1. UNCHANGED disk /\ clock' = clock + 1 /\ ref.pc = "idle"
    BY <1>2 DEF Plan
  <2>2. ref'.pc = "source"
    BY <1>2 DEF Plan, NoRef
  <2>3. QED
    BY <1>1, <2>1, <2>2
<1>3. CASE Conclude
  BY <1>1, <1>3 DEF Conclude, fileVars, RefTypes, NoRef
<1>4. ASSUME NEW s \in Source, Prepare(s)
      PROVE  disk'[Doc] = disk[Doc] /\ ref.pc # "loading" /\ ref'.pc # "loading" /\ clock' \in Nat /\ clock <= clock'
  <2>1. UNCHANGED disk /\ ref.pc = "source" /\ (clock' = clock + 2 \/ clock' = clock)
    BY <1>4 DEF Prepare
  <2>2. ref'.pc # "loading"
    BY <1>1, <1>4 DEF Prepare, RefTypes, NoRef, Settled
  <2>3. QED
    BY <1>1, <2>1, <2>2
<1>5. ASSUME NEW s \in Source, Persist(s) \/ Rollback(s)
      PROVE  disk'[Doc] = disk[Doc] /\ ref.pc # "loading" /\ ref'.pc # "loading" /\ clock' \in Nat /\ clock <= clock'
  <2>1. ref.pc \in {"persist", "rollback"} /\ UNCHANGED clock /\ Bundle(s)
    BY <1>1, <1>5 DEF Persist, Rollback, FilesInv, Busy
  <2>2. PICK files : files = ref.files
    OBVIOUS
  <2>3. PICK i : i = ref.i
    OBVIOUS
  <2>4. Len(files) \in Nat /\ \A j \in 1..Len(files) : files[j] # Doc
    BY <1>1, <2>1, <2>2, BundleInFlight
  <2>5. i \in 1..(Len(files) + 1) /\ (ref.pc = "persist" => i <= Len(files))
    BY <2>1, <2>2, <2>3 DEF Bundle
  <2>6. CASE Persist(s)
    <3>1. files[i] # Doc
      BY <2>4, <2>5, <2>6 DEF Persist
    <3>2. disk'[Doc] = disk[Doc]
      <4>1. UNCHANGED disk \/ \E x : disk' = [disk EXCEPT ![files[i]] = x]
        BY <2>2, <2>3, <2>6 DEF Persist
      <4>2. QED
        BY <1>1, <3>1, <4>1 DEF FileTypes
    <3>3. ref'.pc # "loading"
      BY <1>1, <2>6 DEF Persist, RefTypes, NoRef
    <3>4. QED
      BY <1>1, <2>1, <3>2, <3>3
  <2>7. CASE Rollback(s)
    <3>1. UNCHANGED disk \/ (i > 1 /\ \E x : disk' = [disk EXCEPT ![files[i - 1]] = x])
      BY <2>2, <2>3, <2>7 DEF Rollback, RestoreFile
    <3>2. disk'[Doc] = disk[Doc]
      <4>1. i > 1 => files[i - 1] # Doc
        BY <2>4, <2>5
      <4>2. QED
        BY <1>1, <3>1, <4>1 DEF FileTypes
    <3>3. ref'.pc # "loading"
      BY <1>1, <2>7 DEF Rollback, RestoreFile, RefTypes, NoRef
    <3>4. QED
      BY <1>1, <2>1, <3>2, <3>3
  <2>8. QED
    BY <1>5, <2>6, <2>7
<1>6. ASSUME NEW s \in Source, SyncParents(s)
      PROVE  disk'[Doc] = disk[Doc] /\ ref.pc # "loading" /\ ref'.pc # "loading" /\ clock' \in Nat /\ clock <= clock'
  <2>1. UNCHANGED <<disk, clock>> /\ ref.pc = "sync"
    BY <1>6 DEF SyncParents, fileVars
  <2>2. \/ ref' = [ref EXCEPT !.pc = "source", !.changed = TRUE]
        \/ ref' = [ref EXCEPT !.pc = "rollback"]
    BY <1>6 DEF SyncParents
  <2>3. ref'.pc # "loading"
    BY <1>1, <2>2 DEF RefTypes, NoRef
  <2>4. QED
    BY <1>1, <2>1, <2>3
<1>7. ASSUME NEW s \in Source, Touch(s)
      PROVE  disk'[Doc] = disk[Doc] /\ ref.pc # "loading" /\ ref'.pc # "loading" /\ clock' \in Nat /\ clock <= clock'
  <2>1. UNCHANGED clock /\ ref.pc = "source" /\ Doc \notin ToSet(Targets[s])
    BY <1>1, <1>7, FileFacts, TargetsAssumption DEF Touch, FileTypes
  <2>2. disk'[Doc] = disk[Doc]
    BY <1>1, <1>7, <2>1 DEF Touch
  <2>3. ref'.pc # "loading"
    <3>1. ASSUME NEW tagged, ref' = [Settled(s) EXCEPT !.unsafe = @ \cup tagged] PROVE ref'.pc # "loading"
      BY <1>1, <2>1, <3>1 DEF Settled, RefTypes, NoRef
    <3>2. ref' = [Settled(s) EXCEPT !.changed = TRUE] => ref'.pc # "loading"
      BY <1>1, <2>1 DEF Settled, RefTypes, NoRef
    <3>3. QED
      BY <1>7, <3>1, <3>2 DEF Touch
  <2>4. QED
    BY <1>1, <2>1, <2>2, <2>3
<1>8. QED
  BY <1>2, <1>3, <1>4, <1>5, <1>6, <1>7 DEF Publication

(* Steps that leave the files alone and move at most the pc of a refresh     *)
(* that is loading.                                                          *)
LEMMA CallsKeepFiles ==
  ASSUME FileTypes, RefTypes, FilesInv, StampInv, LockInv, setup' = setup, UNCHANGED <<fileVars, upstream, torn>>,
         UNCHANGED ref \/ (lock = "refresh" /\ ref' = [ref EXCEPT !.pc = "idle"])
  PROVE  FileTypes' /\ RefTypes' /\ FilesInv' /\ NewStamps
<1>1. lock = "refresh" => ref.pc = "loading"
  BY DEF LockInv
<1>2. /\ DOMAIN ref' = DOMAIN ref /\ \A x \in DOMAIN ref \ {"pc"} : ref'[x] = ref[x]
      /\ ref'.pc = ref.pc \/ (ref.pc = "loading" /\ ref'.pc = "idle")
  BY <1>1 DEF RefTypes, NoRef
<1>3. UNCHANGED <<disk, clock, upstream, torn>>
  BY DEF fileVars
<1>4. QED
  BY <1>2, <1>3, FilesKept

(* Every step keeps the invariant. *)
LEMMA StepHolds == PublishInv /\ [Next]_vars => PublishInv'
<1> SUFFICES ASSUME PublishInv, [Next]_vars PROVE PublishInv'
  OBVIOUS
<1>t. /\ FileTypes /\ RefTypes /\ FilesInv /\ StampInv
      /\ CallTypes /\ LoadTypes /\ LoadInv /\ LockInv /\ DocInv /\ setup' = setup
  BY SetupStays DEF PublishInv
<1> DEFINE Files == FileTypes' /\ RefTypes' /\ FilesInv' /\ NewStamps
           Loads == CallTypes' /\ LoadTypes' /\ LoadInv' /\ LockInv' /\ DocInv'
<1>d. Files /\ Loads => PublishInv'
  BY <1>t, StampsStayPast DEF PublishInv
<1>r. ASSUME RefreshStep, Plan \/ Publication \/ Conclude, NewStamps PROVE Loads
  BY <1>t, <1>r, RefreshSparesDoc, RefreshKeepsLoads
<1> HIDE DEF Files, Loads
<1>1. CASE Plan
  <2>1. Files /\ RefreshStep
    BY <1>t, <1>1, PlanKeepsFiles DEF Files, Plan
  <2>2. QED
    BY <1>1, <1>d, <1>r, <2>1 DEF Files
<1>2. CASE Publication
  <2>1. ASSUME NEW s \in Source, Prepare(s) PROVE Files /\ RefreshStep
    BY <1>t, <2>1, PrepareKeepsFiles DEF Files, Prepare
  <2>2. ASSUME NEW s \in Source, Persist(s) PROVE Files /\ RefreshStep
    BY <1>t, <2>2, PersistKeepsFiles DEF Files, Persist
  <2>3. ASSUME NEW s \in Source, SyncParents(s) PROVE Files /\ RefreshStep
    BY <1>t, <2>3, SyncKeepsFiles DEF Files, SyncParents
  <2>4. ASSUME NEW s \in Source, Rollback(s) PROVE Files /\ RefreshStep
    BY <1>t, <2>4, RollbackKeepsFiles DEF Files, Rollback
  <2>5. ASSUME NEW s \in Source, Touch(s) PROVE Files /\ RefreshStep
    BY <1>t, <2>5, TouchKeepsFiles DEF Files, Touch
  <2>6. Files /\ RefreshStep
    BY <1>2, <2>1, <2>2, <2>3, <2>4, <2>5 DEF Publication
  <2>7. QED
    BY <1>2, <1>d, <1>r, <2>6 DEF Files
<1>3. CASE Conclude
  <2>1. UNCHANGED <<disk, clock, upstream, torn>> /\ RefreshStep /\ ref.pc = "source"
    BY <1>3 DEF Conclude, RefreshStep, fileVars
  <2>2. /\ DOMAIN ref' = DOMAIN ref /\ \A x \in DOMAIN ref \ {"pc"} : ref'[x] = ref[x]
        /\ ref'.pc \in {"reload", "idle"}
    BY <1>t, <1>3 DEF Conclude, RefTypes, NoRef
  <2>3. Files
    BY <1>t, <2>1, <2>2, FilesKept DEF Files
  <2>4. QED
    BY <1>3, <1>d, <1>r, <2>1, <2>3 DEF Files
<1>4. CASE Reload
  <2>1. UNCHANGED <<disk, clock, upstream, torn>> /\ ref.pc = "reload"
    BY <1>4 DEF Reload, fileVars
  <2>2. /\ DOMAIN ref' = DOMAIN ref /\ \A x \in DOMAIN ref \ {"pc"} : ref'[x] = ref[x]
        /\ ref'.pc = "loading"
    BY <1>t, <1>4 DEF Reload, RefTypes, NoRef
  <2>3. Files
    BY <1>t, <2>1, <2>2, FilesKept DEF Files
  <2>4. QED
    BY <1>t, <1>4, <1>d, <2>3, ReloadKeepsLoads DEF Loads
<1>k. ASSUME UNCHANGED <<fileVars, upstream, torn>>, UNCHANGED ref \/ \E ok \in BOOLEAN : Release(ok)
      PROVE  Files
  <2>1. UNCHANGED ref \/ (lock = "refresh" /\ ref' = [ref EXCEPT !.pc = "idle"])
    BY <1>k DEF Release
  <2>2. QED
    BY <1>t, <1>k, <2>1, CallsKeepFiles DEF Files
<1>5. CASE Load
  <2>1. UNCHANGED <<fileVars, upstream, torn>>
    BY <1>5 DEF Load, ReadRevision, ReadBytes, CompareRevision, PublishSnapshot, LoadStep, fileVars
  <2>2. UNCHANGED ref \/ \E ok \in BOOLEAN : Release(ok)
    BY <1>5 DEF Load, ReadRevision, ReadBytes, CompareRevision, PublishSnapshot, Continue
  <2>3. Loads
    BY <1>t, <1>5, ReadRevisionKeepsLoads, ReadBytesKeepsLoads, CompareKeepsLoads, PublishKeepsLoads DEF Load, Loads
  <2>4. QED
    BY <1>d, <1>k, <2>1, <2>2, <2>3
<1>6. ASSUME NEW c \in Caller, BeginAlias(c) \/ Check(c) PROVE PublishInv'
  <2>1. UNCHANGED <<fileVars, upstream, torn>>
    BY <1>6 DEF BeginAlias, Check, AliasStep
  <2>2. UNCHANGED ref \/ \E ok \in BOOLEAN : Release(ok)
    BY <1>6 DEF BeginAlias, Check
  <2>3. Loads
    BY <1>t, <1>6, BeginAliasKeepsLoads, CheckKeepsLoads DEF Loads
  <2>4. QED
    BY <1>d, <1>k, <2>1, <2>2, <2>3
<1>7. ASSUME NEW c \in Caller, Edit(c) PROVE PublishInv'
  <2>1. Loads
    BY <1>t, <1>7, EditKeepsLoads DEF Loads
  <2>2. UNCHANGED <<upstream, torn>>
    BY <1>7 DEF Edit, AliasStep
  <2>3. \/ UNCHANGED fileVars /\ (UNCHANGED ref \/ \E ok \in BOOLEAN : Release(ok))
        \/ /\ clock' = clock + 1 /\ UNCHANGED ref
           /\ disk' = [disk EXCEPT ![Doc] = [bytes |-> Edited(c), stamp |-> clock + 1]]
    BY <1>7 DEF Edit
  <2>4. Edited(c) \in SUBSET Alias
    BY <1>t DEF Edited, FileTypes, CallTypes
  <2>5. Files
    BY <1>t, <1>k, <2>2, <2>3, <2>4, EditKeepsFiles DEF Files
  <2>6. QED
    BY <1>d, <2>1, <2>5
<1>8. CASE Crash
  BY <1>t, <1>8, <1>d, CrashKeepsFiles, CrashKeepsLoads DEF Files, Loads
<1>9. ASSUME UNCHANGED <<fileVars, lock, load, ref, alias, acked>>,
             \/ UNCHANGED served
             \/ served' = [bytes |-> BytesOf(Snapshot), rev |-> [f \in Snapshot |-> disk[f].stamp]]
      PROVE  Loads
  BY <1>t, <1>9, StartKeepsLoads DEF Loads
<1>10. ASSUME NEW s \in Source, UpstreamMoves(s) PROVE PublishInv'
  <2>1. UNCHANGED <<fileVars, lock, load, ref, alias, acked>> /\ UNCHANGED served
    BY <1>10 DEF UpstreamMoves
  <2>2. Loads
    BY <1>9, <2>1
  <2>3. Files
    BY <1>t, <1>10, UpstreamKeepsFiles DEF Files
  <2>4. QED
    BY <1>d, <2>2, <2>3
<1>11. CASE Start \/ TimePasses \/ Quiet \/ UNCHANGED vars
  <2>1. UNCHANGED <<fileVars, lock, load, ref, alias, acked>> /\ UNCHANGED <<upstream, torn>>
    BY <1>11 DEF Start, TimePasses, Quiet, vars
  <2>2. \/ UNCHANGED served
        \/ served' = [bytes |-> BytesOf(Snapshot), rev |-> [f \in Snapshot |-> disk[f].stamp]]
    BY <1>11 DEF Start, TimePasses, Quiet, vars
  <2>3. Loads
    BY <1>9, <2>1, <2>2
  <2>4. Files
    BY <1>k, <2>1
  <2>5. QED
    BY <1>d, <2>3, <2>4
<1>12. QED
  BY <1>1, <1>2, <1>3, <1>4, <1>5, <1>6, <1>7, <1>8, <1>10, <1>11 DEF Next, Refresh, AliasCall, World

-----------------------------------------------------------------------------
(* The theorems.                                                             *)

(* The files on disk, the publication of a bundle, the load in progress and  *)
(* what was told to callers belong together in every reachable state.        *)
THEOREM PublishInvariant == Spec => []PublishInv
  BY InitHolds, StepHolds, PTL DEF Spec

(* A bundle is published whole or taken back, and its entity tag is never    *)
(* ahead of its document, whatever fails and whenever the process is killed. *)
THEOREM BundlesWholeHolds == Spec => []BundlesWhole
<1>1. PublishInv => BundlesWhole
  BY DEF PublishInv, FilesInv
<1>2. QED
  BY <1>1, PublishInvariant, PTL

(* No file changes under the reload that ends a refresh.                     *)
THEOREM RefreshReloadUndisturbedHolds == Spec => []RefreshReloadUndisturbed
<1>1. PublishInv => RefreshReloadUndisturbed
  BY DEF PublishInv, LockInv
<1>2. QED
  BY <1>1, PublishInvariant, PTL

(* What an alias call was told holds on disk and in the served snapshot.     *)
THEOREM AckedAliasServedHolds == Spec => []AckedAliasServed
<1>1. PublishInv => AckedAliasServed
  BY DEF PublishInv, DocInv, AckedAliasServed
<1>2. QED
  BY <1>1, PublishInvariant, PTL

(* Every published snapshot is a state the directory had at one instant.     *)
THEOREM ServedWasOnDiskHolds == Spec => ServedWasOnDisk
<1> DEFINE Good == served' # served /\ life = "up" =>
              \A f \in Snapshot : served'.rev[f] # Absent => served'.bytes[f] = load.instant[f]
<1>1. ASSUME PublishInv, [Next]_vars PROVE [Good]_vars
  <2>1. CASE served' = served
    BY <2>1
  <2>2. CASE Start
    BY <2>2 DEF Start
  <2>3. CASE PublishSnapshot
    <3>1. load.pc = "publish" /\ FileTypes /\ LoadTypes /\ LoadInv
      BY <1>1, <2>3 DEF PublishInv, PublishSnapshot
    <3>2. ASSUME NEW f \in Snapshot, served'.rev[f] # Absent PROVE served'.bytes[f] = load.instant[f]
      <4>1. PICK j \in DOMAIN Loaded : Loaded[j] = f /\ served'.bytes[f] = load.seen[j] /\ served'.rev[f] = load.before[j]
        BY <2>3, <3>1, Published
      <4>2. QED
        BY <3>1, <3>2, <4>1 DEF LoadInv
    <3>3. QED
      BY <3>2
  <2>4. QED
    <3>1. ASSUME Plan \/ Publication \/ Conclude PROVE served' = served
      BY <3>1 DEF Plan, Publication, Prepare, Persist, SyncParents, Rollback, Touch, Conclude, RefreshStep
    <3>2. ASSUME Reload \/ ReadRevision \/ ReadBytes \/ CompareRevision PROVE served' = served
      BY <3>2 DEF Reload, ReadRevision, ReadBytes, CompareRevision, LoadStep
    <3>3. ASSUME AliasCall PROVE served' = served
      BY <3>3 DEF AliasCall, BeginAlias, Edit, Check, AliasStep
    <3>4. ASSUME TimePasses \/ (\E s \in Source : UpstreamMoves(s)) \/ Crash \/ Quiet \/ UNCHANGED vars PROVE served' = served
      BY <3>4 DEF TimePasses, UpstreamMoves, Crash, Quiet, vars
    <3>5. QED
      BY <1>1, <2>1, <2>2, <2>3, <3>1, <3>2, <3>3, <3>4 DEF Next, Refresh, Load, World
<1>2. QED
  BY <1>1, PublishInvariant, PTL DEF Spec, ServedWasOnDisk

-----------------------------------------------------------------------------
(***************************************************************************)
(* The image directory: no more images are drawn at once than there are    *)
(* render slots, and a cleanup removes only what the policy lets go,       *)
(* however saves, cleanups, failures and kills overlap.                    *)
(***************************************************************************)

(* The inductive invariant.                                                *)

Image == [name : Stem \X Nat \X Nat, by : Render, time : Nat]
Pcs   == {"idle", "waiting", "drawing", "create", "write", "link", "unlink", "secure", "list",
          "listing", "expire", "trim", "done", "failed", "killed"}
RenderRecord == [pc : Pcs, stem : Stem \cup {"none"}, now : Nat, attempt : Nat, time : Nat,
                 listed : SUBSET Image, doomed : SUBSET Image]

Typed ==
  /\ render \in [Render -> RenderRecord] /\ second \in Nat /\ faults \in Nat
  /\ images \subseteq saved /\ saved \subseteq Image /\ IsFiniteSet(saved)
  /\ hidden \subseteq Render

(* The images that are at least as new as i, other than i.                 *)
AsNew(i) == {j \in saved \ {i} : j.time >= i.time}

(* What a cleanup knows of was saved; what it removes has expired by the   *)
(* time of its call, or MaxFiles others at least as new were saved.        *)
Safe(c) ==
  /\ c.listed \subseteq saved /\ c.doomed \subseteq saved
  /\ c.pc # "idle" /\ c.pc \notin {"done", "failed", "killed"} => c.stem \in Stem
  /\ c.pc = "expire" => c.doomed \subseteq ExpiredAt(c.now)
  /\ c.pc = "trim" => \A i \in c.doomed : Cardinality(AsNew(i)) >= MaxFiles
  /\ c.pc \notin {"expire", "trim"} => c.doomed = {}

(* One image at most has a name.                                           *)
NamesApart == \A i, j \in images : i.name = j.name => i = j
(* As many drawings at once as there are permits.                          *)
Over == {"idle", "waiting", "done", "failed", "killed"}
SlotsKept == Cardinality(Working) <= Slots
ImageInv == Typed /\ (\A r \in Render : Safe(render[r])) /\ NamesApart /\ SlotsKept

-----------------------------------------------------------------------------
(* What steps keep.                                                        *)

(* What is safe stays so when more is saved.                               *)
LEMMA SavedGrows ==
  ASSUME saved \subseteq saved', IsFiniteSet(saved'), NEW c, Safe(c)
  PROVE  (Safe(c))'
<1>1. ASSUME NEW i PROVE Cardinality(AsNew(i)) >= MaxFiles => (Cardinality(AsNew(i)) >= MaxFiles)'
  <2>1. AsNew(i) \subseteq {j \in saved' \ {i} : j.time >= i.time}
    BY DEF AsNew
  <2>2. PICK more : more = {j \in saved' \ {i} : j.time >= i.time}
    OBVIOUS
  <2>3. IsFiniteSet(more)
    BY <2>2, FS_Subset
  <2>4. /\ Cardinality(AsNew(i)) \in Nat /\ Cardinality(more) \in Nat
        /\ Cardinality(AsNew(i)) <= Cardinality(more)
    BY <2>1, <2>2, <2>3, FS_Subset, FS_CardinalityType
  <2>5. Cardinality(AsNew(i)) >= MaxFiles => Cardinality(more) >= MaxFiles
    BY <2>4, PolicyAssumption
  <2>6. QED
    BY <2>2, <2>5 DEF AsNew
<1>2. c.pc = "expire" => c.doomed \subseteq (ExpiredAt(c.now))'
  BY DEF Safe, ExpiredAt
<1>3. QED
  BY <1>1, <1>2 DEF Safe

(* A step of a call that saves at most one more image and leaves its call  *)
(* safe keeps the invariant, if a drawing it starts finds a slot.          *)
Moved(r, c) ==
  /\ Becomes(r, c) /\ c \in RenderRecord /\ (Safe(c))'
  /\ c.pc \in Over \/ r \in Working \/ Cardinality(Working) < Slots
Kept ==
  /\ saved \subseteq saved' /\ saved' \subseteq Image /\ IsFiniteSet(saved')
  /\ images' \subseteq saved' /\ hidden' \subseteq Render
  /\ second' \in Nat /\ faults' \in Nat /\ NamesApart'

LEMMA RenderMoves ==
  ASSUME ImageInv, NEW r \in Render, NEW c, Moved(r, c), Kept
  PROVE  ImageInv'
<1>t. render \in [Render -> RenderRecord] /\ (\A q \in Render : Safe(render[q])) /\ SlotsKept
  BY DEF ImageInv, Typed
<1>1. /\ render' \in [Render -> RenderRecord] /\ render'[r] = c
      /\ \A q \in Render \ {r} : render'[q] = render[q]
  BY <1>t DEF Moved, Becomes
<1>2. Typed'
  BY <1>1 DEF Kept, Typed
<1>3. ASSUME NEW q \in Render PROVE (Safe(render[q]))'
  <2>1. CASE q = r
    BY <1>1, <2>1 DEF Moved, Safe, ExpiredAt, AsNew
  <2>2. CASE q # r
    <3>1. PICK d : d = render[q]
      OBVIOUS
    <3>2. (Safe(d))' /\ render'[q] = d
      BY <1>t, <1>1, <1>3, <2>2, <3>1, SavedGrows DEF Kept
    <3>3. QED
      BY <3>2 DEF Safe, ExpiredAt, AsNew
  <2>3. QED
    BY <2>1, <2>2
<1>4. SlotsKept'
  <2>1. IsFiniteSet(Working) /\ Cardinality(Working) \in Nat /\ Cardinality(Working) <= Slots /\ Slots \in Nat
    <3>1. IsFiniteSet(Render)
      BY PolicyAssumption, FS_Interval DEF Render
    <3>2. QED
      BY <1>t, <3>1, PolicyAssumption, FS_Subset, FS_CardinalityType DEF Working, SlotsKept
  <2>2. PICK W : W = {q \in Render : render'[q].pc \notin Over}
    OBVIOUS
  <2>3. W = Working'
    BY <2>2 DEF Working, Over
  <2>4. CASE c.pc \in Over \/ r \in Working
    <3>1. W \subseteq Working
      BY <1>1, <2>2, <2>4 DEF Working, Over
    <3>2. Cardinality(W) \in Nat /\ Cardinality(W) <= Cardinality(Working)
      BY <2>1, <3>1, FS_Subset, FS_CardinalityType
    <3>3. QED
      BY <2>1, <2>3, <3>2 DEF SlotsKept
  <2>5. CASE c.pc \notin Over /\ r \notin Working /\ Cardinality(Working) < Slots
    <3>1. W = Working \cup {r}
      BY <1>1, <2>2, <2>5 DEF Working, Over
    <3>2. Cardinality(W) = Cardinality(Working) + 1
      BY <2>1, <2>5, <3>1, FS_AddElement
    <3>3. QED
      BY <2>1, <2>3, <2>5, <3>2 DEF SlotsKept
  <2>6. QED
    BY <2>4, <2>5 DEF Moved
<1>5. QED
  BY <1>2, <1>3, <1>4 DEF ImageInv, Kept

(* The directory stays, or loses hidden files only.                        *)
LEMMA NothingSaved ==
  ASSUME ImageInv, UNCHANGED <<second, saved>>, images' \subseteq images, hidden' \subseteq Render,
         Works \/ Breaks
  PROVE  Kept
<1>1. faults' \in Nat
  BY DEF ImageInv, Typed, Works, Breaks
<1>2. NamesApart'
  BY DEF ImageInv, NamesApart
<1>3. QED
  BY <1>1, <1>2 DEF ImageInv, Typed, Kept

(* A call that ends knows of nothing any more.                             *)
LEMMA EndsWell ==
  ASSUME ImageInv, Kept, NEW r \in Render, NEW how \in {"done", "failed", "killed"}, Ends(r, how)
  PROVE  ImageInv'
<1>1. PICK c : c = [NotAsked EXCEPT !.pc = how]
  OBVIOUS
<1>2. c \in RenderRecord /\ c.pc = how /\ c.listed = {} /\ c.doomed = {}
  BY <1>1 DEF NotAsked, RenderRecord, Pcs
<1>3. Moved(r, c)
  BY <1>1, <1>2 DEF Moved, Ends, Safe, Over
<1>4. QED
  BY <1>3, RenderMoves

(* A call goes on from one step to the next and keeps what it knows.       *)
LEMMA GoesOn ==
  ASSUME ImageInv, Kept, NEW r \in Render, render[r].pc \notin {"idle", "done", "failed", "killed", "expire", "trim"},
         NEW pc \in Pcs \ {"expire", "trim"}, NEW c \in RenderRecord, Becomes(r, c), c.pc = pc,
         c.stem = render[r].stem, c.doomed = render[r].doomed,
         c.listed = render[r].listed \/ c.listed \subseteq images,
         render[r].pc # "waiting" \/ Cardinality(Working) < Slots
  PROVE  ImageInv'
<1>1. Safe(render[r]) /\ images \subseteq saved
  BY DEF ImageInv, Typed
<1>2. Safe(c)
  BY <1>1 DEF Safe
<1>3. (Safe(c))'
  BY <1>2, SavedGrows DEF Kept
<1>4. r \in Working \/ Cardinality(Working) < Slots
  BY DEF Working
<1>5. QED
  BY <1>3, <1>4, RenderMoves DEF Moved

(* The same for a call that only goes on.                                  *)
LEMMA GoesToOn ==
  ASSUME ImageInv, Kept, NEW r \in Render, render[r].pc \notin {"idle", "done", "failed", "killed", "expire", "trim"},
         NEW pc \in Pcs \ {"expire", "trim"}, GoesTo(r, pc),
         render[r].pc # "waiting" \/ Cardinality(Working) < Slots
  PROVE  ImageInv'
<1>1. PICK c : c = [render[r] EXCEPT !.pc = pc]
  OBVIOUS
<1>2. render[r] \in RenderRecord
  BY DEF ImageInv, Typed
<1>3. /\ c \in RenderRecord /\ c.pc = pc /\ c.stem = render[r].stem /\ c.doomed = render[r].doomed
      /\ c.listed = render[r].listed
  BY <1>1, <1>2 DEF RenderRecord
<1>4. QED
  BY <1>1, <1>3, GoesOn DEF GoesTo

-----------------------------------------------------------------------------
(* The steps of a call.                                                    *)

(* Up to the drawing.                                                      *)
LEMMA DrawingKeeps ==
  ASSUME ImageInv, NEW r \in Render, Ask(r) \/ Acquire(r) \/ Draw(r)
  PROVE  ImageInv'
<1>1. Kept
  BY NothingSaved DEF Ask, Acquire, Draw, Works, ImageInv, Typed
<1>2. CASE Ask(r)
  <2>1. PICK stem \in Stem : Becomes(r, [NotAsked EXCEPT !.pc = "waiting", !.stem = stem, !.now = second])
    BY <1>2 DEF Ask
  <2>2. PICK c : c = [NotAsked EXCEPT !.pc = "waiting", !.stem = stem, !.now = second]
    OBVIOUS
  <2>3. second \in Nat
    BY DEF ImageInv, Typed
  <2>4. c \in RenderRecord /\ c.pc = "waiting" /\ c.listed = {} /\ c.doomed = {} /\ c.stem = stem
    BY <2>2, <2>3 DEF NotAsked, RenderRecord, Pcs
  <2>5. Moved(r, c)
    BY <2>1, <2>2, <2>4 DEF Moved, Safe, Over
  <2>6. QED
    BY <1>1, <2>5, RenderMoves
<1>3. CASE Acquire(r)
  <2>1. CASE Cardinality(Working) < Slots /\ GoesTo(r, "drawing")
    BY <1>1, <1>3, <2>1, GoesToOn DEF Acquire, At, Pcs
  <2>2. CASE Fails(r)
    BY <1>1, <2>2, EndsWell DEF Fails
  <2>3. QED
    BY <1>3, <2>1, <2>2 DEF Acquire
<1>4. CASE Draw(r)
  BY <1>1, <1>4, GoesToOn, EndsWell DEF Draw, At, Fails, Pcs
<1>5. QED
  BY <1>2, <1>3, <1>4

(* The save: the image gets a name that nobody has.                        *)
LEMMA SaveKeeps ==
  ASSUME ImageInv, NEW r \in Render, Save(r)
  PROVE  ImageInv' /\ images \subseteq images'
<1> DEFINE d == render[r]
<1>t. d \in RenderRecord /\ Safe(d) /\ Typed /\ NamesApart
  BY DEF ImageInv, Typed
<1>1. CASE CreateTemporary(r)
  <2>1. Kept
    BY <1>1, <1>t, NothingSaved DEF CreateTemporary, Works, Breaks, Typed
  <2>2. QED
    BY <1>1, <2>1, GoesToOn, EndsWell DEF CreateTemporary, At, Fails, Pcs
<1>2. CASE WriteAll(r)
  <2>1. Kept
    BY <1>2, <1>t, NothingSaved DEF WriteAll, Works, Breaks, Typed, DropTemporary
  <2>2. ASSUME Becomes(r, [render[r] EXCEPT !.pc = "link", !.time = second]) PROVE ImageInv'
    <3>1. PICK c : c = [d EXCEPT !.pc = "link", !.time = second]
      OBVIOUS
    <3>2. /\ c \in RenderRecord /\ c.pc = "link" /\ c.stem = d.stem /\ c.doomed = d.doomed
          /\ c.listed = d.listed
      BY <1>t, <3>1 DEF RenderRecord, Typed, Pcs
    <3>3. QED
      BY <1>2, <2>1, <2>2, <3>1, <3>2, GoesOn DEF WriteAll, At, Pcs
  <2>3. QED
    BY <1>2, <2>1, <2>2, EndsWell DEF WriteAll, Fails
<1>3. CASE HardLink(r)
  <2>0. d.pc = "link" /\ second' = second
    BY <1>3 DEF HardLink, At
  <2>1. CASE /\ Works /\ Name(r) \notin Taken
             /\ LET image == [name |-> Name(r), by |-> r, time |-> render[r].time]
                IN images' = images \cup {image} /\ saved' = saved \cup {image}
             /\ GoesTo(r, "unlink") /\ UNCHANGED hidden
    <3>1. PICK image : image = [name |-> Name(r), by |-> r, time |-> render[r].time]
      OBVIOUS
    <3>2. images' = images \cup {image} /\ saved' = saved \cup {image}
      BY <2>1, <3>1
    <3>3. image \in Image /\ image.name \notin Taken
      <4>1. Name(r) \in Stem \X Nat \X Nat
        BY <1>t, <2>0 DEF Name, Safe, RenderRecord
      <4>2. QED
        BY <1>t, <2>1, <3>1, <4>1 DEF Image, RenderRecord
    <3>4. NamesApart'
      <4>1. \A i \in images : i.name # image.name
        BY <3>3 DEF Taken
      <4>2. QED
        BY <1>t, <3>2, <4>1 DEF NamesApart
    <3>5. Kept
      <4>1. IsFiniteSet(saved')
        BY <1>t, <3>2, FS_AddElement DEF Typed
      <4>2. QED
        BY <1>t, <2>0, <2>1, <3>2, <3>3, <3>4, <4>1 DEF Kept, Typed, Works
    <3>6. ImageInv'
      BY <2>0, <2>1, <3>5, GoesToOn DEF Pcs
    <3>7. QED
      BY <3>2, <3>6
  <2>2. CASE /\ Works
             /\ Becomes(r, [render[r] EXCEPT !.attempt = @ + 1])
             /\ UNCHANGED <<images, hidden, saved>>
    <3>1. Kept
      BY <1>t, <2>0, <2>2, NothingSaved DEF Typed
    <3>2. PICK c : c = [d EXCEPT !.attempt = @ + 1]
      OBVIOUS
    <3>3. /\ c \in RenderRecord /\ c.pc = "link" /\ c.stem = d.stem /\ c.doomed = d.doomed
          /\ c.listed = d.listed
      BY <1>t, <2>0, <3>2 DEF RenderRecord
    <3>4. QED
      BY <2>0, <2>2, <3>1, <3>2, <3>3, GoesOn DEF Pcs
  <2>3. CASE /\ Works \/ Breaks
             /\ Fails(r) /\ DropTemporary(r) /\ UNCHANGED <<images, saved>>
    <3>1. Kept
      BY <1>t, <2>0, <2>3, NothingSaved DEF Typed, DropTemporary
    <3>2. QED
      BY <2>3, <3>1, EndsWell DEF Fails
  <2>4. QED
    BY <1>3, <2>1, <2>2, <2>3 DEF HardLink
<1>4. CASE UnlinkTemporary(r)
  <2>1. Kept
    BY <1>4, <1>t, NothingSaved DEF UnlinkTemporary, Typed
  <2>2. QED
    BY <1>4, <2>1, GoesToOn, EndsWell DEF UnlinkTemporary, At, Fails, Pcs
<1>5. CASE Secure(r)
  <2>1. Kept
    BY <1>5, <1>t, NothingSaved DEF Secure, Typed
  <2>2. QED
    BY <1>5, <2>1, GoesToOn, EndsWell DEF Secure, At, Fails, Pcs
<1>6. images \subseteq images'
  BY DEF Save, CreateTemporary, WriteAll, HardLink, UnlinkTemporary, Secure
<1>7. QED
  BY <1>1, <1>2, <1>3, <1>4, <1>5, <1>6 DEF Save

-----------------------------------------------------------------------------
(* The cleanup.                                                            *)

(* The listing of the directory and the choice of what has expired.        *)
LEMMA ListKeeps ==
  ASSUME ImageInv, NEW r \in Render, BeginList(r) \/ EndList(r)
  PROVE  ImageInv'
<1> DEFINE d == render[r]
<1>t. d \in RenderRecord /\ Safe(d) /\ Typed
  BY DEF ImageInv, Typed
<1>1. Kept
  BY <1>t, NothingSaved DEF BeginList, EndList, Typed, Works
<1>2. CASE BeginList(r)
  <2>1. ASSUME Becomes(r, [render[r] EXCEPT !.pc = "listing", !.listed = images]) PROVE ImageInv'
    <3>1. PICK c : c = [d EXCEPT !.pc = "listing", !.listed = images]
      OBVIOUS
    <3>2. images \in SUBSET Image
      BY <1>t DEF Typed
    <3>3. /\ c \in RenderRecord /\ c.pc = "listing" /\ c.stem = d.stem /\ c.doomed = d.doomed
          /\ c.listed = images
      BY <1>t, <3>1, <3>2 DEF RenderRecord, Pcs
    <3>4. QED
      BY <1>1, <1>2, <2>1, <3>1, <3>3, GoesOn DEF BeginList, At, Pcs
  <2>2. QED
    BY <1>1, <1>2, <2>1, EndsWell DEF BeginList, Fails
<1>3. CASE EndList(r)
  <2>1. PICK seen \in SUBSET (d.listed \cup images) :
          Becomes(r, [d EXCEPT !.pc = "expire", !.listed = seen, !.doomed = seen \cap ExpiredAt(d.now)])
    BY <1>3 DEF EndList
  <2>2. PICK doomed : doomed = seen \cap ExpiredAt(d.now)
    OBVIOUS
  <2>3. seen \subseteq saved /\ seen \in SUBSET Image /\ doomed \in SUBSET Image
    BY <1>t, <2>2 DEF Safe, Typed
  <2>4. PICK c : c = [d EXCEPT !.pc = "expire", !.listed = seen, !.doomed = doomed]
    OBVIOUS
  <2>5. /\ c \in RenderRecord /\ c.pc = "expire" /\ c.stem = d.stem /\ c.now = d.now
        /\ c.listed = seen /\ c.doomed = doomed
    BY <1>t, <2>3, <2>4 DEF RenderRecord, Pcs
  <2>6. Safe(c)
    BY <1>3, <1>t, <2>2, <2>3, <2>5 DEF Safe, EndList, At
  <2>7. Moved(r, c)
    <3>1. (Safe(c))'
      BY <1>1, <2>6, SavedGrows DEF Kept
    <3>2. r \in Working
      BY <1>3 DEF EndList, At, Working
    <3>3. QED
      BY <2>1, <2>2, <2>4, <2>5, <3>1, <3>2 DEF Moved
  <2>8. QED
    BY <1>1, <2>7, RenderMoves
<1>4. QED
  BY <1>2, <1>3

(* A chosen file is removed.                                               *)
LEMMA RemoveFileKeeps ==
  ASSUME ImageInv, NEW r \in Render, RemoveFile(r)
  PROVE  ImageInv'
<1> DEFINE d == render[r]
<1>t. d \in RenderRecord /\ Safe(d) /\ Typed
  BY DEF ImageInv, Typed
<1>1. Kept
  BY <1>t, NothingSaved DEF RemoveFile, Typed, Unlinked
<1>2. ASSUME NEW i \in d.doomed, Becomes(r, [render[r] EXCEPT !.doomed = @ \ {i}]) PROVE ImageInv'
  <2>1. PICK c : c = [d EXCEPT !.doomed = @ \ {i}]
    OBVIOUS
  <2>2. /\ c \in RenderRecord /\ c.pc = d.pc /\ c.stem = d.stem /\ c.now = d.now
        /\ c.listed = d.listed /\ c.doomed = d.doomed \ {i}
    BY <1>t, <2>1 DEF RenderRecord
  <2>3. Safe(c)
    BY <1>t, <2>2 DEF Safe
  <2>4. (Safe(c))' /\ r \in Working
    BY <1>1, <2>3, SavedGrows DEF Kept, RemoveFile, Working
  <2>5. QED
    BY <1>1, <1>2, <2>1, <2>2, <2>4, RenderMoves DEF Moved
<1>3. QED
  BY <1>1, <1>2, EndsWell DEF RemoveFile, Fails

(* Of the files still there the newest MaxFiles stay.                      *)
LEMMA RetainKeeps ==
  ASSUME ImageInv, NEW r \in Render, Retain(r)
  PROVE  ImageInv'
<1> DEFINE d == render[r]
           there == {i \in d.listed : i.name \in Taken}
<1>t. d \in RenderRecord /\ Safe(d) /\ Typed
  BY DEF ImageInv, Typed
<1>1. Kept
  BY <1>t, NothingSaved DEF Retain, Typed, Works
<1>2. PICK kept \in Newest(there) :
        Becomes(r, [d EXCEPT !.pc = "trim", !.listed = {}, !.doomed = there \ kept])
  BY DEF Retain
<1>3. there \subseteq saved /\ IsFiniteSet(there)
  <2>1. there \subseteq saved /\ IsFiniteSet(saved)
    BY <1>t DEF Safe, Typed
  <2>2. QED
    BY <2>1, FS_Subset
<1> HIDE DEF there
<1>4. ASSUME NEW i \in there \ kept PROVE Cardinality(AsNew(i)) >= MaxFiles
  <2>1. /\ kept \subseteq there /\ \A k \in kept : k.time >= i.time
        /\ Cardinality(kept) = IF Cardinality(there) < MaxFiles THEN Cardinality(there) ELSE MaxFiles
    BY <1>4 DEF Newest
  <2>2. /\ IsFiniteSet(kept) /\ Cardinality(kept) # Cardinality(there)
        /\ Cardinality(kept) \in Nat
    BY <1>3, <1>4, <2>1, FS_Subset, FS_CardinalityType
  <2>3. Cardinality(kept) = MaxFiles
    BY <2>1, <2>2
  <2>4. kept \subseteq AsNew(i) /\ IsFiniteSet(AsNew(i))
    <3>1. kept \subseteq AsNew(i)
      BY <1>3, <1>4, <2>1 DEF AsNew
    <3>2. AsNew(i) \subseteq saved /\ IsFiniteSet(saved)
      BY <1>t DEF AsNew, Typed
    <3>3. QED
      BY <3>1, <3>2, FS_Subset
  <2>5. Cardinality(kept) <= Cardinality(AsNew(i)) /\ Cardinality(AsNew(i)) \in Nat
    BY <2>4, FS_Subset, FS_CardinalityType
  <2>6. QED
    BY <2>2, <2>3, <2>5
<1>5. PICK doomed : doomed = there \ kept
  OBVIOUS
<1>6. PICK c : c = [d EXCEPT !.pc = "trim", !.listed = {}, !.doomed = doomed]
  OBVIOUS
<1>7. doomed \in SUBSET Image /\ doomed \subseteq saved
  BY <1>t, <1>3, <1>5 DEF Typed
<1>8. c \in RenderRecord /\ c.pc = "trim" /\ c.stem = d.stem /\ c.listed = {} /\ c.doomed = doomed
  BY <1>t, <1>6, <1>7 DEF RenderRecord, Pcs
<1>9. Safe(c)
  BY <1>t, <1>4, <1>5, <1>7, <1>8 DEF Safe, Retain, At
<1>10. (Safe(c))' /\ r \in Working
  BY <1>1, <1>9, SavedGrows DEF Kept, Retain, At, Working
<1>11. QED
  BY <1>1, <1>2, <1>5, <1>6, <1>8, <1>10, RenderMoves DEF Moved

-----------------------------------------------------------------------------
(* The theorems.                                                           *)

(* The directory is empty at the start.                                    *)
LEMMA InitImageInv == ImageInit => ImageInv
<1> SUFFICES ASSUME ImageInit PROVE ImageInv
  OBVIOUS
<1>1. /\ images = {} /\ hidden = {} /\ saved = {} /\ second = 0 /\ faults = MaxSaveFaults
      /\ render = [r \in Render |-> NotAsked]
  BY DEF ImageInit
<1>2. NotAsked \in RenderRecord /\ Safe(NotAsked) /\ NotAsked.pc = "idle"
  BY DEF NotAsked, RenderRecord, Pcs, Safe
<1>3. Typed
  BY <1>1, <1>2, FS_EmptySet, PolicyAssumption DEF Typed
<1>4. SlotsKept
  <2>1. Working = {}
    BY <1>1, <1>2 DEF Working
  <2>2. QED
    BY <2>1, FS_EmptySet, PolicyAssumption DEF SlotsKept
<1>5. QED
  BY <1>1, <1>2, <1>3, <1>4 DEF ImageInv, NamesApart

(* Every step keeps the invariant.                                         *)
LEMMA NextImageInv == ImageInv /\ [ImageNext]_imageVars => ImageInv'
<1> SUFFICES ASSUME ImageInv, [ImageNext]_imageVars PROVE ImageInv'
  OBVIOUS
<1>1. ASSUME UNCHANGED <<images, hidden, render, saved>>, second' \in Nat, faults' \in Nat PROVE ImageInv'
  BY <1>1 DEF ImageInv, Typed, Safe, ExpiredAt, AsNew, NamesApart, SlotsKept, Working
<1>2. CASE SecondPasses
  BY <1>1, <1>2 DEF SecondPasses, ImageInv, Typed
<1>3. CASE KillDrawing
  <2>1. PICK killed : killed = [NotAsked EXCEPT !.pc = "killed"]
    OBVIOUS
  <2>2. /\ killed \in RenderRecord /\ killed.pc = "killed" /\ killed.listed = {} /\ killed.doomed = {}
    BY <2>1 DEF NotAsked, RenderRecord, Pcs
  <2>3. /\ render' = [r \in Render |-> IF At(r, "idle") THEN render[r] ELSE killed]
        /\ UNCHANGED <<images, hidden, second, saved>> /\ faults' \in Nat
    BY <1>3, <2>1 DEF KillDrawing, Breaks, ImageInv, Typed
  <2>4. Typed'
    BY <2>2, <2>3 DEF ImageInv, Typed
  <2>5. ASSUME NEW r \in Render PROVE (Safe(render[r]))'
    <3>1. CASE At(r, "idle")
      BY <2>3, <3>1 DEF ImageInv, Safe, ExpiredAt, AsNew
    <3>2. CASE ~At(r, "idle")
      BY <2>2, <2>3, <3>2 DEF Safe
    <3>3. QED
      BY <3>1, <3>2
  <2>6. SlotsKept'
    <3>1. PICK W : W = {r \in Render : render'[r].pc \notin Over}
      OBVIOUS
    <3>2. W = Working' /\ W = {}
      BY <2>2, <2>3, <3>1 DEF Working, Over, At
    <3>3. QED
      BY <3>1, <3>2, FS_EmptySet, PolicyAssumption DEF SlotsKept
  <2>7. QED
    BY <2>3, <2>4, <2>5, <2>6 DEF ImageInv, NamesApart
<1>4. ASSUME NEW r \in Render, RenderCall(r) PROVE ImageInv'
  <2>1. CASE Answer(r)
    <3>1. Kept
      BY <2>1, NothingSaved DEF Answer, ImageInv, Typed, Kept, NamesApart
    <3>2. QED
      BY <2>1, <3>1, EndsWell DEF Answer
  <2>2. QED
    BY <1>4, <2>1, DrawingKeeps, SaveKeeps, ListKeeps, RemoveFileKeeps, RetainKeeps DEF RenderCall, Cleanup
<1>5. CASE UNCHANGED imageVars
  BY <1>1, <1>5 DEF imageVars, ImageInv, Typed
<1>6. QED
  BY <1>2, <1>3, <1>4, <1>5 DEF ImageNext, AllDrawn

(* The invariant of the image directory, for any number of calls.          *)
THEOREM ImageInvariant == ImageSpec => []ImageInv
<1>1. QED
  BY InitImageInv, NextImageInv, PTL DEF ImageSpec

(* No more images are drawn, saved and cleaned up after at once than       *)
(* render_slots has permits, and no two images have one name.              *)
THEOREM SlotsAndNames == ImageSpec => [](SlotsKept /\ NamesApart)
<1>1. ImageInv => SlotsKept /\ NamesApart
  BY DEF ImageInv
<1>2. QED
  BY <1>1, ImageInvariant, PTL

(* ImagesKept: a cleanup removes an image only after the ttl or when       *)
(* MaxFiles others at least as new had been saved, unless a newer one has  *)
(* its name.                                                               *)
THEOREM ImagesKeptHolds == ImageSpec => ImagesKept
<1>1. ImageInv /\ [ImageNext]_imageVars =>
        [\A i \in images \ images' :
           \/ \E r \in Render : ~At(r, "idle") /\ i \in ExpiredAt(render[r].now)
           \/ Cardinality({j \in saved \ {i} : j.time >= i.time}) >= MaxFiles
           \/ \E j \in saved \ {i} : j.name = i.name]_imageVars
  <2>1. SUFFICES ASSUME ImageInv, ImageNext, NEW i \in images \ images'
                 PROVE  \/ \E r \in Render : ~At(r, "idle") /\ i \in ExpiredAt(render[r].now)
                        \/ Cardinality({j \in saved \ {i} : j.time >= i.time}) >= MaxFiles
                        \/ \E j \in saved \ {i} : j.name = i.name
    OBVIOUS
  <2>2. PICK r \in Render : RemoveFile(r)
    BY <2>1, SaveKeeps DEF ImageNext, RenderCall, Cleanup, SecondPasses, KillDrawing, AllDrawn, imageVars,
                           Ask, Acquire, Draw, BeginList, EndList, Retain, Answer
  <2>3. PICK k \in render[r].doomed : images' = Unlinked(k.name)
    BY <2>1, <2>2 DEF RemoveFile
  <2>4. i.name = k.name /\ i \in saved
    BY <2>1, <2>3 DEF Unlinked, ImageInv, Typed
  <2>5. Safe(render[r]) /\ render[r].pc \in {"expire", "trim"}
    BY <2>1, <2>2 DEF ImageInv, RemoveFile
  <2>6. CASE k # i
    BY <2>3, <2>4, <2>5, <2>6 DEF Safe
  <2>7. CASE k = i
    BY <2>3, <2>5, <2>7 DEF Safe, AsNew, At
  <2>8. QED
    BY <2>6, <2>7
<1>2. QED
  BY <1>1, ImageInvariant, PTL DEF ImageSpec, ImagesKept

=============================================================================
