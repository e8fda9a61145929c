---------------------------- MODULE LevelDBProofs ----------------------------
(***************************************************************************)
(* Proofs about leveldb's DBImpl, for any number of writers, writes,       *)
(* crashes, failures and iterators and any limits: no file that somebody   *)
(* will still read is deleted, no acknowledged write that its log or a     *)
(* table holds is lost as long as the database can be opened, and no       *)
(* sequence number is given out twice.                                     *)
(***************************************************************************)
EXTENDS LevelDB, FiniteSetTheorems, SequenceTheorems, WellFoundedInduction, TLAPS

-----------------------------------------------------------------------------
(* The types.                                                              *)

Entry == [seq : Nat, id : Nat]
FiniteEntries == {E \in SUBSET Entry : IsFiniteSet(E)}
Log == [recs : Seq(FiniteEntries), synced : Nat]
Edit == [add0 : SUBSET Nat, add1 : SUBSET Nat, del : SUBSET Nat,
         log : Nat, next : Nat, last : Nat]
Manifest == [edits : Seq(Edit), synced : Nat]
Version == [l0 : SUBSET Nat, l1 : SUBSET Nat]
Merge == [tables : SUBSET Nat, num : Nat]
Iterator == [tables : SUBSET Nat, mem : SUBSET Entry, sees : SUBSET Nat]
Places == {"idle", "waiting", "room", "bgwait", "sync", "apply"}
Job == [pc : {"none", "scheduled", "build", "merge", "sync"},
        job : {"none", "flush", "merge"}, num : Nat]

LogsType ==
    /\ DOMAIN logs \subseteq Nat /\ logs \in [DOMAIN logs -> Log]
    /\ \A n \in DOMAIN logs : logs[n].synced <= Len(logs[n].recs)
TablesType == DOMAIN tables \subseteq Nat /\ tables \in [DOMAIN tables -> SUBSET Entry]
ManifestsType ==
    /\ DOMAIN manifests \subseteq Nat /\ manifests \in [DOMAIN manifests -> Manifest]
    /\ \A n \in DOMAIN manifests : manifests[n].synced <= Len(manifests[n].edits)
QueueType ==
    /\ writers \in Seq(Writers) /\ group \in Seq(Writers)
    /\ pc \in [Writers -> Places] /\ request \in [Writers -> Nat]
MemoryType ==
    /\ phase \in {"down", "replay", "recovered", "manifest", "current", "open", "closing"}
    /\ replay \subseteq Nat
    /\ mem \subseteq Entry /\ imm \subseteq SUBSET Entry
    /\ version \in Version /\ edit \in Edit /\ bg \in Job /\ bg_error \in BOOLEAN
    /\ merge \subseteq Merge /\ iterators \subseteq Iterator
    /\ pending_outputs \subseteq Nat
NumbersType ==
    /\ current \in Nat /\ logfile_number \in Nat /\ log_number \in Nat
    /\ next_file_number \in Nat /\ last_sequence \in Nat /\ manifest_file_number \in Nat
    /\ issued \in Nat /\ promised \subseteq 1 .. issued /\ synced \subseteq promised
    /\ risked \subseteq 1 .. issued

-----------------------------------------------------------------------------
(* What is where.                                                          *)

\* Write x is among these entries.
Has(E, x) == \E e \in E : e.id = x

\* It is in this log, or in the records of it that are synced.
Kinds == {"written", "synced"}
InLog(g, kind, x) ==
    \E i \in DOMAIN g.recs : (kind = "synced" => i <= g.synced) /\ Has(g.recs[i], x)

\* It is in a log from number L on.
InLogs(lg, L, kind, x) == \E n \in DOMAIN lg : n >= L /\ InLog(lg[n], kind, x)

\* It is in one of the tables S.
InTables(t, S, x) == \E n \in S : n \in DOMAIN t /\ Has(t[n], x)

\* The tables of the version that the first k edits make.
After(edits, k) == TablesOf(Replay(SubSeq(edits, 1, k)))

\* The ends that a crash of the machine can leave of a manifest.
Ends(m) == m.synced .. Len(m.edits)

\* The writes p, and of the synced part of the logs the writes q, are in tables
\* S or in logs from L on.
Covers(t, S, lg, L, p, q) ==
    /\ \A x \in p : InTables(t, S, x) \/ InLogs(lg, L, "written", x)
    /\ \A x \in q : InTables(t, S, x) \/ InLogs(lg, L, "synced", x)

\* A recovery from the first k edits finds its tables and all that is promised.
EndOK(m, k, t, lg, p, q) ==
    IF k = 0 THEN p = {}
    ELSE /\ After(m.edits, k) \subseteq DOMAIN t
         /\ Covers(t, After(m.edits, k), lg, m.edits[k].log, p, q)
         /\ m.edits[k].log <= m.edits[k].next /\ m.edits[k].next > 0

\* The numbers a manifest hands out are greater than those of its tables.
NumbersOK(m) ==
    \A k, j \in Ends(m) :
        k <= j /\ j > 0 => \A n \in After(m.edits, k) : n < m.edits[j].next

DiskOK(m, t, lg, p, q) ==
    /\ \A k \in Ends(m) : EndOK(m, k, t, lg, p, q)
    /\ NumbersOK(m)

-----------------------------------------------------------------------------
(* The inductive invariant.                                                *)

Running == phase \in {"open", "closing"}
Recovering == phase \in {"replay", "recovered", "manifest", "current"}

\* Whatever happens, the files can be recovered.
Disk ==
    IF current = 0 THEN promised = {}
    ELSE /\ current \in DOMAIN manifests
         /\ DiskOK(manifests[current], tables, logs, promised, synced)

\* Before the database is open nothing but the opening goes on.
Idle ==
    ~Running =>
        /\ mem = {} /\ imm = {} /\ merge = {} /\ bg = NoJob /\ iterators = {}
        /\ pending_outputs = {} /\ bg_error = FALSE /\ risked = {}
        /\ edit.del = {} /\ edit.add1 = {}
        /\ phase = "down" => edit = NoEdit /\ version = EmptyVersion

\* No file that is in use has a number that is still to be handed out.
Numbers ==
    phase # "down" =>
        /\ current # 0 /\ manifest_file_number # 0
        /\ \A k \in Ends(manifests[current]) :
              \A n \in After(manifests[current].edits, k) : n < next_file_number
        /\ \A n \in TablesOf(version) : n < next_file_number
        /\ \A n \in pending_outputs : n < next_file_number
        /\ replay \subseteq DOMAIN logs
        /\ \A n \in DOMAIN logs : n \in replay \/ n < next_file_number
        /\ phase # "replay" => replay = {} /\ logfile_number \in DOMAIN logs

\* A recovery has in its version and its edit what it has read so far.
Recovered ==
    Recovering =>
        /\ \A n \in edit.add0 : n < next_file_number
        /\ TablesOf(version) \union edit.add0 \subseteq DOMAIN tables
        /\ \A x \in promised :
              \/ InTables(tables, TablesOf(version) \union edit.add0, x)
              \/ \E n \in replay : InLog(logs[n], "written", x)
        /\ phase # "replay" => edit.log = logfile_number /\ edit.next = next_file_number
        /\ phase \in {"manifest", "current"} =>
              /\ manifest_file_number \in DOMAIN manifests
              /\ manifests[manifest_file_number].synced = 2
              /\ Len(manifests[manifest_file_number].edits) = 2
              /\ manifests[manifest_file_number].edits[2] = edit
              /\ After(manifests[manifest_file_number].edits, 2)
                    = TablesOf(version) \union edit.add0
        /\ phase = "current" => current = manifest_file_number

\* The number of edits that make the version, but for the one being synced.
Base == IF bg.pc = "sync" THEN Len(manifests[current].edits) - 1
                          ELSE Len(manifests[current].edits)

\* The version is what the manifest says, unless an edit failed.
Engine ==
    Running =>
        /\ current = manifest_file_number
        /\ TablesOf(version) \subseteq DOMAIN tables
        /\ bg.pc = "sync" => Len(manifests[current].edits) > 0
        /\ bg.pc \in {"build", "merge", "sync"} \/ ~bg_error =>
              TablesOf(version) \subseteq After(manifests[current].edits, Base)
        /\ ~bg_error => After(manifests[current].edits, Base) \subseteq TablesOf(version)
        /\ log_number <= logfile_number
        /\ \A k \in Ends(manifests[current]) :
              k > 0 /\ manifests[current].edits[k].log <= logfile_number

\* Every promised write is in a memtable and the logs of it, or in a table, and
\* every risked one in a memtable.
FoundAs(kind, x) ==
    \/ Has(mem, x) /\ InLog(logs[logfile_number], kind, x)
    \/ (\E m \in imm : Has(m, x)) /\ InLogs(logs, log_number, kind, x)
    \/ InTables(tables, TablesOf(version), x)
Acknowledged ==
    Running => /\ \A x \in promised : FoundAs("written", x)
               /\ \A x \in synced : FoundAs("synced", x)
               /\ \A x \in risked : Has(mem, x) \/ \E m \in imm : Has(m, x)

\* Nobody who reads tables, now or after a crash, reads table n.
Unread(n) ==
    /\ n \notin TablesOf(version)
    /\ \A i \in iterators : n \notin i.tables
    /\ \A r \in merge : n \notin r.tables
    /\ \A k \in Ends(manifests[current]) : n \notin After(manifests[current].edits, k)

InstallsMerge == bg.pc = "sync" /\ bg.job = "merge"

Merging ==
    Running =>
        \A r \in merge :
            /\ r.tables \subseteq DOMAIN tables
            /\ r.num < next_file_number
            /\ \A n \in r.tables : n < next_file_number
            /\ r.num # 0 /\ ~InstallsMerge =>
                  r.num \in DOMAIN tables /\ r.num \in pending_outputs /\ Unread(r.num)
            /\ InstallsMerge =>
                  /\ r.num # 0
                  /\ edit.add0 = {} /\ edit.add1 = {r.num} /\ edit.del = r.tables
                  /\ edit.log = log_number
                  /\ r.num \in DOMAIN tables
                  /\ tables[r.num] = Contents(r.tables)

Flushing ==
    Running /\ bg.job = "flush" =>
        /\ bg.num < next_file_number
        /\ \A r \in merge : r.num # bg.num
        /\ bg.pc = "build" => Unread(bg.num)
        /\ bg.pc = "sync" =>
              /\ edit.add0 = {bg.num} /\ edit.add1 = {} /\ edit.del = {}
              /\ edit.log = logfile_number
              /\ bg.num \in DOMAIN tables /\ tables[bg.num] = UNION imm

Background ==
    Running =>
        /\ \/ bg.pc \in {"none", "scheduled"} /\ bg.job = "none" /\ merge = {}
           \/ bg.pc \in {"build", "sync"} /\ bg.job = "flush" /\ imm # {}
           \/ /\ bg.pc \in {"merge", "sync"} /\ bg.job = "merge" /\ merge # {}
              /\ \A r \in merge : bg.num = r.num
        /\ \A q, r \in merge : q = r
        /\ \A q, r \in imm : q = r
        /\ bg.pc = "sync" => edit = manifests[current].edits[Len(manifests[current].edits)]

\* An iterator's tables exist and hold what it saw.
Iterators ==
    \A i \in iterators :
        /\ i.tables \subseteq DOMAIN tables
        /\ \A n \in i.tables : n < next_file_number
        /\ \A x \in i.sees : Has(i.mem, x) \/ InTables(tables, i.tables, x)

\* The queue: only its front is anywhere but waiting, and nobody is in it twice.
Queue ==
    /\ phase # "open" => writers = <<>>
    /\ \A w \in Writers : pc[w] # "idle" <=> \E i \in DOMAIN writers : writers[i] = w
    /\ \A i, j \in DOMAIN writers : writers[i] = writers[j] => i = j
    /\ \A i \in DOMAIN writers : i > 1 <=> pc[writers[i]] = "waiting"
    /\ \A w \in Writers : pc[w] # "idle" => request[w] \in 1 .. issued
    /\ Len(group) <= Len(writers) /\ \A i \in DOMAIN group : group[i] = writers[i]

\* What a group that is being written has in the log, if its record can be read.
Group ==
    \A w \in Writers :
        pc[w] \in {"sync", "apply"} =>
            /\ group # <<>>
            /\ \A i \in DOMAIN group :
                  /\ RecordRead => InLog(logs[logfile_number], "written", request[group[i]])
                  /\ group[i] \in SyncWriters => w \in SyncWriters
                  /\ RecordRead /\ pc[w] = "apply" /\ w \in SyncWriters =>
                        InLog(logs[logfile_number], "synced", request[group[i]])

Typed == LogsType /\ TablesType /\ ManifestsType /\ QueueType /\ MemoryType /\ NumbersType
Inv == /\ Typed /\ Disk /\ Idle /\ Numbers /\ Recovered /\ Engine /\ Acknowledged
       /\ Merging /\ Flushing /\ Background /\ Iterators /\ Queue /\ Group

-----------------------------------------------------------------------------
(* Numbers and sequences.                                                  *)

\* A set of natural numbers has a least element.
LEMMA LeastNumber ==
    ASSUME NEW T \in SUBSET Nat, T # {}
    PROVE  \E n \in T : \A m \in T : n <= m
<1> DEFINE R == OpToRel(<, Nat)
<1>1. IsWellFoundedOn(R, Nat)
      BY NatLessThanWellFounded
<1>2. PICK n \in T : \A m \in T : <<m, n>> \notin R
  <2> HIDE DEF R
  <2> QED BY <1>1, WFMin
<1>3. \A m \in T : ~(m < n)
      BY <1>2 DEF OpToRel
<1> QED BY <1>3

\* A finite set of natural numbers has a greatest element, which Max gives.
LEMMA MaxFacts ==
    ASSUME NEW S \in SUBSET Nat, S # {}, IsFiniteSet(S)
    PROVE  Max(S) \in S /\ \A y \in S : y <= Max(S)
<1> DEFINE Above(x) == {y \in S : y > x}
           T == {Cardinality(Above(x)) : x \in S}
<1>1. \A x \in S : IsFiniteSet(Above(x)) /\ Cardinality(Above(x)) \in Nat
      BY FS_Subset, FS_CardinalityType
<1>2. T \in SUBSET Nat /\ T # {}
      BY <1>1
<1>3. PICK x \in S : \A z \in S : Cardinality(Above(x)) <= Cardinality(Above(z))
  <2>1. PICK n \in T : \A m \in T : n <= m
    <3> HIDE DEF T
    <3> QED BY <1>2, LeastNumber
  <2>2. PICK x \in S : n = Cardinality(Above(x))
        OBVIOUS
  <2>3. \A z \in S : Cardinality(Above(z)) \in T
        OBVIOUS
  <2> HIDE DEF T, Above
  <2> QED BY <2>1, <2>2, <2>3
<1>4. ASSUME NEW y \in S PROVE y <= x
  <2> SUFFICES ASSUME y > x PROVE FALSE
      OBVIOUS
  <2>1. Above(y) \in SUBSET Above(x) /\ y \in Above(x) /\ y \notin Above(y)
    <3>1. x \in Nat /\ y \in Nat /\ \A z \in S : z \in Nat
          OBVIOUS
    <3>2. \A z \in S : z > y => z > x
          BY <3>1
    <3>3. Above(y) \subseteq Above(x)
          BY <3>2
    <3>4. y \in Above(x)
          OBVIOUS
    <3>5. ~(y > y)
          BY <3>1
    <3> QED BY <3>3, <3>4, <3>5
  <2>2. Cardinality(Above(y)) = Cardinality(Above(x))
    <3>1. Cardinality(Above(y)) <= Cardinality(Above(x))
          BY <1>1, <2>1, FS_Subset
    <3>2. Cardinality(Above(x)) <= Cardinality(Above(y))
          BY <1>3
    <3> HIDE DEF Above
    <3> QED BY <1>1, <3>1, <3>2
  <2>3. Above(x) = Above(y)
        BY <1>1, <2>1, <2>2, FS_Subset
  <2> QED BY <2>1, <2>3
<1>5. \E m \in S : \A y \in S : m >= y
      BY <1>4
<1>6. Max(S) \in S /\ \A y \in S : Max(S) >= y
      BY <1>5 DEF Max
<1> QED BY <1>6

\* Min of a nonempty set of natural numbers is in it.
LEMMA MinIsMember ==
    ASSUME NEW T \in SUBSET Nat, T # {} PROVE Min(T) \in T
<1>1. PICK n \in T : \A m \in T : n <= m
      BY LeastNumber
<1> QED BY <1>1 DEF Min

\* The values of a function on a finite set are finitely many.
LEMMA FiniteImage ==
    ASSUME NEW S, IsFiniteSet(S), NEW f PROVE IsFiniteSet({f[x] : x \in S})
<1> DEFINE T == {f[x] : x \in S}
           g == [x \in S |-> f[x]]
<1>1. g \in Surjection(S, T)
      BY DEF Surjection
<1> QED BY <1>1, FS_Surjection

\* An element of a sequence.
LEMMA Element ==
    ASSUME NEW S, NEW s \in Seq(S), NEW i \in DOMAIN s PROVE s[i] \in S
OBVIOUS

-----------------------------------------------------------------------------
(* Versions and edits.                                                     *)

\* What Apply does to the tables of a version.
LEMMA ApplyTables ==
    ASSUME NEW v \in Version, NEW e \in Edit
    PROVE  /\ Apply(v, e) \in Version
           /\ TablesOf(Apply(v, e)) = (TablesOf(v) \ e.del) \union e.add0 \union e.add1
BY DEF Version, Edit, Apply, TablesOf

\* A table is in the version that some edits make if one of them adds it and no
\* later one deletes it.
LEMMA ReplayTables ==
    ASSUME NEW edits \in Seq(Edit), NEW n
    PROVE  n \in TablesOf(Replay(edits)) <=>
              \E i \in DOMAIN edits :
                  /\ n \in edits[i].add0 \union edits[i].add1
                  /\ \A j \in DOMAIN edits : j > i => n \notin edits[j].del
<1> DEFINE A0 == [i \in DOMAIN edits |-> edits[i].add0]
           A1 == [i \in DOMAIN edits |-> edits[i].add1]
           Lasts(i) == \A j \in DOMAIN edits : j > i => n \notin edits[j].del
<1>1. n \in Replayed(edits, A0) <=> \E i \in DOMAIN edits : n \in edits[i].add0 /\ Lasts(i)
      BY DEF Replayed, Range
<1>2. n \in Replayed(edits, A1) <=> \E i \in DOMAIN edits : n \in edits[i].add1 /\ Lasts(i)
      BY DEF Replayed, Range
<1>3. TablesOf(Replay(edits)) = Replayed(edits, A0) \union Replayed(edits, A1)
      BY DEF TablesOf, Replay
<1> HIDE DEF A0, A1
<1> QED BY <1>1, <1>2, <1>3

\* The same for the first k edits.
LEMMA AfterTables ==
    ASSUME NEW edits \in Seq(Edit), NEW k \in 0 .. Len(edits), NEW n
    PROVE  n \in After(edits, k) <=>
              \E i \in 1 .. k :
                  /\ n \in edits[i].add0 \union edits[i].add1
                  /\ \A j \in 1 .. k : j > i => n \notin edits[j].del
<1> DEFINE s == SubSeq(edits, 1, k)
<1>1. s \in Seq(Edit) /\ DOMAIN s = 1 .. k /\ \A i \in 1 .. k : s[i] = edits[i]
      OBVIOUS
<1> HIDE DEF s
<1>2. n \in TablesOf(Replay(s)) <=>
         \E i \in 1 .. k : /\ n \in s[i].add0 \union s[i].add1
                           /\ \A j \in 1 .. k : j > i => n \notin s[j].del
      BY <1>1, ReplayTables
<1> QED BY <1>1, <1>2 DEF After, s

\* One more edit.
LEMMA AfterStep ==
    ASSUME NEW edits \in Seq(Edit), NEW k \in 1 .. Len(edits)
    PROVE  After(edits, k) = (After(edits, k - 1) \ edits[k].del)
                                 \union edits[k].add0 \union edits[k].add1
<1> SUFFICES ASSUME NEW n
             PROVE  n \in After(edits, k) <=>
                       \/ n \in After(edits, k - 1) /\ n \notin edits[k].del
                       \/ n \in edits[k].add0 \/ n \in edits[k].add1
    OBVIOUS
<1> DEFINE Adds(i) == n \in edits[i].add0 \union edits[i].add1
           Del(j) == n \in edits[j].del
<1>1. n \in After(edits, k) <=>
         \E i \in 1 .. k : Adds(i) /\ \A j \in 1 .. k : j > i => ~Del(j)
      BY AfterTables
<1>2. n \in After(edits, k - 1) <=>
         \E i \in 1 .. k - 1 : Adds(i) /\ \A j \in 1 .. k - 1 : j > i => ~Del(j)
  <2>1. k - 1 \in 0 .. Len(edits)
        OBVIOUS
  <2> QED BY <2>1, AfterTables
<1>3. Adds(k) <=> n \in edits[k].add0 \/ n \in edits[k].add1
      OBVIOUS
<1>4. Del(k) <=> n \in edits[k].del
      OBVIOUS
<1>5. k \in Nat /\ k >= 1
      OBVIOUS
<1> HIDE DEF Adds, Del
<1>6. (\E i \in 1 .. k : Adds(i) /\ \A j \in 1 .. k : j > i => ~Del(j)) <=>
         \/ (\E i \in 1 .. k - 1 : Adds(i) /\ \A j \in 1 .. k - 1 : j > i => ~Del(j)) /\ ~Del(k)
         \/ Adds(k)
  <2>1. \A i \in 1 .. k : i = k \/ i \in 1 .. k - 1
        BY <1>5
  <2>2. \A i \in 1 .. k - 1 : i \in 1 .. k /\ k > i
        BY <1>5
  <2>3. \A j \in 1 .. k : ~(j > k)
        BY <1>5
  <2>4. k \in 1 .. k
        BY <1>5
  <2> QED BY <2>1, <2>2, <2>3, <2>4
<1> QED BY <1>1, <1>2, <1>3, <1>4, <1>6

\* Nothing is in a version before the first edit.
LEMMA AfterNone ==
    ASSUME NEW edits \in Seq(Edit) PROVE After(edits, 0) = {}
<1> SUFFICES ASSUME NEW n \in After(edits, 0) PROVE FALSE
    OBVIOUS
<1>1. 0 \in 0 .. Len(edits)
      OBVIOUS
<1> QED BY <1>1, AfterTables

\* An appended edit changes none of the earlier versions.
LEMMA AfterAppend ==
    ASSUME NEW edits \in Seq(Edit), NEW e \in Edit, NEW k \in 0 .. Len(edits)
    PROVE  After(Append(edits, e), k) = After(edits, k)
<1>1. SubSeq(Append(edits, e), 1, k) = SubSeq(edits, 1, k)
      OBVIOUS
<1> QED BY <1>1 DEF After

\* What is left of a cut manifest makes the same version.
LEMMA AfterCut ==
    ASSUME NEW edits \in Seq(Edit), NEW k \in 0 .. Len(edits)
    PROVE  /\ SubSeq(edits, 1, k) \in Seq(Edit) /\ Len(SubSeq(edits, 1, k)) = k
           /\ \A i \in 1 .. k : SubSeq(edits, 1, k)[i] = edits[i]
           /\ After(SubSeq(edits, 1, k), k) = After(edits, k)
<1> DEFINE s == SubSeq(edits, 1, k)
<1>1. s \in Seq(Edit) /\ Len(s) = k /\ \A i \in 1 .. k : s[i] = edits[i]
      OBVIOUS
<1>2. SubSeq(s, 1, k) = s
      BY <1>1
<1> QED BY <1>1, <1>2 DEF After

\* All edits of a manifest make the version that Recover takes.
LEMMA AfterAll ==
    ASSUME NEW edits \in Seq(Edit)
    PROVE  TablesOf(Replay(edits)) = After(edits, Len(edits))
<1>1. SubSeq(edits, 1, Len(edits)) = edits
      OBVIOUS
<1> QED BY <1>1 DEF After

\* The tables of a version are numbers.
LEMMA AfterType ==
    ASSUME NEW edits \in Seq(Edit), NEW k \in 0 .. Len(edits)
    PROVE  After(edits, k) \subseteq Nat
<1> SUFFICES ASSUME NEW n \in After(edits, k) PROVE n \in Nat
    OBVIOUS
<1>1. PICK i \in 1 .. k : n \in edits[i].add0 \union edits[i].add1
      BY AfterTables
<1>2. edits[i] \in Edit
      BY <1>1
<1> QED BY <1>1, <1>2 DEF Edit

-----------------------------------------------------------------------------
(* The files.                                                              *)

\* The tables S are as they were.
Kept(t, t2, S) == \A n \in S : n \in DOMAIN t => n \in DOMAIN t2 /\ t2[n] = t[n]

\* What is in the logs from L on is still there.
LogsKept(lg, lg2, L) ==
    \A n \in DOMAIN lg :
        n >= L => /\ n \in DOMAIN lg2
                  /\ \A kind \in Kinds : \A x : InLog(lg[n], kind, x) => InLog(lg2[n], kind, x)

\* What is found in files that are kept is found again.
LEMMA InTablesKept ==
    ASSUME NEW t, NEW t2, NEW S, NEW x, Kept(t, t2, S), InTables(t, S, x)
    PROVE  InTables(t2, S, x)
BY DEF Kept, InTables

\* The same for logs.
LEMMA InLogsKept ==
    ASSUME NEW lg, NEW lg2, NEW L, NEW x, NEW kind \in Kinds,
           LogsKept(lg, lg2, L), InLogs(lg, L, kind, x)
    PROVE  InLogs(lg2, L, kind, x)
BY DEF LogsKept, InLogs

\* More tables hold more.
LEMMA InMoreTables ==
    ASSUME NEW t, NEW S, NEW S2, NEW x, S \subseteq S2, InTables(t, S, x)
    PROVE  InTables(t, S2, x)
BY DEF InTables

\* The manifest stays recoverable as long as the files of its versions stay and
\* nothing more is promised.
LEMMA DiskKept ==
    ASSUME NEW m, NEW t, NEW t2, NEW lg, NEW lg2, NEW p, NEW q, NEW p2, NEW q2,
           DiskOK(m, t, lg, p, q), p2 \subseteq p, q2 \subseteq q,
           \A k \in Ends(m) : k # 0 => /\ Kept(t, t2, After(m.edits, k))
                                       /\ LogsKept(lg, lg2, m.edits[k].log)
    PROVE  DiskOK(m, t2, lg2, p2, q2)
<1> SUFFICES ASSUME NEW k \in Ends(m), k # 0 PROVE EndOK(m, k, t2, lg2, p2, q2)
    BY DEF DiskOK, EndOK
<1> DEFINE S == After(m.edits, k)
           L == m.edits[k].log
<1>1. /\ S \subseteq DOMAIN t /\ Covers(t, S, lg, L, p, q)
      /\ L <= m.edits[k].next /\ m.edits[k].next > 0
      BY DEF DiskOK, EndOK
<1>2. Kept(t, t2, S) /\ LogsKept(lg, lg2, L)
      OBVIOUS
<1> HIDE DEF S, L
<1>3. S \subseteq DOMAIN t2
      BY <1>1, <1>2 DEF Kept
<1>4. Covers(t2, S, lg2, L, p2, q2)
  <2>1. "written" \in Kinds /\ "synced" \in Kinds
        BY DEF Kinds
  <2>2. \A x \in p2 : InTables(t2, S, x) \/ InLogs(lg2, L, "written", x)
        BY <1>1, <1>2, <2>1, InTablesKept, InLogsKept DEF Covers
  <2>3. \A x \in q2 : InTables(t2, S, x) \/ InLogs(lg2, L, "synced", x)
        BY <1>1, <1>2, <2>1, InTablesKept, InLogsKept DEF Covers
  <2> QED BY <2>2, <2>3 DEF Covers
<1> QED BY <1>1, <1>3, <1>4 DEF EndOK, S, L

\* It stays recoverable when writes are promised that are in the newest log.
LEMMA DiskPromises ==
    ASSUME NEW m, NEW t, NEW lg, NEW p, NEW q, NEW p2, NEW q2, NEW l \in DOMAIN lg,
           DiskOK(m, t, lg, p, q),
           \A k \in Ends(m) : k # 0 /\ l >= m.edits[k].log,
           \A x \in p2 : x \in p \/ InLog(lg[l], "written", x),
           \A x \in q2 : x \in q \/ InLog(lg[l], "synced", x)
    PROVE  DiskOK(m, t, lg, p2, q2)
<1> SUFFICES ASSUME NEW k \in Ends(m) PROVE EndOK(m, k, t, lg, p2, q2)
    BY DEF DiskOK
<1>1. k # 0 /\ l >= m.edits[k].log
      OBVIOUS
<1>2. EndOK(m, k, t, lg, p, q)
      BY DEF DiskOK
<1>3. Covers(t, After(m.edits, k), lg, m.edits[k].log, p2, q2)
      BY <1>1, <1>2 DEF EndOK, Covers, InLogs
<1> QED BY <1>1, <1>2, <1>3 DEF EndOK

\* The same when they are in tables S that every version of the manifest has.
LEMMA DiskTabled ==
    ASSUME NEW m, NEW t, NEW lg, NEW p, NEW q, NEW p2, NEW q2, NEW S,
           DiskOK(m, t, lg, p, q),
           \A k \in Ends(m) : k # 0 /\ S \subseteq After(m.edits, k),
           \A x \in p2 : x \in p \/ InTables(t, S, x),
           \A x \in q2 : x \in q \/ InTables(t, S, x)
    PROVE  DiskOK(m, t, lg, p2, q2)
<1> SUFFICES ASSUME NEW k \in Ends(m) PROVE EndOK(m, k, t, lg, p2, q2)
    BY DEF DiskOK
<1>1. k # 0 /\ S \subseteq After(m.edits, k)
      OBVIOUS
<1>2. EndOK(m, k, t, lg, p, q)
      BY DEF DiskOK
<1>3. Covers(t, After(m.edits, k), lg, m.edits[k].log, p2, q2)
      BY <1>1, <1>2 DEF EndOK, Covers, InTables
<1> QED BY <1>1, <1>2, <1>3 DEF EndOK

\* Manifest m2 is m and an edit e, which makes version S; S is there and holds,
\* with the logs the edit names, all that is promised.
Appended(m, m2, e, t, lg, p, q, S) ==
    /\ m \in Manifest /\ m2 \in Manifest /\ e \in Edit
    /\ m.synced <= Len(m.edits) /\ DiskOK(m, t, lg, p, q)
    /\ m2.edits = Append(m.edits, e) /\ m2.synced = m.synced
    /\ S = (After(m.edits, Len(m.edits)) \ e.del) \union e.add0 \union e.add1
    /\ S \subseteq DOMAIN t /\ Covers(t, S, lg, e.log, p, q)
    /\ e.log <= e.next /\ e.next > 0
    /\ \A n \in S : n < e.next
    /\ \A k \in Ends(m) : \A n \in After(m.edits, k) : n < e.next

\* Such a manifest stays recoverable.
LEMMA DiskAppend ==
    ASSUME NEW m, NEW m2, NEW e, NEW t, NEW lg, NEW p, NEW q, NEW S,
           Appended(m, m2, e, t, lg, p, q, S)
    PROVE  /\ DiskOK(m2, t, lg, p, q)
           /\ Ends(m2) = Ends(m) \union {Len(m.edits) + 1}
           /\ \A k \in Ends(m) : /\ After(m2.edits, k) = After(m.edits, k)
                                 /\ k > 0 => m2.edits[k] = m.edits[k]
           /\ After(m2.edits, Len(m.edits) + 1) = S
           /\ m2.edits[Len(m.edits) + 1] = e /\ Len(m2.edits) = Len(m.edits) + 1
<1> USE DEF Appended
<1> DEFINE N == Len(m.edits)
<1>1. m.edits \in Seq(Edit) /\ m.synced \in Nat /\ N \in Nat
      BY DEF Manifest
<1>2. Len(m2.edits) = N + 1 /\ m2.edits[N + 1] = e /\ m2.edits \in Seq(Edit)
      /\ \A k \in 1 .. N : m2.edits[k] = m.edits[k]
      BY <1>1
<1>3. Ends(m2) = Ends(m) \union {N + 1} /\ Ends(m) \subseteq 0 .. N /\ N \in Ends(m)
      BY <1>1, <1>2 DEF Ends
<1>4. \A k \in Ends(m) : After(m2.edits, k) = After(m.edits, k)
      BY <1>1, <1>3, AfterAppend
<1>5. \A k \in Ends(m) : k > 0 => m2.edits[k] = m.edits[k]
      BY <1>1, <1>2, <1>3
<1>6. After(m2.edits, N + 1) = S
  <2>1. N + 1 \in 1 .. Len(m2.edits) /\ (N + 1) - 1 = N
        BY <1>1, <1>2
  <2>2. After(m2.edits, N + 1) = (After(m2.edits, N) \ e.del) \union e.add0 \union e.add1
        BY <1>2, <2>1, AfterStep
  <2> QED BY <1>3, <1>4, <2>2
<1>7. ASSUME NEW k \in Ends(m2) PROVE EndOK(m2, k, t, lg, p, q)
  <2>1. CASE k = N + 1
    <3>1. k # 0
          BY <1>1, <2>1
    <3> QED BY <1>2, <1>6, <2>1, <3>1 DEF EndOK
  <2>2. CASE k \in Ends(m)
    <3>1. k = 0 \/ k > 0
          BY <1>1, <1>3, <2>2
    <3>2. EndOK(m, k, t, lg, p, q)
          BY <2>2 DEF DiskOK
    <3> QED BY <1>4, <1>5, <2>2, <3>1, <3>2 DEF EndOK
  <2> QED BY <1>3, <2>1, <2>2
<1>8. NumbersOK(m2)
  <2> SUFFICES ASSUME NEW k \in Ends(m2), NEW j \in Ends(m2), k <= j, j > 0,
                      NEW n \in After(m2.edits, k)
               PROVE  n < m2.edits[j].next
      BY DEF NumbersOK
  <2>1. CASE j = N + 1
        BY <1>2, <1>3, <1>4, <1>6, <2>1
  <2>2. CASE j \in Ends(m)
    <3>1. k \in Ends(m)
          BY <1>1, <1>3, <2>2
    <3> QED BY <1>4, <1>5, <2>2, <3>1 DEF DiskOK, NumbersOK
  <2> QED BY <1>3, <2>1, <2>2
<1> QED BY <1>2, <1>3, <1>4, <1>5, <1>6, <1>7, <1>8 DEF DiskOK

\* A synced manifest has one end less to recover from.
LEMMA DiskSynced ==
    ASSUME NEW m \in Manifest, NEW m2 \in Manifest, NEW t, NEW lg, NEW p, NEW q,
           m.synced <= Len(m.edits), DiskOK(m, t, lg, p, q),
           m2.edits = m.edits, m2.synced = Len(m.edits)
    PROVE  DiskOK(m2, t, lg, p, q) /\ Ends(m2) = {Len(m.edits)} /\ Ends(m2) \subseteq Ends(m)
<1>1. m.synced \in Nat /\ Len(m.edits) \in Nat
      BY DEF Manifest
<1>2. Ends(m2) = {Len(m.edits)} /\ Ends(m2) \subseteq Ends(m)
      BY <1>1 DEF Ends
<1>3. \A k \in Ends(m2) : EndOK(m2, k, t, lg, p, q)
      BY <1>2 DEF DiskOK, EndOK
<1>4. NumbersOK(m2)
      BY <1>2 DEF DiskOK, NumbersOK
<1> QED BY <1>2, <1>3, <1>4 DEF DiskOK

\* A crash of the machine leaves one of the ends, and only synced writes are
\* still promised.
LEMMA DiskCut ==
    ASSUME NEW m \in Manifest, NEW m2 \in Manifest, NEW t, NEW lg, NEW lg2, NEW p, NEW q,
           m.synced <= Len(m.edits), DiskOK(m, t, lg, p, q), q \subseteq p,
           NEW k \in Ends(m), m2.edits = SubSeq(m.edits, 1, k), m2.synced = k,
           DOMAIN lg2 = DOMAIN lg,
           \A n \in DOMAIN lg : \A x : \A kind \in Kinds :
               InLog(lg[n], "synced", x) => InLog(lg2[n], kind, x)
    PROVE  DiskOK(m2, t, lg2, q, q)
<1>1. m.edits \in Seq(Edit) /\ m.synced \in Nat /\ k \in 0 .. Len(m.edits)
      BY DEF Manifest, Ends
<1>2. /\ Len(m2.edits) = k /\ \A i \in 1 .. k : m2.edits[i] = m.edits[i]
      /\ After(m2.edits, k) = After(m.edits, k)
      BY <1>1, AfterCut
<1>3. Ends(m2) = {k}
      BY <1>1, <1>2 DEF Ends
<1>4. EndOK(m2, k, t, lg2, q, q)
  <2>1. CASE k = 0
        BY <2>1 DEF DiskOK, EndOK
  <2>2. CASE k # 0
    <3>1. m2.edits[k] = m.edits[k]
          BY <1>1, <1>2, <2>2
    <3>2. EndOK(m, k, t, lg, p, q)
          BY DEF DiskOK
    <3>3. Covers(t, After(m.edits, k), lg2, m.edits[k].log, q, q)
          BY <2>2, <3>2 DEF EndOK, Covers, InLogs, Kinds
    <3> QED BY <1>2, <2>2, <3>1, <3>2, <3>3 DEF EndOK
  <2> QED BY <2>1, <2>2
<1>5. NumbersOK(m2)
  <2> SUFFICES ASSUME k > 0, NEW n \in After(m.edits, k) PROVE n < m2.edits[k].next
      BY <1>2, <1>3 DEF NumbersOK
  <2>1. m2.edits[k] = m.edits[k]
        BY <1>1, <1>2
  <2> QED BY <1>1, <2>1 DEF DiskOK, NumbersOK
<1> QED BY <1>3, <1>4, <1>5 DEF DiskOK

-----------------------------------------------------------------------------
(* What a step leaves alone.                                               *)

\* The parts of the invariant hold after a step that changes nothing they name.
LEMMA DiskFrame ==
    ASSUME Disk, UNCHANGED <<current, manifests, tables, logs, promised, synced>>
    PROVE  Disk'
BY DEF Disk

\* The same for Idle.
LEMMA IdleFrame ==
    ASSUME Idle, UNCHANGED <<phase, mem, imm, merge, bg, iterators, pending_outputs,
                             bg_error, edit, version, risked>>
    PROVE  Idle'
BY DEF Idle, Running

\* The same for Numbers.
LEMMA NumbersFrame ==
    ASSUME Numbers, UNCHANGED <<phase, current, manifest_file_number, manifests,
                                next_file_number, version, pending_outputs, replay,
                                logs, logfile_number>>
    PROVE  Numbers'
BY DEF Numbers

\* The same for Recovered.
LEMMA RecoveredFrame ==
    ASSUME Recovered, UNCHANGED <<phase, edit, version, tables, next_file_number, promised,
                                  replay, logs, logfile_number, manifest_file_number,
                                  manifests, current>>
    PROVE  Recovered'
BY DEF Recovered, Recovering

\* The same for Engine.
LEMMA EngineFrame ==
    ASSUME Engine, UNCHANGED <<phase, current, manifest_file_number, version, tables, bg,
                               bg_error, manifests, log_number, logfile_number>>
    PROVE  Engine'
BY DEF Engine, Running, Base

\* The same for Acknowledged.
LEMMA AcknowledgedFrame ==
    ASSUME Acknowledged, UNCHANGED <<phase, promised, synced, risked, mem, imm, logs,
                                     logfile_number, log_number, tables, version>>
    PROVE  Acknowledged'
BY DEF Acknowledged, Running, FoundAs

\* The same for Merging.
LEMMA MergingFrame ==
    ASSUME Merging, UNCHANGED <<phase, merge, tables, next_file_number, pending_outputs,
                                version, iterators, manifests, current, bg, edit, log_number>>
    PROVE  Merging'
BY DEF Merging, Running, Unread, InstallsMerge, Contents

\* The same for Flushing.
LEMMA FlushingFrame ==
    ASSUME Flushing, UNCHANGED <<phase, merge, tables, next_file_number, version, iterators,
                                 manifests, current, bg, edit, logfile_number, imm>>
    PROVE  Flushing'
BY DEF Flushing, Running, Unread

\* The same for Background.
LEMMA BackgroundFrame ==
    ASSUME Background, UNCHANGED <<phase, bg, merge, imm, edit, manifests, current>>
    PROVE  Background'
BY DEF Background, Running

\* The same for Iterators.
LEMMA IteratorsFrame ==
    ASSUME Iterators, UNCHANGED <<iterators, tables, next_file_number>>
    PROVE  Iterators'
BY DEF Iterators

\* The same for Queue.
LEMMA QueueFrame ==
    ASSUME Queue, UNCHANGED <<phase, writers, pc, request, group, issued>>
    PROVE  Queue'
BY DEF Queue

\* The same for Group.
LEMMA GroupFrame ==
    ASSUME Group, UNCHANGED <<pc, group, request, logs, logfile_number>>
    PROVE  Group'
BY DEF Group, RecordRead

-----------------------------------------------------------------------------
(* The queue of writers.                                                   *)

\* Whoever is in the queue and does not wait is its front, and the database is
\* open.
LEMMA FrontOfQueue ==
    ASSUME QueueType, Queue, NEW w \in Writers, pc[w] \notin {"idle", "waiting"}
    PROVE  /\ Len(writers) \in Nat /\ Len(writers) >= 1
           /\ DOMAIN writers = 1 .. Len(writers) /\ w = writers[1]
           /\ phase = "open"
<1>1. Len(writers) \in Nat /\ DOMAIN writers = 1 .. Len(writers)
      BY DEF QueueType
<1>2. PICK i \in DOMAIN writers : writers[i] = w
      BY DEF Queue
<1>3. i = 1
      BY <1>1, <1>2 DEF Queue
<1>4. writers # <<>>
      BY <1>1, <1>2
<1> QED BY <1>1, <1>2, <1>3, <1>4 DEF Queue

\* The group that BuildBatchGroup makes is a nonempty part of the queue from its
\* front, and has a writer that syncs only if its first one does.
LEMMA GroupBuilt ==
    ASSUME writers \in Seq(Writers), Len(writers) >= 1
    PROVE  \E n \in 1 .. Len(writers) :
              /\ BuildBatchGroup = SubSeq(writers, 1, n)
              /\ \A i \in 1 .. n : writers[i] \in SyncWriters => writers[1] \in SyncWriters
<1> DEFINE joins(i) == /\ writers[i] \in SyncWriters => Head(writers) \in SyncWriters
                       /\ i <= MaxGroup
           T == {k \in 1 .. Len(writers) : \A i \in 2 .. k : joins(i)}
           N == Len(writers)
<1>1. N \in Nat /\ Head(writers) = writers[1]
      OBVIOUS
<1>2. T \in SUBSET Nat /\ IsFiniteSet(T)
  <2>1. T \in SUBSET (1 .. N) /\ IsFiniteSet(1 .. N)
        BY <1>1, FS_Interval
  <2> QED BY <2>1, FS_Subset
<1>3. 1 \in T
  <2>1. 1 \in 1 .. N
        BY <1>1
  <2>2. \A i \in 2 .. 1 : FALSE
        OBVIOUS
  <2> HIDE DEF joins, N
  <2> QED BY <2>1, <2>2 DEF N
<1>4. Max(T) \in T
  <2> HIDE DEF T, N
  <2> QED BY <1>2, <1>3, MaxFacts
<1>5. BuildBatchGroup = SubSeq(writers, 1, Max(T))
      BY DEF BuildBatchGroup
<1>6. PICK n \in T : n = Max(T)
      BY <1>4
<1> HIDE DEF T
<1>7. n \in 1 .. N /\ \A i \in 2 .. n : joins(i)
      BY <1>6 DEF T
<1>8. \A i \in 1 .. n : writers[i] \in SyncWriters => writers[1] \in SyncWriters
      BY <1>1, <1>7
<1> QED BY <1>5, <1>6, <1>7, <1>8

\* What Leave leaves: a queue without its first n writers whose front goes on.
LEMMA LeaveOK ==
    ASSUME QueueType, Queue, NEW p \in [Writers -> Places], NEW n \in 1 .. Len(writers),
           \A v \in Writers : p[v] = pc[v] \/ pc[v] = "bgwait",
           Leave(p, n), phase' = phase, issued' = issued
    PROVE  QueueType' /\ Queue' /\ Group'
<1> DEFINE rest == SubSeq(writers, n + 1, Len(writers))
           left == {writers[i] : i \in 1 .. n}
           N == Len(writers)
<1>1. N \in Nat /\ n \in Nat /\ n >= 1 /\ n <= N /\ DOMAIN writers = 1 .. N
      BY DEF QueueType
<1>2. /\ rest \in Seq(Writers) /\ Len(rest) = N - n /\ DOMAIN rest = 1 .. (N - n)
      /\ \A i \in 1 .. (N - n) : rest[i] = writers[i + n]
  <2>1. writers \in Seq(Writers) /\ n + 1 \in 1 .. N + 1 /\ N \in (n + 1) - 1 .. N
        BY <1>1 DEF QueueType
  <2>2. /\ rest \in Seq(Writers) /\ Len(rest) = N - (n + 1) + 1
        /\ \A i \in 1 .. N - (n + 1) + 1 : rest[i] = writers[(n + 1) + i - 1]
        BY <2>1, SubSeqProperties
  <2>3. N - (n + 1) + 1 = N - n /\ \A i \in 1 .. (N - n) : (n + 1) + i - 1 = i + n
        BY <1>1
  <2> HIDE DEF rest, N
  <2>4. /\ rest \in Seq(Writers) /\ Len(rest) = N - n
        /\ \A i \in 1 .. (N - n) : rest[i] = writers[(n + 1) + i - 1]
        BY <2>2, <2>3
  <2> QED BY <2>3, <2>4
<1>3. rest # <<>> => Head(rest) = rest[1] /\ N - n >= 1
  <2> HIDE DEF rest, N
  <2> QED BY <1>1, <1>2
<1>4. \A i \in 1 .. (N - n) : /\ i + n \in DOMAIN writers /\ i + n > 1
                              /\ rest[i] \in Writers /\ rest[i] \notin left
                              /\ p[rest[i]] = "waiting"
  <2> SUFFICES ASSUME NEW i \in 1 .. (N - n)
               PROVE  /\ i + n \in DOMAIN writers /\ i + n > 1
                      /\ rest[i] \in Writers /\ rest[i] \notin left
                      /\ p[rest[i]] = "waiting"
      OBVIOUS
  <2>1. i + n \in DOMAIN writers /\ i + n > 1 /\ rest[i] = writers[i + n]
    <3> HIDE DEF rest, N
    <3> QED BY <1>1, <1>2
  <2>2. writers[i + n] \in Writers
        BY <2>1 DEF QueueType
  <2>3. pc[writers[i + n]] = "waiting"
        BY <2>1 DEF Queue
  <2>4. \A j \in 1 .. n : writers[j] # writers[i + n]
        BY <1>1, <2>1 DEF Queue
  <2> HIDE DEF rest
  <2> QED BY <2>1, <2>2, <2>3, <2>4
<1>5. /\ writers' = rest /\ group' = <<>>
      /\ pc' = [w \in Writers |-> IF w \in left THEN "idle"
                                  ELSE IF rest # <<>> /\ w = Head(rest) THEN "room"
                                  ELSE p[w]]
      /\ request' = [w \in Writers |-> IF w \in left THEN 0 ELSE request[w]]
      BY DEF Leave
<1>6. ASSUME NEW w \in Writers
      PROVE  w \in left \/ p[w] = "idle" \/ \E i \in DOMAIN rest : rest[i] = w
  <2>1. CASE pc[w] = "idle"
        BY <2>1
  <2>2. CASE pc[w] # "idle"
    <3>1. PICK i \in DOMAIN writers : writers[i] = w
          BY <2>2 DEF Queue
    <3>2. CASE i <= n
          BY <1>1, <3>1, <3>2
    <3>3. CASE i > n
      <4>1. i - n \in 1 .. (N - n) /\ (i - n) + n = i
            BY <1>1, <3>1, <3>3
      <4> QED BY <1>2, <3>1, <4>1
    <3> QED BY <1>1, <3>1, <3>2, <3>3
  <2> QED BY <2>1, <2>2
<1> HIDE DEF rest, left, N
<1>7. \A w \in Writers : pc'[w] \in {"idle", "room", "waiting"}
      BY <1>2, <1>4, <1>5, <1>6
<1>8. QueueType'
  <2>1. <<>> \in Seq(Writers)
        OBVIOUS
  <2>2. pc' \in [Writers -> Places]
        BY <1>5 DEF Places
  <2>3. request' \in [Writers -> Nat]
        BY <1>5 DEF QueueType
  <2> QED BY <1>2, <1>5, <2>1, <2>2, <2>3 DEF QueueType
<1>9. ASSUME NEW i \in DOMAIN rest
      PROVE  pc'[rest[i]] # "idle" /\ (i > 1 <=> pc'[rest[i]] = "waiting")
  <2>1. i \in 1 .. (N - n) /\ rest[i] \in Writers /\ rest[i] \notin left /\ p[rest[i]] = "waiting"
        BY <1>2, <1>4
  <2>2. rest # <<>> /\ Head(rest) = rest[1] /\ 1 \in 1 .. (N - n)
        BY <1>1, <1>2, <1>3, <2>1
  <2>3. CASE i = 1
        BY <1>5, <2>1, <2>2, <2>3
  <2>4. CASE i > 1
    <3>1. rest[i] # rest[1]
      <4>1. i + n \in DOMAIN writers /\ 1 + n \in DOMAIN writers /\ i + n # 1 + n
            BY <1>1, <2>1, <2>2, <2>4
      <4>2. writers[i + n] # writers[1 + n]
            BY <4>1 DEF Queue
      <4> QED BY <1>2, <2>1, <2>2, <4>2
    <3> QED BY <1>5, <2>1, <2>2, <2>4, <3>1
  <2> QED BY <1>1, <2>1, <2>3, <2>4
<1>10. Queue'
  <2>1. ASSUME NEW w \in Writers
        PROVE  pc'[w] # "idle" <=> \E i \in DOMAIN rest : rest[i] = w
    <3>1. (\E i \in DOMAIN rest : rest[i] = w) => pc'[w] # "idle"
          BY <1>9
    <3>2. CASE w \in left
          BY <1>2, <1>4, <1>5, <3>2
    <3>3. CASE p[w] = "idle" /\ w \notin left /\ ~\E i \in DOMAIN rest : rest[i] = w
      <4>1. ~(rest # <<>> /\ w = Head(rest))
            BY <1>1, <1>2, <1>3, <3>3
      <4> QED BY <1>5, <3>3, <4>1
    <3> QED BY <1>6, <3>1, <3>2, <3>3
  <2>2. ASSUME NEW i \in DOMAIN rest, NEW j \in DOMAIN rest, rest[i] = rest[j] PROVE i = j
    <3>1. i + n \in DOMAIN writers /\ j + n \in DOMAIN writers /\ writers[i + n] = writers[j + n]
          BY <1>2, <1>4, <2>2
    <3>2. i + n = j + n
          BY <3>1 DEF Queue
    <3> QED BY <1>1, <1>2, <3>2
  <2>3. ASSUME NEW w \in Writers, pc'[w] # "idle" PROVE request'[w] \in 1 .. issued
    <3>1. w \notin left
          BY <1>5, <2>3
    <3>2. pc[w] # "idle"
      <4>1. PICK i \in DOMAIN rest : rest[i] = w
            BY <2>1, <2>3
      <4>2. i + n \in DOMAIN writers /\ writers[i + n] = w
            BY <1>2, <1>4, <4>1
      <4> QED BY <4>2 DEF Queue
    <3> QED BY <1>5, <3>1, <3>2 DEF Queue
  <2>4. phase' # "open" => rest = <<>>
    <3>1. phase = "open"
      <4>1. writers # <<>>
            BY <1>1 DEF N
      <4> QED BY <4>1 DEF Queue
    <3> QED BY <3>1
  <2>5. Len(<<>>) = 0 /\ DOMAIN <<>> = {} /\ Len(rest) >= 0
        BY <1>1, <1>2
  <2>6. /\ writers' = rest /\ group' = <<>> /\ issued' = issued
        /\ Len(group') = 0 /\ DOMAIN group' = {}
        BY <1>5, <2>5
  <2>7. /\ phase' # "open" => writers' = <<>>
        /\ \A w \in Writers : pc'[w] # "idle" <=> \E i \in DOMAIN writers' : writers'[i] = w
        /\ \A i, j \in DOMAIN writers' : writers'[i] = writers'[j] => i = j
        BY <2>1, <2>2, <2>4, <2>6
  <2>8. /\ \A i \in DOMAIN writers' : i > 1 <=> pc'[writers'[i]] = "waiting"
        /\ \A w \in Writers : pc'[w] # "idle" => request'[w] \in 1 .. issued'
        BY <1>9, <2>3, <2>6
  <2>9. Len(group') <= Len(writers') /\ \A i \in DOMAIN group' : group'[i] = writers'[i]
        BY <2>5, <2>6
  <2> QED BY <2>7, <2>8, <2>9 DEF Queue
<1>11. Group'
       BY <1>7 DEF Group
<1> QED BY <1>8, <1>10, <1>11

\* SignalAll wakes the writer that waits for the background thread.
LEMMA SignalAllOK ==
    ASSUME QueueType
    PROVE  /\ SignalAll \in [Writers -> Places]
           /\ \A v \in Writers : SignalAll[v] = pc[v] \/ pc[v] = "bgwait"
BY DEF QueueType, SignalAll, Places

\* It changes nothing else in the queue.
LEMMA SignalOK ==
    ASSUME QueueType, Queue, Group, pc' = SignalAll,
           UNCHANGED <<phase, writers, request, group, issued>>, RecordRead' = RecordRead,
           \A g \in {"written", "synced"} : \A x :
               InLog(logs[logfile_number], g, x) => InLog(logs[logfile_number], g, x)'
    PROVE  QueueType' /\ Queue' /\ Group'
<1>1. \A w \in Writers : pc'[w] = pc[w] \/ (pc[w] = "bgwait" /\ pc'[w] = "room")
      BY DEF QueueType, SignalAll
<1>2. QueueType'
      BY <1>1, SignalAllOK DEF QueueType
<1>3. Queue'
  <2>1. \A i \in DOMAIN writers : writers[i] \in Writers
        BY DEF QueueType
  <2>2. \A w \in Writers : /\ pc'[w] = "idle" <=> pc[w] = "idle"
                           /\ pc'[w] = "waiting" <=> pc[w] = "waiting"
        BY <1>1
  <2> QED BY <2>1, <2>2 DEF Queue
<1>4. Group'
      BY <1>1 DEF Group
<1> QED BY <1>2, <1>3, <1>4

-----------------------------------------------------------------------------
(* The steps of a writer.                                                  *)

\* The variables that a step of the queue leaves alone.
QueueLeaves ==
    UNCHANGED <<diskVars, phaseVars, mem, imm, logfile_number, versionVars, bg, merge, edit,
                pending_outputs, iterators, promiseVars>>

\* A step that changes only the queue, or sets the error of an open database.
LEMMA QueueStep ==
    ASSUME Inv, QueueLeaves, QueueType', Queue', Group',
           bg_error' = bg_error \/ (bg_error' = TRUE /\ phase = "open"),
           last_sequence' \in Nat, issued' \in Nat, issued' >= issued
    PROVE  Inv'
<1> USE DEF Inv, QueueLeaves, diskVars, phaseVars, versionVars, promiseVars
<1>1. LogsType' /\ TablesType' /\ ManifestsType'
      BY DEF Typed, LogsType, TablesType, ManifestsType
<1>2. MemoryType'
      BY DEF Typed, MemoryType
<1>3. NumbersType'
      BY DEF Typed, NumbersType
<1>4. Disk'
      BY DiskFrame
<1>5. Idle'
      BY DEF Idle, Running
<1>6. Numbers' /\ Recovered' /\ Acknowledged' /\ Merging' /\ Flushing' /\ Background' /\ Iterators'
      BY NumbersFrame, RecoveredFrame, AcknowledgedFrame, MergingFrame, FlushingFrame,
         BackgroundFrame, IteratorsFrame
<1>7. Engine'
      BY DEF Engine, Running, Base
<1> QED BY <1>1, <1>2, <1>3, <1>4, <1>5, <1>6, <1>7 DEF Typed

\* DBImpl::Write: a writer joins the queue.
LEMMA WriteInv ==
    ASSUME Inv, NEW w \in Writers, Write(w) PROVE Inv'
<1> USE DEF Inv, Typed
<1> DEFINE N == Len(writers)
<1>1. /\ writers \in Seq(Writers) /\ group \in Seq(Writers) /\ N \in Nat
      /\ DOMAIN writers = 1 .. N
      /\ pc \in [Writers -> Places] /\ request \in [Writers -> Nat]
      BY DEF QueueType
<1>2. issued \in Nat /\ issued' = issued + 1
      BY DEF Write, NumbersType
<1>3. /\ writers' = Append(writers, w) /\ request' = [request EXCEPT ![w] = issued + 1]
      /\ pc' = [pc EXCEPT ![w] = IF writers = <<>> THEN "room" ELSE "waiting"]
      /\ group' = group /\ phase = "open" /\ phase' = phase /\ pc[w] = "idle"
      /\ logs' = logs /\ logfile_number' = logfile_number
      BY DEF Write, diskVars, phaseVars, memVars
<1>4. /\ writers' \in Seq(Writers) /\ Len(writers') = N + 1 /\ DOMAIN writers' = 1 .. (N + 1)
      /\ writers'[N + 1] = w /\ \A i \in 1 .. N : writers'[i] = writers[i]
      /\ (writers = <<>> <=> N = 0)
      BY <1>1, <1>3
<1>5. pc' \in [Writers -> Places] /\ request' \in [Writers -> Nat]
      BY <1>1, <1>2, <1>3 DEF Places
<1>6. QueueType'
      BY <1>1, <1>3, <1>4, <1>5 DEF QueueType
<1>7. \A i \in 1 .. N : writers[i] # w /\ writers[i] \in Writers
  <2>1. ~\E i \in DOMAIN writers : writers[i] = w
        BY <1>3 DEF Queue
  <2>2. \A i \in DOMAIN writers : writers[i] \in Writers
        BY <1>1, Element
  <2> HIDE DEF N
  <2> QED BY <1>1, <2>1, <2>2
<1>8. /\ pc'[w] = (IF N = 0 THEN "room" ELSE "waiting") /\ request'[w] = issued + 1
      /\ \A v \in Writers : v # w => pc'[v] = pc[v] /\ request'[v] = request[v]
      BY <1>1, <1>3, <1>4
<1> HIDE DEF N
<1>9. Queue'
  <2>1. ASSUME NEW v \in Writers
        PROVE  pc'[v] # "idle" <=> \E i \in 1 .. (N + 1) : writers'[i] = v
    <3>1. CASE v = w
          BY <1>1, <1>4, <1>8, <3>1
    <3>2. CASE v # w
      <4>1. pc'[v] # "idle" <=> \E i \in 1 .. N : writers[i] = v
            BY <1>1, <1>8, <3>2 DEF Queue
      <4>2. \A i \in 1 .. (N + 1) : i \in 1 .. N \/ i = N + 1
            BY <1>1
      <4>3. \A i \in 1 .. N : i \in 1 .. (N + 1)
            BY <1>1
      <4> QED BY <1>4, <3>2, <4>1, <4>2, <4>3
    <3> QED BY <3>1, <3>2
  <2>2. ASSUME NEW i \in 1 .. (N + 1), NEW j \in 1 .. (N + 1), writers'[i] = writers'[j]
        PROVE  i = j
    <3>1. \A x \in 1 .. (N + 1) : x \in 1 .. N \/ x = N + 1
          BY <1>1
    <3>2. CASE i \in 1 .. N /\ j \in 1 .. N
      <4>1. writers[i] = writers[j]
            BY <1>4, <2>2, <3>2
      <4> QED BY <1>1, <3>2, <4>1 DEF Queue
    <3>3. CASE i \in 1 .. N /\ j = N + 1
          BY <1>4, <1>7, <2>2, <3>3
    <3>4. CASE i = N + 1 /\ j \in 1 .. N
          BY <1>4, <1>7, <2>2, <3>4
    <3> QED BY <3>1, <3>2, <3>3, <3>4
  <2>3. ASSUME NEW i \in 1 .. (N + 1) PROVE i > 1 <=> pc'[writers'[i]] = "waiting"
    <3>1. CASE i = N + 1
      <4>1. writers'[i] = w
            BY <1>4, <3>1
      <4>2. CASE N = 0
            BY <1>8, <3>1, <4>1, <4>2
      <4>3. CASE N > 0
            BY <1>1, <1>8, <3>1, <4>1, <4>3
      <4> QED BY <1>1, <4>2, <4>3
    <3>2. CASE i \in 1 .. N
      <4>1. /\ writers'[i] = writers[i] /\ pc'[writers[i]] = pc[writers[i]]
            BY <1>4, <1>7, <1>8, <3>2
      <4>2. i > 1 <=> pc[writers[i]] = "waiting"
            BY <1>1, <3>2 DEF Queue
      <4> QED BY <4>1, <4>2
    <3>3. i = N + 1 \/ i \in 1 .. N
          BY <1>1
    <3> QED BY <3>1, <3>2, <3>3
  <2>4. ASSUME NEW v \in Writers, pc'[v] # "idle" PROVE request'[v] \in 1 .. issued'
    <3>1. CASE v = w
          BY <1>2, <1>8, <3>1
    <3>2. CASE v # w
          BY <1>2, <1>8, <2>4, <3>2 DEF Queue
    <3> QED BY <3>1, <3>2
  <2>5. /\ Len(group') <= Len(writers')
        /\ \A i \in DOMAIN group' : group'[i] = writers'[i]
    <3>1. Len(group) \in Nat /\ Len(group) <= N /\ DOMAIN group = 1 .. Len(group)
          BY <1>1 DEF Queue, N
    <3> QED BY <1>1, <1>3, <1>4, <3>1 DEF Queue
  <2>6. DOMAIN writers' = 1 .. (N + 1) /\ (phase' # "open" => writers' = <<>>)
        BY <1>3, <1>4
  <2>7. \A i \in DOMAIN writers' : i > 1 <=> pc'[writers'[i]] = "waiting"
        BY <2>3, <2>6
  <2>8. \A v \in Writers : pc'[v] # "idle" <=> \E i \in DOMAIN writers' : writers'[i] = v
        BY <2>1, <2>6
  <2>9. \A i, j \in DOMAIN writers' : writers'[i] = writers'[j] => i = j
        BY <2>2, <2>6
  <2>10. \A v \in Writers : pc'[v] # "idle" => request'[v] \in 1 .. issued'
        BY <2>4
  <2> QED BY <2>5, <2>6, <2>7, <2>8, <2>9, <2>10 DEF Queue
<1>10. Group'
  <2> SUFFICES ASSUME NEW v \in Writers, pc'[v] \in {"sync", "apply"}
               PROVE  /\ group' # <<>>
                      /\ \A i \in DOMAIN group' :
                            /\ RecordRead' =>
                                  InLog(logs[logfile_number], "written", request[group[i]])'
                            /\ group'[i] \in SyncWriters => v \in SyncWriters
                            /\ RecordRead' /\ pc'[v] = "apply" /\ v \in SyncWriters =>
                                  InLog(logs[logfile_number], "synced", request[group[i]])'
      BY DEF Group
  <2>1. v # w /\ pc[v] \in {"sync", "apply"}
        BY <1>8
  <2>2. \A i \in DOMAIN group : group[i] \in Writers /\ group[i] # w
    <3>1. Len(group) \in Nat /\ Len(group) <= N /\ DOMAIN group = 1 .. Len(group)
          BY <1>1 DEF Queue, N
    <3> QED BY <1>1, <1>7, <3>1 DEF Queue
  <2>3. \A i \in DOMAIN group : request'[group[i]] = request[group[i]]
        BY <1>8, <2>2
  <2> QED BY <1>3, <1>8, <2>1, <2>3 DEF Group, RecordRead
<1>11. QueueLeaves /\ bg_error' = bg_error /\ last_sequence' \in Nat
       BY DEF Write, QueueLeaves, memVars, bgVars, NumbersType
<1>12. issued' \in Nat /\ issued' >= issued
       BY <1>2
<1> QED BY <1>6, <1>9, <1>10, <1>11, <1>12, QueueStep

\* MakeRoomForWrite: an error, a wait, or a new log that cannot be made.
LEMMA RoomInv ==
    ASSUME Inv, NEW w \in Writers, RoomError(w) \/ RoomWait(w) \/ RoomSwitchFails(w)
    PROVE  Inv'
<1> USE DEF Inv, Typed
<1>1. pc[w] = "room"
      BY DEF RoomError, RoomWait, RoomSwitchFails
<1>2. /\ Len(writers) \in Nat /\ Len(writers) >= 1 /\ phase = "open"
      /\ DOMAIN writers = 1 .. Len(writers) /\ w = writers[1]
      BY <1>1, FrontOfQueue
<1>3. QueueLeaves /\ bg_error' = bg_error /\ last_sequence' \in Nat /\ issued' = issued
      BY DEF RoomError, RoomWait, RoomSwitchFails, QueueLeaves, memVars, bgVars, boundVars,
             NumbersType
<1>4. issued \in Nat /\ phase' = phase /\ logs' = logs /\ logfile_number' = logfile_number
      BY <1>3 DEF QueueLeaves, phaseVars, diskVars, NumbersType
<1>5. CASE RoomError(w) \/ RoomSwitchFails(w)
  <2>1. Leave(pc, 1)
        BY <1>5 DEF RoomError, RoomSwitchFails
  <2>2. pc \in [Writers -> Places] /\ 1 \in 1 .. Len(writers)
        BY <1>2 DEF QueueType
  <2>3. QueueType' /\ Queue' /\ Group'
        BY <1>3, <1>4, <2>1, <2>2, LeaveOK
  <2> QED BY <1>3, <1>4, <2>3, QueueStep
<1>6. CASE RoomWait(w)
  <2>1. /\ pc' = [pc EXCEPT ![w] = "bgwait"]
        /\ UNCHANGED <<writers, request, group, logs, logfile_number>>
        BY <1>6 DEF RoomWait, diskVars, memVars
  <2>2. QueueType'
        BY <2>1 DEF QueueType, Places
  <2>3. \A v \in Writers : pc'[v] = pc[v] \/ (pc[v] = "room" /\ pc'[v] = "bgwait")
        BY <1>1, <2>1 DEF QueueType
  <2>4. Queue'
    <3>1. \A i \in DOMAIN writers : writers[i] \in Writers
          BY DEF QueueType
    <3>2. \A v \in Writers : /\ pc'[v] = "idle" <=> pc[v] = "idle"
                             /\ pc'[v] = "waiting" <=> pc[v] = "waiting"
          BY <2>3
    <3> QED BY <1>3, <1>4, <2>1, <3>1, <3>2 DEF Queue
  <2>5. Group'
        BY <2>1, <2>3 DEF Group, RecordRead
  <2> QED BY <1>3, <1>4, <2>2, <2>4, <2>5, QueueStep
<1> QED BY <1>5, <1>6

\* log_->AddRecord or logfile_->Sync fails.
LEMMA WriteFailsInv ==
    ASSUME Inv, NEW w \in Writers, AddRecordFails(w) \/ SyncLogFails(w)
    PROVE  Inv'
<1> USE DEF Inv, Typed
<1>1. pc[w] \in {"room", "sync"}
      BY DEF AddRecordFails, HasRoom, SyncLogFails
<1>2. /\ Len(writers) \in Nat /\ Len(writers) >= 1 /\ phase = "open"
      /\ DOMAIN writers = 1 .. Len(writers) /\ w = writers[1]
      BY <1>1, FrontOfQueue
<1>3. QueueLeaves /\ (bg_error' = bg_error \/ bg_error' = TRUE) /\ issued' = issued
      BY DEF AddRecordFails, SyncLogFails, QueueLeaves, memVars, bgVars
<1>4. issued \in Nat /\ phase' = phase /\ last_sequence \in Nat
      BY <1>3 DEF QueueLeaves, phaseVars, NumbersType
<1>5. CASE AddRecordFails(w)
  <2>1. PICK n \in 1 .. Len(writers) : BuildBatchGroup = SubSeq(writers, 1, n)
        BY <1>2, GroupBuilt DEF QueueType
  <2>2. Len(BuildBatchGroup) = n
        BY <1>2, <2>1 DEF QueueType
  <2>3. Leave(pc, n) /\ last_sequence' = last_sequence + n
        BY <1>5, <2>2 DEF AddRecordFails
  <2>4. pc \in [Writers -> Places] /\ n \in Nat
        BY <2>1 DEF QueueType
  <2>5. QueueType' /\ Queue' /\ Group'
        BY <1>3, <1>4, <2>3, <2>4, LeaveOK
  <2>6. last_sequence' \in Nat
        BY <1>4, <2>3, <2>4
  <2>7. issued' >= issued /\ issued' \in Nat
        BY <1>3, <1>4
  <2> QED BY <1>2, <1>3, <2>5, <2>6, <2>7, QueueStep
<1>6. CASE SyncLogFails(w)
  <2>1. group # <<>> /\ pc[w] = "sync"
        BY <1>6 DEF SyncLogFails, Group
  <2>2. Len(group) \in 1 .. Len(writers)
        BY <2>1, <1>2 DEF Queue, QueueType
  <2>3. Leave(SignalAll, Len(group)) /\ last_sequence' = last_sequence + Len(group)
        BY <1>6 DEF SyncLogFails
  <2>4. QueueType' /\ Queue' /\ Group'
        BY <1>3, <1>4, <2>2, <2>3, LeaveOK, SignalAllOK
  <2>5. last_sequence' \in Nat
        BY <1>4, <2>2, <2>3
  <2>7. issued' >= issued /\ issued' \in Nat
        BY <1>3, <1>4
  <2> QED BY <1>2, <1>3, <2>4, <2>5, <2>7, QueueStep
<1> QED BY <1>5, <1>6

\* The entries of a group are finitely many, and hold the writes of its members.
LEMMA EntriesFacts ==
    ASSUME QueueType, last_sequence \in Nat, NEW g \in Seq(Writers)
    PROVE  /\ Entries(g) \in FiniteEntries
           /\ \A x : Has(Entries(g), x) <=> \E i \in DOMAIN g : x = request[g[i]]
<1> DEFINE f == [i \in DOMAIN g |-> [seq |-> last_sequence + i, id |-> request[g[i]]]]
<1>1. DOMAIN g = 1 .. Len(g) /\ Len(g) \in Nat /\ \A i \in DOMAIN g : g[i] \in Writers
      BY Element
<1>2. Entries(g) = {f[i] : i \in DOMAIN g}
      BY DEF Entries
<1>3. IsFiniteSet(Entries(g))
  <2>1. IsFiniteSet(DOMAIN g)
        BY <1>1, FS_Interval
  <2> HIDE DEF f
  <2> QED BY <1>2, <2>1, FiniteImage
<1>4. \A i \in DOMAIN g : f[i] \in Entry
      BY <1>1 DEF Entry, QueueType
<1>5. Entries(g) \in SUBSET Entry
  <2> HIDE DEF f
  <2> QED BY <1>2, <1>4
<1>6. \A x : Has(Entries(g), x) <=> \E i \in DOMAIN g : x = request[g[i]]
  <2>1. \A i \in DOMAIN g : f[i].id = request[g[i]]
        OBVIOUS
  <2> HIDE DEF f
  <2> QED BY <1>2, <2>1 DEF Has
<1> QED BY <1>3, <1>5, <1>6 DEF FiniteEntries

\* What is in the log stays in it when a record is appended or synced.
LEMMA LogGrows ==
    ASSUME NEW g \in Log, NEW g2 \in Log, NEW E,
           \/ g2.recs = Append(g.recs, E) /\ g2.synced = g.synced
           \/ g2.recs = g.recs /\ g2.synced >= g.synced
    PROVE  \A kind \in Kinds : \A x : InLog(g, kind, x) => InLog(g2, kind, x)
<1> SUFFICES ASSUME NEW kind \in Kinds, NEW x, InLog(g, kind, x) PROVE InLog(g2, kind, x)
    OBVIOUS
<1>1. PICK i \in DOMAIN g.recs : (kind = "synced" => i <= g.synced) /\ Has(g.recs[i], x)
      BY DEF InLog
<1>2. g.recs \in Seq(FiniteEntries) /\ g.synced \in Nat /\ g2.synced \in Nat /\ i \in Nat
      BY <1>1 DEF Log
<1>3. i \in DOMAIN g2.recs /\ g2.recs[i] = g.recs[i]
  <2>1. CASE g2.recs = Append(g.recs, E)
        BY <1>1, <1>2, <2>1
  <2>2. CASE g2.recs = g.recs
        BY <1>1, <2>2
  <2> QED BY <2>1, <2>2
<1>4. g2.synced >= g.synced
      BY <1>2
<1>5. kind = "synced" => i <= g2.synced
      BY <1>1, <1>2, <1>4
<1> QED BY <1>1, <1>3, <1>5 DEF InLog

\* The variables that a step of the log leaves alone.
LogLeaves ==
    UNCHANGED <<tables, manifests, current, phaseVars, writers, request, memVars,
                versionVars, last_sequence, bgVars, iterators, promiseVars, boundVars>>

\* A step of the front writer that adds to the newest log only.
LEMMA LogStep ==
    ASSUME Inv, phase = "open", LogLeaves, QueueType', Queue', Group',
           NEW g2 \in Log, g2.synced <= Len(g2.recs),
           logs' = [logs EXCEPT ![logfile_number] = g2],
           \A kind \in Kinds : \A x :
               InLog(logs[logfile_number], kind, x) => InLog(g2, kind, x)
    PROVE  Inv'
<1> USE DEF Inv, LogLeaves, phaseVars, memVars, versionVars, promiseVars, bgVars, boundVars
<1> DEFINE l == logfile_number
<1>1. l \in DOMAIN logs /\ DOMAIN logs \subseteq Nat /\ logs \in [DOMAIN logs -> Log]
      BY DEF Typed, LogsType, Numbers
<1>2. /\ DOMAIN logs' = DOMAIN logs /\ logs'[l] = g2
      /\ \A n \in DOMAIN logs : n # l => logs'[n] = logs[n]
      BY <1>1
<1>3. LogsType'
      BY <1>1, <1>2 DEF Typed, LogsType
<1>4. TablesType' /\ ManifestsType' /\ MemoryType' /\ NumbersType'
      BY DEF Typed, TablesType, ManifestsType, MemoryType, NumbersType
<1>5. \A n \in DOMAIN logs : \A kind \in Kinds : \A x :
         InLog(logs[n], kind, x) => InLog(logs'[n], kind, x)
      BY <1>1, <1>2
<1>6. \A L : LogsKept(logs, logs', L)
      BY <1>2, <1>5 DEF LogsKept
<1>7. \A S : Kept(tables, tables', S)
      BY DEF Kept
<1>8. Disk'
  <2>1. CASE current = 0
        BY <2>1 DEF Disk
  <2>2. CASE current # 0
    <3>1. DiskOK(manifests[current], tables, logs, promised, synced)
          BY <2>2 DEF Disk
    <3>2. DiskOK(manifests[current], tables', logs', promised, synced)
          BY <1>6, <1>7, <3>1, DiskKept
    <3> QED BY <2>2, <3>2 DEF Disk
  <2> QED BY <2>1, <2>2
<1>9. Idle' /\ Engine' /\ Merging' /\ Flushing' /\ Background' /\ Iterators'
      BY IdleFrame, EngineFrame, MergingFrame, FlushingFrame, BackgroundFrame, IteratorsFrame
<1>10. Numbers'
       BY <1>2 DEF Numbers
<1>11. Recovered'
       BY DEF Recovered, Recovering
<1>12. Acknowledged'
  <2>1. \A kind \in Kinds : \A x : FoundAs(kind, x) => FoundAs(kind, x)'
    <3> SUFFICES ASSUME NEW kind \in Kinds, NEW x, FoundAs(kind, x) PROVE FoundAs(kind, x)'
        OBVIOUS
    <3>1. InLog(logs[l], kind, x) => InLog(logs'[l], kind, x)
          BY <1>1, <1>5
    <3>2. InLogs(logs, log_number, kind, x) => InLogs(logs', log_number, kind, x)
          BY <1>6, InLogsKept
    <3> QED BY <3>1, <3>2 DEF FoundAs
  <2> QED BY <2>1 DEF Acknowledged, Running, Kinds
<1> QED BY <1>3, <1>4, <1>8, <1>9, <1>10, <1>11, <1>12 DEF Typed

\* log_->AddRecord.
LEMMA AddRecordInv ==
    ASSUME Inv, NEW w \in Writers, AddRecord(w) PROVE Inv'
<1> USE DEF Inv, Typed
<1>1. pc[w] = "room"
      BY DEF AddRecord, HasRoom
<1>2. /\ Len(writers) \in Nat /\ Len(writers) >= 1 /\ phase = "open"
      /\ DOMAIN writers = 1 .. Len(writers) /\ w = writers[1]
      BY <1>1, FrontOfQueue
<1>3. PICK n \in 1 .. Len(writers) :
         /\ BuildBatchGroup = SubSeq(writers, 1, n)
         /\ \A i \in 1 .. n : writers[i] \in SyncWriters => writers[1] \in SyncWriters
      BY <1>2, GroupBuilt DEF QueueType
<1>4. PICK g : g = SubSeq(writers, 1, n)
      OBVIOUS
<1>5. /\ g \in Seq(Writers) /\ Len(g) = n /\ DOMAIN g = 1 .. n /\ g # <<>>
      /\ \A i \in 1 .. n : g[i] = writers[i]
  <2>1. writers \in Seq(Writers) /\ n \in 1 .. Len(writers)
        BY <1>3 DEF QueueType
  <2> QED BY <1>2, <1>4, <2>1
<1>6. PICK E \in FiniteEntries :
         E = Entries(g) /\ \A x : Has(E, x) <=> \E i \in DOMAIN g : x = request[g[i]]
      BY <1>5, EntriesFacts DEF NumbersType
<1> DEFINE l == logfile_number
<1>7. l \in DOMAIN logs /\ logs \in [DOMAIN logs -> Log] /\ logs[l].synced <= Len(logs[l].recs)
      BY <1>2 DEF LogsType, Numbers
<1>8. logs[l] \in Log /\ logs[l].recs \in Seq(FiniteEntries) /\ logs[l].synced \in Nat
      BY <1>7 DEF Log
<1>30. PICK read \in {E, {}} : logs' = [logs EXCEPT ![l].recs = Append(@, read)]
  <2>1. PICK read \in {E} \union (IF torn THEN {{}} ELSE {}) :
           logs' = [logs EXCEPT ![l].recs = Append(@, read)]
        BY <1>3, <1>4, <1>6 DEF AddRecord
  <2>2. read = E \/ read = {}
        OBVIOUS
  <2> QED BY <2>1, <2>2
<1>31. read \in FiniteEntries
       BY <1>6, FS_EmptySet DEF FiniteEntries
<1>9. PICK g2 : g2 = [logs[l] EXCEPT !.recs = Append(@, read)]
      OBVIOUS
<1>10. /\ g2 \in Log /\ g2.recs = Append(logs[l].recs, read) /\ g2.synced = logs[l].synced
  <2>1. Append(logs[l].recs, read) \in Seq(FiniteEntries)
        BY <1>8, <1>31
  <2> QED BY <1>8, <1>9, <2>1 DEF Log
<1>11. g2.synced <= Len(g2.recs)
       BY <1>7, <1>8, <1>10
<1>12. /\ logs' = [logs EXCEPT ![l] = g2] /\ group' = g
       /\ pc' = [pc EXCEPT ![w] = IF w \in SyncWriters THEN "sync" ELSE "apply"]
       BY <1>3, <1>4, <1>9, <1>30 DEF AddRecord
<1>13. \A kind \in Kinds : \A x : InLog(logs[l], kind, x) => InLog(g2, kind, x)
       BY <1>8, <1>10, LogGrows
<1>14. LogLeaves
       BY DEF AddRecord, LogLeaves
<1>15. /\ UNCHANGED <<phase, writers, request, issued>> /\ logs'[l] = g2
       /\ logfile_number' = l
       BY <1>7, <1>12, <1>14 DEF LogLeaves, phaseVars, boundVars, memVars
<1>16. QueueType'
       BY <1>5, <1>12, <1>15 DEF QueueType, Places
<1>17. /\ pc'[w] = (IF w \in SyncWriters THEN "sync" ELSE "apply")
       /\ \A v \in Writers : v # w => pc'[v] = pc[v]
       BY <1>12 DEF QueueType
<1>18. Queue'
  <2>1. \A i \in DOMAIN writers : writers[i] \in Writers
        BY DEF QueueType
  <2>2. \A v \in Writers : /\ pc'[v] = "idle" <=> pc[v] = "idle"
                           /\ pc'[v] = "waiting" <=> pc[v] = "waiting"
        BY <1>1, <1>17
  <2>3. Len(g) <= Len(writers) /\ \A i \in DOMAIN g : g[i] = writers[i]
        BY <1>2, <1>3, <1>5
  <2> QED BY <1>12, <1>15, <2>1, <2>2, <2>3 DEF Queue
<1>19. Group'
  <2>1. ASSUME NEW v \in Writers, pc'[v] \in {"sync", "apply"} PROVE v = w
    <3>1. SUFFICES ASSUME v # w PROVE FALSE
          OBVIOUS
    <3>2. pc[v] \in {"sync", "apply"}
          BY <1>17, <2>1, <3>1
    <3>3. v = writers[1]
          BY <3>2, FrontOfQueue
    <3> QED BY <1>2, <3>1, <3>3
  <2>2. ASSUME NEW i \in DOMAIN g
        PROVE  /\ RecordRead' => InLog(g2, "written", request[g[i]])
               /\ g[i] \in SyncWriters => w \in SyncWriters
    <3>1. Has(E, request[g[i]])
          BY <1>6
    <3>2. Len(g2.recs) \in DOMAIN g2.recs /\ g2.recs[Len(g2.recs)] = read
          BY <1>8, <1>10
    <3>3. RecordRead' => read = E
          BY <1>15, <3>2 DEF RecordRead, Last
    <3>4. RecordRead' => InLog(g2, "written", request[g[i]])
          BY <3>1, <3>2, <3>3 DEF InLog
    <3> QED BY <1>2, <1>3, <1>5, <3>4
  <2>3. ~(pc'[w] = "apply" /\ w \in SyncWriters)
        BY <1>17
  <2> QED BY <1>5, <1>12, <1>15, <2>1, <2>2, <2>3 DEF Group
<1> HIDE DEF l
<1> QED BY <1>2, <1>10, <1>11, <1>12, <1>13, <1>14, <1>16, <1>18, <1>19, LogStep DEF l

\* logfile_->Sync.
LEMMA SyncLogInv ==
    ASSUME Inv, NEW w \in Writers, SyncLog(w) PROVE Inv'
<1> USE DEF Inv, Typed
<1>1. pc[w] = "sync"
      BY DEF SyncLog
<1>2. /\ Len(writers) \in Nat /\ Len(writers) >= 1 /\ phase = "open"
      /\ DOMAIN writers = 1 .. Len(writers) /\ w = writers[1]
      BY <1>1, FrontOfQueue
<1> DEFINE l == logfile_number
<1>3. l \in DOMAIN logs /\ logs \in [DOMAIN logs -> Log] /\ logs[l].synced <= Len(logs[l].recs)
      BY <1>2 DEF LogsType, Numbers
<1>4. logs[l] \in Log /\ logs[l].recs \in Seq(FiniteEntries) /\ logs[l].synced \in Nat
      BY <1>3 DEF Log
<1>5. PICK g2 : g2 = [logs[l] EXCEPT !.synced = Len(logs[l].recs)]
      OBVIOUS
<1>6. /\ g2 \in Log /\ g2.recs = logs[l].recs /\ g2.synced = Len(logs[l].recs)
      BY <1>4, <1>5 DEF Log
<1>7. g2.synced <= Len(g2.recs) /\ g2.synced >= logs[l].synced
      BY <1>3, <1>4, <1>6
<1>8. logs' = [logs EXCEPT ![l] = g2] /\ pc' = [pc EXCEPT ![w] = "apply"]
      BY <1>5 DEF SyncLog
<1>9. \A kind \in Kinds : \A x : InLog(logs[l], kind, x) => InLog(g2, kind, x)
      BY <1>4, <1>6, <1>7, LogGrows
<1>10. LogLeaves /\ group' = group
       BY DEF SyncLog, LogLeaves
<1>11. /\ UNCHANGED <<phase, writers, request, issued>> /\ logs'[l] = g2
       /\ logfile_number' = l
       BY <1>3, <1>8, <1>10 DEF LogLeaves, phaseVars, boundVars, memVars
<1>12. QueueType'
       BY <1>8, <1>10, <1>11 DEF QueueType, Places
<1>13. pc'[w] = "apply" /\ \A v \in Writers : v # w => pc'[v] = pc[v]
       BY <1>8 DEF QueueType
<1>14. Queue'
  <2>1. \A i \in DOMAIN writers : writers[i] \in Writers
        BY DEF QueueType
  <2>2. \A v \in Writers : /\ pc'[v] = "idle" <=> pc[v] = "idle"
                           /\ pc'[v] = "waiting" <=> pc[v] = "waiting"
        BY <1>1, <1>13
  <2> QED BY <1>10, <1>11, <2>1, <2>2 DEF Queue
<1>15. Group'
  <2>1. ASSUME NEW v \in Writers, pc'[v] \in {"sync", "apply"} PROVE v = w
    <3>1. SUFFICES ASSUME v # w PROVE FALSE
          OBVIOUS
    <3>2. pc[v] \in {"sync", "apply"}
          BY <1>13, <2>1, <3>1
    <3>3. v = writers[1]
          BY <3>2, FrontOfQueue
    <3> QED BY <1>2, <3>1, <3>3
  <2>2. /\ group # <<>>
        /\ \A i \in DOMAIN group :
              /\ RecordRead => InLog(logs[l], "written", request[group[i]])
              /\ group[i] \in SyncWriters => w \in SyncWriters
        BY <1>1 DEF Group
  <2>3. \A x : InLog(logs[l], "written", x) => InLog(g2, "written", x) /\ InLog(g2, "synced", x)
    <3>1. \A i \in DOMAIN g2.recs : i <= g2.synced
          BY <1>4, <1>6
    <3> QED BY <1>6, <3>1 DEF InLog
  <2>4. RecordRead' = RecordRead
        BY <1>6, <1>11 DEF RecordRead
  <2> QED BY <1>10, <1>11, <2>1, <2>2, <2>3, <2>4 DEF Group
<1> HIDE DEF l
<1> QED BY <1>2, <1>6, <1>7, <1>8, <1>9, <1>10, <1>12, <1>14, <1>15, LogStep DEF l

\* The manifest that CURRENT names, when the database is being opened or open.
LEMMA CurrentFacts ==
    ASSUME Inv, current # 0
    PROVE  /\ current \in DOMAIN manifests /\ manifests[current] \in Manifest
           /\ manifests[current].edits \in Seq(Edit)
           /\ manifests[current].synced \in Nat /\ Len(manifests[current].edits) \in Nat
           /\ manifests[current].synced <= Len(manifests[current].edits)
           /\ Ends(manifests[current]) \subseteq 0 .. Len(manifests[current].edits)
           /\ Len(manifests[current].edits) \in Ends(manifests[current])
           /\ \A k \in Ends(manifests[current]) :
                 /\ After(manifests[current].edits, k) \subseteq Nat
                 /\ k > 0 => /\ manifests[current].edits[k] \in Edit
                             /\ manifests[current].edits[k].log \in Nat
                             /\ manifests[current].edits[k].next \in Nat
           /\ DiskOK(manifests[current], tables, logs, promised, synced)
<1> PICK m : m = manifests[current]
    OBVIOUS
<1>1. /\ current \in DOMAIN manifests /\ DiskOK(m, tables, logs, promised, synced)
      /\ m \in Manifest /\ m.synced <= Len(m.edits)
      BY DEF Inv, Typed, Disk, ManifestsType
<1>2. m.edits \in Seq(Edit) /\ m.synced \in Nat /\ Len(m.edits) \in Nat
      BY <1>1 DEF Manifest
<1>3. Ends(m) \subseteq 0 .. Len(m.edits) /\ Len(m.edits) \in Ends(m)
      BY <1>1, <1>2 DEF Ends
<1>4. ASSUME NEW k \in Ends(m)
      PROVE  /\ After(m.edits, k) \subseteq Nat
             /\ k > 0 => /\ m.edits[k] \in Edit /\ m.edits[k].log \in Nat
                         /\ m.edits[k].next \in Nat
  <2>1. After(m.edits, k) \subseteq Nat
        BY <1>2, <1>3, AfterType
  <2>2. k > 0 => m.edits[k] \in Edit
        BY <1>2, <1>3
  <2> QED BY <2>1, <2>2 DEF Edit
<1> QED BY <1>1, <1>2, <1>3, <1>4

\* Taking a new number keeps all numbers in use below the next one.
LEMMA NextNumber ==
    ASSUME Inv, Running, next_file_number' >= next_file_number, next_file_number' \in Nat,
           UNCHANGED <<phase, current, manifest_file_number, manifests, version, replay,
                       logs, logfile_number>>,
           pending_outputs' \subseteq Nat,
           \A n \in pending_outputs' : n \in pending_outputs \/ n < next_file_number'
    PROVE  /\ Numbers'
           /\ \A n \in Nat : n < next_file_number => n < next_file_number'
<1> USE DEF Inv, Typed
<1>1. next_file_number \in Nat
      BY DEF NumbersType
<1>2. \A n \in Nat : n < next_file_number => n < next_file_number'
      BY <1>1
<1>3. phase # "down" /\ current # 0
      BY DEF Running, Numbers
<1>4. \A k \in Ends(manifests[current]) : After(manifests[current].edits, k) \subseteq Nat
      BY <1>3, CurrentFacts
<1>5. TablesOf(version) \subseteq Nat /\ pending_outputs \subseteq Nat /\ DOMAIN logs \subseteq Nat
      BY DEF MemoryType, Version, TablesOf, LogsType
<1> QED BY <1>2, <1>3, <1>4, <1>5 DEF Numbers

\* The background thread when it has been scheduled.
Scheduled == [NoJob EXCEPT !.pc = "scheduled"]

\* What it is then.
LEMMA JobFacts ==
    /\ Scheduled \in Job /\ NoJob \in Job
    /\ Scheduled.pc = "scheduled" /\ Scheduled.job = "none" /\ Scheduled.num = 0
    /\ NoJob.pc = "none" /\ NoJob.job = "none" /\ NoJob.num = 0
BY DEF Scheduled, NoJob, Job

\* MaybeScheduleCompaction schedules a thread that is not, without an error.
LEMMA MaybeScheduleFacts ==
    ASSUME NEW b, NEW i, NEW v, NEW error
    PROVE  \/ MaybeSchedule(b, i, v, error) = b
           \/ b.pc = "none" /\ ~error /\ MaybeSchedule(b, i, v, error) = Scheduled
BY DEF MaybeSchedule, Scheduled

\* MakeRoomForWrite switches to a new log.
LEMMA RoomSwitchInv ==
    ASSUME Inv, NEW w \in Writers, RoomSwitch(w) PROVE Inv'
<1> USE DEF Inv, Typed
<1>1. pc[w] = "room"
      BY DEF RoomSwitch
<1>2. /\ Len(writers) \in Nat /\ Len(writers) >= 1 /\ phase = "open"
      /\ DOMAIN writers = 1 .. Len(writers) /\ w = writers[1]
      BY <1>1, FrontOfQueue
<1>3. Running /\ phase # "down" /\ phase # "replay" /\ ~Recovering
      BY <1>2 DEF Running, Recovering
<1>4. /\ logs' = Put(logs, next_file_number, [recs |-> <<>>, synced |-> 0])
      /\ logfile_number' = next_file_number /\ next_file_number' = next_file_number + 1
      /\ imm = {} /\ imm' = {mem} /\ mem' = {} /\ ~bg_error
      /\ bg' = MaybeSchedule(bg, {mem}, version, bg_error)
      BY DEF RoomSwitch
<1>5. /\ UNCHANGED <<tables, manifests, current, phase, replay, writers, pc, request, group>>
      /\ UNCHANGED <<log_number, manifest_file_number, version, last_sequence, bg_error>>
      /\ UNCHANGED <<merge, edit, pending_outputs, iterators, promised, synced, risked, issued>>
      BY DEF RoomSwitch, phaseVars, queueVars, promiseVars, boundVars
<1>6. /\ next_file_number \in Nat /\ logfile_number \in DOMAIN logs
      /\ DOMAIN logs \subseteq Nat /\ logfile_number \in Nat /\ log_number \in Nat
      /\ \A n \in DOMAIN logs : n < next_file_number
      BY <1>3 DEF NumbersType, Numbers, LogsType
<1>7. logfile_number < next_file_number /\ next_file_number \notin DOMAIN logs
      BY <1>6
<1>8. /\ DOMAIN logs' = DOMAIN logs \union {next_file_number}
      /\ logs'[next_file_number] = [recs |-> <<>>, synced |-> 0]
      /\ \A n \in DOMAIN logs : logs'[n] = logs[n]
      BY <1>4, <1>7 DEF Put
<1>9. bg' = bg \/ (bg.pc = "none" /\ bg' = Scheduled)
      BY <1>4, MaybeScheduleFacts
<1>10. bg.job # "flush" /\ bg.pc # "build"
       BY <1>3, <1>4 DEF Background
<1>11. LogsType'
  <2>1. <<>> \in Seq(FiniteEntries) /\ Len(<<>>) = 0
        OBVIOUS
  <2>2. logs'[next_file_number] \in Log
        /\ logs'[next_file_number].synced <= Len(logs'[next_file_number].recs)
        BY <1>8, <2>1 DEF Log
  <2>3. logs' \in [DOMAIN logs' -> Log]
    <3>1. \A n \in DOMAIN logs' : logs'[n] \in Log
          BY <1>8, <2>2 DEF LogsType
    <3>2. logs' = [n \in DOMAIN logs' |-> logs'[n]]
          BY <1>4 DEF Put
    <3> QED BY <3>1, <3>2
  <2> QED BY <1>6, <1>8, <2>2, <2>3 DEF LogsType
<1>12. TablesType' /\ ManifestsType' /\ QueueType' /\ NumbersType'
  <2>1. TablesType' /\ ManifestsType'
        BY <1>4, <1>5, <1>6 DEF TablesType, ManifestsType
  <2>2. QueueType'
        BY <1>4, <1>5, <1>6 DEF QueueType
  <2>3. NumbersType'
        BY <1>4, <1>5, <1>6 DEF NumbersType
  <2> QED BY <2>1, <2>2, <2>3
<1>13. MemoryType'
  <2>1. bg' \in Job
        BY <1>9, JobFacts DEF MemoryType
  <2> QED BY <1>4, <1>5, <2>1 DEF MemoryType
<1>14. \A L : LogsKept(logs, logs', L)
       BY <1>8 DEF LogsKept
<1>15. \A S : Kept(tables, tables', S)
       BY <1>5 DEF Kept
<1>16. Disk'
  <2>1. current # 0 /\ DiskOK(manifests[current], tables, logs, promised, synced)
        BY <1>3 DEF Disk, Numbers
  <2>2. DiskOK(manifests[current], tables', logs', promised, synced)
        BY <1>14, <1>15, <2>1, DiskKept
  <2> QED BY <1>5, <2>1, <2>2 DEF Disk
<1>17. Idle' /\ Recovered'
       BY <1>3, <1>5 DEF Idle, Running, Recovered, Recovering
<1>18. Numbers'
  <2>1. current # 0
        BY <1>3 DEF Numbers
  <2>2. \A k \in Ends(manifests[current]) : After(manifests[current].edits, k) \subseteq Nat
        BY <2>1, CurrentFacts
  <2>3. TablesOf(version) \subseteq Nat /\ pending_outputs \subseteq Nat
        BY DEF MemoryType, Version, TablesOf
  <2>4. \A n \in Nat : n < next_file_number => n < next_file_number + 1
        BY <1>6
  <2>5. next_file_number < next_file_number + 1
        BY <1>6
  <2> QED BY <1>3, <1>4, <1>5, <1>6, <1>8, <2>2, <2>3, <2>4, <2>5 DEF Numbers
<1>19. Engine'
  <2>1. Base' = Base /\ (bg'.pc = "sync" <=> bg.pc = "sync")
        BY <1>5, <1>9, JobFacts DEF Base
  <2>2. log_number <= next_file_number
        BY <1>3, <1>6, <1>7 DEF Engine
  <2>3. \A k \in Ends(manifests[current]) :
           k > 0 /\ manifests[current].edits[k].log <= next_file_number
    <3> SUFFICES ASSUME NEW k \in Ends(manifests[current])
                 PROVE  k > 0 /\ manifests[current].edits[k].log <= next_file_number
        OBVIOUS
    <3>1. k > 0 /\ manifests[current].edits[k].log <= logfile_number
          BY <1>3 DEF Engine
    <3>2. manifests[current] \in Manifest
          BY <1>3 DEF Numbers, Disk, ManifestsType
    <3>3. manifests[current].edits[k] \in Edit
          BY <3>1, <3>2 DEF Manifest, Ends
    <3>4. manifests[current].edits[k].log \in Nat
          BY <3>3 DEF Edit
    <3> QED BY <1>6, <1>7, <3>1, <3>4
  <2> QED BY <1>3, <1>4, <1>5, <2>1, <2>2, <2>3 DEF Engine
<1>20. Acknowledged'
  <2>3. \A x \in risked : \E m \in imm' : Has(m, x)
        BY <1>3, <1>4 DEF Acknowledged
  <2> SUFFICES ASSUME NEW kind \in Kinds, NEW x, FoundAs(kind, x) PROVE FoundAs(kind, x)'
      BY <1>3, <1>5, <2>3 DEF Acknowledged, Kinds
  <2>1. CASE Has(mem, x) /\ InLog(logs[logfile_number], kind, x)
    <3>1. \E m \in imm' : Has(m, x)
          BY <1>4, <2>1
    <3>2. InLogs(logs', log_number, kind, x)
      <4>1. logfile_number >= log_number
            BY <1>3, <1>6 DEF Engine
      <4> QED BY <1>6, <1>8, <2>1, <4>1 DEF InLogs
    <3> QED BY <1>5, <3>1, <3>2 DEF FoundAs
  <2>2. CASE InTables(tables, TablesOf(version), x)
        BY <1>5, <2>2 DEF FoundAs
  <2> QED BY <1>4, <2>1, <2>2 DEF FoundAs
<1>21. Merging'
  <2>1. CASE bg' = bg
    <3>1. \A r \in merge : r.num \in Nat /\ r.tables \subseteq Nat
          BY DEF MemoryType, Merge
    <3>2. \A n \in Nat : n < next_file_number => n < next_file_number + 1
          BY <1>6
    <3> QED BY <1>3, <1>4, <1>5, <2>1, <3>1, <3>2 DEF Merging, Unread, InstallsMerge, Contents
  <2>2. CASE bg.pc = "none"
    <3>1. merge = {}
          BY <1>3, <2>2 DEF Background
    <3> QED BY <1>5, <3>1 DEF Merging
  <2> QED BY <1>9, <2>1, <2>2
<1>22. Flushing'
       BY <1>9, <1>10, JobFacts DEF Flushing
<1>23. Background'
       BY <1>3, <1>4, <1>5, <1>9, <1>10, JobFacts DEF Background
<1>24. Iterators'
  <2>1. \A i \in iterators : i.tables \subseteq Nat
        BY DEF MemoryType, Iterator
  <2>2. \A n \in Nat : n < next_file_number => n < next_file_number + 1
        BY <1>6
  <2> QED BY <1>4, <1>5, <2>1, <2>2 DEF Iterators
<1>25. Queue'
       BY <1>5, QueueFrame
<1>26. Group'
  <2>1. ASSUME NEW v \in Writers, pc[v] \in {"sync", "apply"} PROVE FALSE
        BY <1>1, <1>2, <2>1, FrontOfQueue
  <2> QED BY <1>5, <2>1 DEF Group
<1> QED BY <1>11, <1>12, <1>13, <1>16, <1>17, <1>18, <1>19, <1>20, <1>21, <1>22, <1>23,
           <1>24, <1>25, <1>26

\* InsertInto: the group returns with success.
LEMMA InsertIntoInv ==
    ASSUME Inv, NEW w \in Writers, InsertInto(w) PROVE Inv'
<1> USE DEF Inv, Typed
<1>1. pc[w] = "apply"
      BY DEF InsertInto
<1>2. /\ Len(writers) \in Nat /\ Len(writers) >= 1 /\ phase = "open"
      /\ DOMAIN writers = 1 .. Len(writers) /\ w = writers[1]
      BY <1>1, FrontOfQueue
<1>3. Running /\ phase # "down" /\ ~Recovering
      BY <1>2 DEF Running, Recovering
<1>4. /\ mem' = mem \union Entries(group) /\ last_sequence' = last_sequence + Len(group)
      /\ \/ /\ RecordRead /\ risked' = risked
            /\ promised' = promised \union Ids(Entries(group))
            /\ synced' = synced \union {request[x] : x \in Range(group) \intersect SyncWriters}
         \/ promised' = promised /\ synced' = synced /\ risked' = risked \union Ids(Entries(group))
      /\ Leave(pc, Len(group))
      BY DEF InsertInto
<1>5. /\ UNCHANGED <<logs, tables, manifests, current, phase, replay, imm, logfile_number>>
      /\ UNCHANGED <<log_number, next_file_number, manifest_file_number, version>>
      /\ UNCHANGED <<bg_error, bg, merge, edit, pending_outputs, iterators, issued>>
      BY DEF InsertInto, diskVars, phaseVars, versionVars, bgVars, boundVars
<1>6. /\ group \in Seq(Writers) /\ last_sequence \in Nat /\ issued \in Nat
      /\ promised \subseteq 1 .. issued /\ synced \subseteq promised /\ risked \subseteq 1 .. issued
      BY DEF QueueType, NumbersType
<1>7. group # <<>> /\ Len(group) \in 1 .. Len(writers) /\ DOMAIN group \subseteq DOMAIN writers
  <2>1. group # <<>> /\ Len(group) <= Len(writers)
        BY <1>1 DEF Group, Queue
  <2>2. Len(group) \in Nat /\ Len(group) >= 1 /\ DOMAIN group = 1 .. Len(group)
        BY <1>6, <2>1
  <2> QED BY <1>2, <2>1, <2>2
<1>8. /\ Entries(group) \in SUBSET Entry
      /\ \A x : Has(Entries(group), x) <=> \E i \in DOMAIN group : x = request[group[i]]
      BY <1>6, EntriesFacts DEF FiniteEntries
<1>9. \A x : x \in Ids(Entries(group)) <=> Has(Entries(group), x)
      BY DEF Ids, Has
<1>10. ASSUME NEW i \in DOMAIN group
       PROVE  /\ request[group[i]] \in 1 .. issued
              /\ RecordRead => InLog(logs[logfile_number], "written", request[group[i]])
              /\ RecordRead /\ group[i] \in SyncWriters =>
                    InLog(logs[logfile_number], "synced", request[group[i]])
  <2>1. group[i] \in Writers /\ pc[group[i]] # "idle"
    <3>1. i \in DOMAIN writers /\ group[i] = writers[i] /\ group[i] \in Writers
          BY <1>6, <1>7, Element DEF Queue
    <3> QED BY <3>1 DEF Queue
  <2> QED BY <1>1, <2>1 DEF Queue, Group
<1>11. ASSUME NEW x \in promised', x \notin promised
       PROVE  /\ Has(Entries(group), x) /\ x \in 1 .. issued
              /\ InLog(logs[logfile_number], "written", x)
       BY <1>4, <1>8, <1>9, <1>10, <1>11
<1>20. ASSUME NEW x \in risked', x \notin risked
       PROVE  Has(Entries(group), x) /\ x \in 1 .. issued
       BY <1>4, <1>8, <1>9, <1>10, <1>20
<1>12. ASSUME NEW x \in synced', x \notin synced
       PROVE  /\ Has(Entries(group), x)
              /\ InLog(logs[logfile_number], "synced", x)
  <2>1. PICK i \in DOMAIN group :
           x = request[group[i]] /\ group[i] \in SyncWriters /\ RecordRead
        BY <1>4, <1>12 DEF Range
  <2> QED BY <1>8, <1>10, <2>1
<1>13. LogsType' /\ TablesType' /\ ManifestsType' /\ MemoryType'
       BY <1>4, <1>5, <1>8 DEF LogsType, TablesType, ManifestsType, MemoryType
<1>14. NumbersType'
  <2>1. synced' \subseteq promised'
        BY <1>4, <1>6, <1>9, <1>12
  <2>2. promised' \subseteq 1 .. issued /\ risked' \subseteq 1 .. issued
        BY <1>6, <1>11, <1>20
  <2>3. last_sequence' \in Nat
        BY <1>4, <1>6, <1>7
  <2> QED BY <1>5, <2>1, <2>2, <2>3 DEF NumbersType
<1>15. QueueType' /\ Queue' /\ Group'
  <2>1. pc \in [Writers -> Places]
        BY DEF QueueType
  <2> QED BY <1>4, <1>5, <1>7, <2>1, LeaveOK
<1>16. Disk'
  <2>1. current # 0 /\ logfile_number \in DOMAIN logs
        BY <1>2, <1>3 DEF Numbers
  <2>2. DiskOK(manifests[current], tables, logs, promised, synced)
        BY <2>1, CurrentFacts
  <2>3. \A k \in Ends(manifests[current]) :
           k # 0 /\ logfile_number >= manifests[current].edits[k].log
    <3> SUFFICES ASSUME NEW k \in Ends(manifests[current])
                 PROVE  k # 0 /\ logfile_number >= manifests[current].edits[k].log
        OBVIOUS
    <3>1. k > 0 /\ manifests[current].edits[k].log <= logfile_number
          BY <1>3 DEF Engine
    <3>2. k \in Nat /\ manifests[current].edits[k].log \in Nat /\ logfile_number \in Nat
          BY <2>1, <3>1, CurrentFacts DEF NumbersType
    <3> QED BY <3>1, <3>2
  <2>4. DiskOK(manifests[current], tables, logs, promised', synced')
        BY <1>11, <1>12, <2>1, <2>2, <2>3, DiskPromises
  <2> QED BY <1>5, <2>1, <2>4, CurrentFacts DEF Disk
<1>17. Idle' /\ Recovered'
       BY <1>3, <1>5 DEF Idle, Recovered, Running, Recovering
<1>18. Numbers' /\ Engine' /\ Merging' /\ Flushing' /\ Background' /\ Iterators'
       BY <1>5, NumbersFrame, EngineFrame, MergingFrame, FlushingFrame, BackgroundFrame,
          IteratorsFrame
<1>19. Acknowledged'
  <2>1. \A kind : \A x : FoundAs(kind, x) => FoundAs(kind, x)'
        BY <1>4, <1>5 DEF FoundAs, Has
  <2>2. \A kind : \A x : Has(Entries(group), x) /\ InLog(logs[logfile_number], kind, x)
                             => FoundAs(kind, x)'
        BY <1>4, <1>5 DEF FoundAs, Has
  <2>3. \A x \in risked' : Has(mem', x) \/ \E m \in imm' : Has(m, x)
        BY <1>3, <1>4, <1>5, <1>20 DEF Acknowledged, Has
  <2> QED BY <1>3, <1>5, <1>11, <1>12, <2>1, <2>2, <2>3 DEF Acknowledged, Running
<1> QED BY <1>13, <1>14, <1>15, <1>16, <1>17, <1>18, <1>19

-----------------------------------------------------------------------------
(* The steps of the background thread.                                     *)

\* The variables that a step of the thread leaves alone when it writes no file.
ThreadLeaves ==
    UNCHANGED <<diskVars, phaseVars, writers, request, group, memVars, log_number,
                manifest_file_number, version, last_sequence, iterators, promiseVars, issued>>

\* The thread works only while the database runs.
LEMMA ThreadRuns ==
    ASSUME Inv, bg.pc # "none"
    PROVE  Running /\ phase # "down" /\ phase # "replay" /\ ~Recovering /\ current # 0
<1>1. Running
      BY JobFacts DEF Inv, Idle
<1> QED BY <1>1 DEF Inv, Running, Recovering, Numbers

\* A step of the thread that writes no file.
LEMMA ThreadStep ==
    ASSUME Inv, bg.pc # "none", ThreadLeaves, pc' = pc \/ pc' = SignalAll, MemoryType',
           next_file_number' \in Nat, next_file_number' >= next_file_number,
           \A n \in pending_outputs' : n \in pending_outputs \/ n < next_file_number',
           Engine', Merging', Flushing', Background'
    PROVE  Inv'
<1> USE DEF Inv, Typed, ThreadLeaves, diskVars, phaseVars, memVars, promiseVars
<1>1. Running /\ phase # "down" /\ ~Recovering /\ current # 0
      BY ThreadRuns
<1>2. LogsType' /\ TablesType' /\ ManifestsType'
      BY DEF LogsType, TablesType, ManifestsType
<1>3. NumbersType'
      BY DEF NumbersType
<1>4. QueueType' /\ Queue' /\ Group'
  <2>1. CASE pc' = pc
        BY <2>1, QueueFrame, GroupFrame DEF QueueType
  <2>2. CASE pc' = SignalAll
        BY <2>2, SignalOK DEF RecordRead
  <2> QED BY <2>1, <2>2
<1>5. Disk' /\ Acknowledged'
      BY DiskFrame, AcknowledgedFrame
<1>6. Idle' /\ Recovered'
      BY <1>1 DEF Idle, Recovered, Running, Recovering
<1>7. pending_outputs' \subseteq Nat
      BY DEF MemoryType
<1>8. Numbers' /\ \A n \in Nat : n < next_file_number => n < next_file_number'
      BY <1>1, <1>7, NextNumber
<1>9. Iterators'
  <2>1. \A i \in iterators : i.tables \subseteq Nat
        BY DEF MemoryType, Iterator
  <2> QED BY <1>8, <2>1 DEF Iterators
<1> QED BY <1>2, <1>3, <1>4, <1>5, <1>6, <1>8, <1>9

\* The end of BackgroundCall.
LEMMA EndCallFacts ==
    ASSUME NEW i, NEW v, NEW error, EndCall(i, v, error)
    PROVE  /\ pc' = SignalAll /\ bg' \in Job /\ bg'.job = "none"
           /\ bg'.pc \in {"none", "scheduled"}
BY MaybeScheduleFacts, JobFacts DEF EndCall

\* After a memtable compaction the merge goes on, if there is one.
LEMMA AfterFlushFacts ==
    ASSUME Inv, Running, NEW i, NEW v, NEW error, AfterFlush(i, v, error)
    PROVE  /\ pc' = SignalAll /\ bg' \in Job
           /\ \/ merge = {} /\ bg'.job = "none" /\ bg'.pc \in {"none", "scheduled"}
              \/ /\ merge # {} /\ bg'.job = "merge" /\ bg'.pc = "merge"
                 /\ \A r \in merge : bg'.num = r.num
<1>1. CASE merge = {}
      BY <1>1, EndCallFacts DEF AfterFlush
<1>2. CASE merge # {}
  <2>1. PICK c : c = CHOOSE r \in merge : TRUE
        OBVIOUS
  <2>2. c \in merge
        BY <1>2, <2>1
  <2>3. bg' = [pc |-> "merge", job |-> "merge", num |-> c.num] /\ pc' = SignalAll
        BY <1>2, <2>1 DEF AfterFlush
  <2>4. c.num \in Nat
        BY <2>2 DEF Inv, Typed, MemoryType, Merge
  <2>5. \A r \in merge : r = c
        BY <2>2 DEF Inv, Background
  <2> QED BY <1>2, <2>3, <2>4, <2>5 DEF Job
<1> QED BY <1>1, <1>2

\* BackgroundCall finds nothing to do.
LEMMA BackgroundIdleInv ==
    ASSUME Inv, BackgroundIdle PROVE Inv'
<1> USE DEF Inv, Typed
<1>1. /\ bg.pc = "scheduled" /\ EndCall(imm, version, bg_error) /\ ThreadLeaves
      /\ UNCHANGED <<next_file_number, bg_error, merge, edit, pending_outputs, imm>>
      BY DEF BackgroundIdle, ThreadLeaves, versionVars, boundVars, memVars
<1>2. Running /\ merge = {}
      BY <1>1, ThreadRuns DEF Background
<1>3. /\ pc' = SignalAll /\ bg' \in Job /\ bg'.job = "none"
      /\ bg'.pc \in {"none", "scheduled"}
      BY <1>1, EndCallFacts
<1>4. /\ UNCHANGED <<phase, replay, mem, version, iterators, manifests, current, tables>>
      /\ UNCHANGED <<manifest_file_number, log_number, logfile_number>>
      BY <1>1 DEF ThreadLeaves, diskVars, phaseVars, memVars
<1>5. MemoryType'
      BY <1>1, <1>3, <1>4 DEF MemoryType
<1>6. Engine'
      BY <1>1, <1>2, <1>3, <1>4 DEF Engine, Running, Base
<1>7. Merging' /\ Flushing'
      BY <1>1, <1>2, <1>3 DEF Merging, Flushing
<1>8. Background'
      BY <1>1, <1>2, <1>3, <1>4 DEF Background
<1>9. next_file_number \in Nat /\ next_file_number >= next_file_number
      BY DEF NumbersType
<1> QED BY <1>1, <1>3, <1>5, <1>6, <1>7, <1>8, <1>9, ThreadStep

\* Nobody reads a table with a number that is not in use.
LEMMA FreshIsUnread ==
    ASSUME Inv, Running PROVE Unread(next_file_number)
<1>1. next_file_number \in Nat /\ ~(next_file_number < next_file_number)
      BY DEF Inv, Typed, NumbersType
<1>2. phase # "down"
      BY DEF Running
<1> QED BY <1>1, <1>2 DEF Inv, Unread, Numbers, Iterators, Merging

\* CompactMemTable takes a number.
LEMMA CompactMemTableInv ==
    ASSUME Inv, CompactMemTable PROVE Inv'
<1> USE DEF Inv, Typed
<1>1. /\ imm # {} /\ ((bg.pc = "scheduled" /\ ~bg_error) \/ bg.pc = "merge")
      /\ bg' = [pc |-> "build", job |-> "flush", num |-> next_file_number]
      /\ pending_outputs' = pending_outputs \union {next_file_number}
      /\ next_file_number' = next_file_number + 1
      /\ ThreadLeaves /\ pc' = pc /\ UNCHANGED <<bg_error, merge, edit>>
      BY DEF CompactMemTable, ThreadLeaves, queueVars, boundVars
<1>2. Running /\ phase # "down"
      BY <1>1, ThreadRuns
<1>3. next_file_number \in Nat
      BY DEF NumbersType
<1>4. bg' \in Job /\ bg'.pc = "build" /\ bg'.job = "flush" /\ bg'.num = next_file_number
      BY <1>1, <1>3 DEF Job
<1>5. /\ UNCHANGED <<phase, replay, mem, imm, version, iterators, manifests, current, tables>>
      /\ UNCHANGED <<manifest_file_number, log_number, logfile_number>>
      BY <1>1 DEF ThreadLeaves, diskVars, phaseVars, memVars
<1>6. MemoryType'
      BY <1>1, <1>3, <1>4, <1>5 DEF MemoryType
<1>7. \A n \in Nat : n < next_file_number => n < next_file_number' /\ n # next_file_number
      BY <1>1, <1>3
<1>8. \A r \in merge : r.num \in Nat /\ r.tables \subseteq Nat
      BY DEF MemoryType, Merge
<1>9. Engine'
      BY <1>1, <1>2, <1>4, <1>5 DEF Engine, Running, Base
<1>10. Merging'
  <2>1. ~InstallsMerge /\ ~InstallsMerge'
        BY <1>1, <1>4 DEF InstallsMerge
  <2>2. \A n : Unread(n)' <=> Unread(n)
        BY <1>1, <1>5 DEF Unread
  <2> QED BY <1>1, <1>2, <1>5, <1>7, <1>8, <2>1, <2>2 DEF Merging
<1>11. Flushing'
  <2>1. Unread(next_file_number)
        BY <1>2, FreshIsUnread
  <2>2. \A n : Unread(n)' <=> Unread(n)
        BY <1>1, <1>5 DEF Unread
  <2>3. Unread(bg.num)'
        BY <1>1, <1>4, <1>5, <2>1 DEF Unread
  <2>4. \A r \in merge : r.num # next_file_number
        BY <1>2, <1>7, <1>8 DEF Merging
  <2>5. next_file_number < next_file_number'
        BY <1>1, <1>3
  <2> QED BY <1>1, <1>4, <2>3, <2>4, <2>5 DEF Flushing
<1>12. Background'
       BY <1>1, <1>2, <1>4, <1>5 DEF Background
<1>13. next_file_number' \in Nat /\ next_file_number' >= next_file_number
       /\ next_file_number < next_file_number'
       BY <1>1, <1>3
<1> QED BY <1>1, <1>6, <1>9, <1>10, <1>11, <1>12, <1>13, ThreadStep

\* BackgroundCompaction picks a merge.
LEMMA StartMergeInv ==
    ASSUME Inv, StartMerge PROVE Inv'
<1> USE DEF Inv, Typed
<1>1. /\ bg.pc = "scheduled" /\ ~bg_error /\ imm = {}
      /\ merge' = {[tables |-> TablesOf(version), num |-> 0]}
      /\ bg' = [pc |-> "merge", job |-> "merge", num |-> 0]
      /\ ThreadLeaves /\ pc' = pc
      /\ UNCHANGED <<next_file_number, bg_error, edit, pending_outputs>>
      BY DEF StartMerge, ThreadLeaves, queueVars, boundVars, versionVars
<1>2. Running /\ phase # "down" /\ phase # "replay"
      BY <1>1, ThreadRuns
<1>3. next_file_number \in Nat /\ 0 < next_file_number
  <2>1. logfile_number \in Nat /\ logfile_number < next_file_number /\ next_file_number \in Nat
        BY <1>2 DEF Numbers, NumbersType
  <2> QED BY <2>1
<1>4. bg' \in Job /\ bg'.pc = "merge" /\ bg'.job = "merge" /\ bg'.num = 0
      BY <1>1 DEF Job
<1>5. /\ UNCHANGED <<phase, replay, mem, imm, version, iterators, manifests, current, tables>>
      /\ UNCHANGED <<manifest_file_number, log_number, logfile_number>>
      BY <1>1 DEF ThreadLeaves, diskVars, phaseVars, memVars
<1>6. TablesOf(version) \subseteq Nat
      BY DEF MemoryType, Version, TablesOf
<1>7. PICK c : c = [tables |-> TablesOf(version), num |-> 0]
      OBVIOUS
<1>8. c \in Merge /\ c.tables = TablesOf(version) /\ c.num = 0 /\ merge' = {c}
      BY <1>1, <1>6, <1>7 DEF Merge
<1>9. MemoryType'
      BY <1>1, <1>4, <1>5, <1>8 DEF MemoryType
<1>10. Engine'
       BY <1>1, <1>2, <1>4, <1>5 DEF Engine, Running, Base
<1>11. Merging'
  <2>1. ~InstallsMerge'
        BY <1>4 DEF InstallsMerge
  <2>2. TablesOf(version) \subseteq DOMAIN tables
        BY <1>2 DEF Engine
  <2>3. \A n \in TablesOf(version) : n < next_file_number
        BY <1>2 DEF Numbers
  <2> QED BY <1>1, <1>3, <1>5, <1>8, <2>1, <2>2, <2>3 DEF Merging
<1>12. Flushing'
       BY <1>4 DEF Flushing
<1>13. Background'
       BY <1>1, <1>4, <1>5, <1>8 DEF Background
<1>14. next_file_number >= next_file_number
       BY <1>3
<1> QED BY <1>1, <1>3, <1>9, <1>10, <1>11, <1>12, <1>13, <1>14, ThreadStep

\* After an error, a flush that is not installed leaves the thread at its merge
\* or idle.
LEMMA FlushFails ==
    ASSUME Inv, bg.job = "flush", bg.pc \in {"build", "sync"}, ThreadLeaves,
           AfterFlush(imm, version, TRUE), bg_error' = TRUE, edit' \in Edit,
           pending_outputs' \subseteq pending_outputs,
           \A n \in pending_outputs : n = bg.num \/ n \in pending_outputs',
           UNCHANGED <<next_file_number, merge>>
    PROVE  Inv'
<1> USE DEF Inv, Typed
<1>1. Running /\ phase # "down" /\ current # 0
      BY ThreadRuns
<1>2. /\ pc' = SignalAll /\ bg' \in Job
      /\ \/ merge = {} /\ bg'.job = "none" /\ bg'.pc \in {"none", "scheduled"}
         \/ /\ merge # {} /\ bg'.job = "merge" /\ bg'.pc = "merge"
            /\ \A r \in merge : bg'.num = r.num
      BY <1>1, AfterFlushFacts
<1>3. /\ UNCHANGED <<phase, replay, mem, imm, version, iterators, manifests, current, tables>>
      /\ UNCHANGED <<manifest_file_number, log_number, logfile_number>>
      BY DEF ThreadLeaves, diskVars, phaseVars, memVars
<1>4. MemoryType'
      BY <1>2, <1>3 DEF MemoryType
<1>5. Engine'
  <2>1. bg'.pc = "merge" => TablesOf(version) \subseteq
                               After(manifests[current].edits, Len(manifests[current].edits))
    <3>1. CASE bg.pc = "build"
          BY <1>1, <3>1 DEF Engine, Base
    <3>2. CASE bg.pc = "sync"
      <4> PICK m : m = manifests[current]
          OBVIOUS
      <4>1. /\ m.edits \in Seq(Edit) /\ Len(m.edits) \in Nat /\ Len(m.edits) > 0
            /\ TablesOf(version) \subseteq After(m.edits, Len(m.edits) - 1)
            BY <1>1, <3>2, CurrentFacts DEF Engine, Base
      <4>2. m.edits[Len(m.edits)].del = {}
            BY <1>1, <3>2 DEF Background, Flushing
      <4>3. Len(m.edits) \in 1 .. Len(m.edits)
            BY <4>1
      <4> QED BY <4>1, <4>2, <4>3, AfterStep
    <3> QED BY <3>1, <3>2
  <2> QED BY <1>1, <1>2, <1>3, <2>1 DEF Engine, Running, Base
<1>6. Merging'
  <2>1. ~InstallsMerge /\ ~InstallsMerge'
        BY <1>2 DEF InstallsMerge
  <2>2. \A n : Unread(n)' <=> Unread(n)
        BY <1>3 DEF Unread
  <2>3. \A r \in merge : r.num # bg.num
        BY <1>1 DEF Flushing
  <2> QED BY <1>1, <1>3, <2>1, <2>2, <2>3 DEF Merging
<1>7. Flushing'
      BY <1>2 DEF Flushing
<1>8. Background'
      BY <1>1, <1>2, <1>3 DEF Background
<1>9. next_file_number' \in Nat /\ next_file_number' >= next_file_number
      BY DEF NumbersType
<1> QED BY <1>2, <1>4, <1>5, <1>6, <1>7, <1>8, <1>9, ThreadStep

\* CleanupCompaction: a merge that is not installed.
LEMMA MergeAborts ==
    ASSUME Inv, bg.pc # "none", ThreadLeaves, CleanupCompaction, edit' \in Edit,
           UNCHANGED next_file_number
    PROVE  Inv'
<1> USE DEF Inv, Typed
<1>1. Running /\ phase # "down"
      BY ThreadRuns
<1>2. /\ bg_error' = TRUE /\ merge' = {} /\ pending_outputs' = pending_outputs \ {bg.num}
      /\ EndCall(imm, version, TRUE)
      BY DEF CleanupCompaction
<1>3. /\ pc' = SignalAll /\ bg' \in Job /\ bg'.job = "none"
      /\ bg'.pc \in {"none", "scheduled"}
      BY <1>2, EndCallFacts
<1>4. /\ UNCHANGED <<phase, replay, mem, imm, version, iterators, manifests, current, tables>>
      /\ UNCHANGED <<manifest_file_number, log_number, logfile_number>>
      BY DEF ThreadLeaves, diskVars, phaseVars, memVars
<1>5. MemoryType'
      BY <1>2, <1>3, <1>4 DEF MemoryType
<1>6. Engine'
      BY <1>1, <1>2, <1>3, <1>4 DEF Engine, Running, Base
<1>7. Merging' /\ Flushing'
      BY <1>2, <1>3 DEF Merging, Flushing
<1>8. Background'
      BY <1>1, <1>2, <1>3, <1>4 DEF Background
<1>9. next_file_number' \in Nat /\ next_file_number' >= next_file_number
      BY DEF NumbersType
<1> QED BY <1>2, <1>3, <1>5, <1>6, <1>7, <1>8, <1>9, ThreadStep

\* An edit with nothing in it.
LEMMA NoEditFacts ==
    /\ NoEdit \in Edit /\ NoEdit.add0 = {} /\ NoEdit.add1 = {} /\ NoEdit.del = {}
    /\ NoEdit.log = 0 /\ NoEdit.next = 0
BY DEF NoEdit, Edit

\* The failures of a flush or of a merge, before or while its edit is logged.
LEMMA FailureInv ==
    ASSUME Inv, TableFails \/ MergeCloses \/ MergeFails \/ SyncManifestFails PROVE Inv'
<1> USE DEF Inv, Typed
<1>1. ThreadLeaves /\ next_file_number' = next_file_number
      BY DEF TableFails, MergeCloses, MergeFails, SyncManifestFails, ThreadLeaves, versionVars,
             boundVars
<1>2. CASE TableFails
  <2>1. /\ bg.pc = "build" /\ pending_outputs' = pending_outputs \ {bg.num}
        /\ bg_error' = TRUE /\ AfterFlush(imm, version, TRUE) /\ UNCHANGED <<merge, edit>>
        BY <1>2 DEF TableFails
  <2>2. bg.job = "flush"
        BY <2>1, ThreadRuns DEF Background
  <2>3. edit' \in Edit
        BY <2>1 DEF MemoryType
  <2> QED BY <1>1, <2>1, <2>2, <2>3, FlushFails
<1>3. CASE MergeCloses \/ MergeFails
  <2>1. bg.pc = "merge" /\ CleanupCompaction /\ edit' = edit
        BY <1>3 DEF MergeCloses, MergeFails
  <2>2. edit' \in Edit
        BY <2>1 DEF MemoryType
  <2> QED BY <1>1, <2>1, <2>2, MergeAborts
<1>4. CASE SyncManifestFails
  <2>1. bg.pc = "sync" /\ edit' \in Edit
        BY <1>4, NoEditFacts DEF SyncManifestFails
  <2>2. CASE bg.job = "flush"
    <3>1. CASE CleanupCompaction
          BY <1>1, <2>1, <3>1, MergeAborts
    <3>2. CASE /\ bg_error' = TRUE /\ AfterFlush(imm, version, TRUE)
               /\ UNCHANGED <<merge, pending_outputs>>
          BY <1>1, <2>1, <2>2, <3>2, FlushFails
    <3> QED BY <1>4, <3>1, <3>2 DEF SyncManifestFails
  <2>3. CASE bg.job = "merge"
        BY <1>1, <1>4, <2>1, <2>3, MergeAborts DEF SyncManifestFails
  <2> QED BY <1>4, <2>2, <2>3 DEF SyncManifestFails
<1> QED BY <1>2, <1>3, <1>4

\* The variables that a step of the thread leaves alone when it writes a table.
TableLeaves ==
    UNCHANGED <<logs, current, phaseVars, writers, request, group, memVars, log_number,
                manifest_file_number, version, last_sequence, iterators, promiseVars, issued>>

\* No table but z changes.
OnlyTable(z) ==
    \A n \in DOMAIN tables : n \in DOMAIN tables' /\ (n # z => tables'[n] = tables[n])

\* A table that nobody reads may change.
LEMMA UnreadChanges ==
    ASSUME Inv, Running, NEW z, Unread(z), OnlyTable(z)
    PROVE  /\ Kept(tables, tables', TablesOf(version))
           /\ \A i \in iterators : Kept(tables, tables', i.tables)
           /\ \A r \in merge : Kept(tables, tables', r.tables)
           /\ \A k \in Ends(manifests[current]) :
                 Kept(tables, tables', After(manifests[current].edits, k))
           /\ DiskOK(manifests[current], tables', logs, promised, synced)
<1>1. \A S : z \notin S => Kept(tables, tables', S)
      BY DEF OnlyTable, Kept
<1>2. \A k \in Ends(manifests[current]) :
         Kept(tables, tables', After(manifests[current].edits, k))
      BY <1>1 DEF Unread
<1>3. \A L : LogsKept(logs, logs, L)
      BY DEF LogsKept
<1>4. current # 0
      BY DEF Inv, Numbers, Running
<1>5. DiskOK(manifests[current], tables, logs, promised, synced)
      BY <1>4, CurrentFacts
<1>6. DiskOK(manifests[current], tables', logs, promised, synced)
      BY <1>2, <1>3, <1>5, DiskKept
<1> QED BY <1>1, <1>2, <1>6 DEF Unread

\* A step of the thread that writes a table nobody reads.
LEMMA TableStep ==
    ASSUME Inv, bg.pc # "none", TableLeaves, pc' = pc \/ pc' = SignalAll,
           NEW z, Unread(z), OnlyTable(z),
           next_file_number' \in Nat, next_file_number' >= next_file_number,
           MemoryType', TablesType', ManifestsType', Disk', Numbers', Engine', Merging',
           Flushing', Background'
    PROVE  Inv'
<1> USE DEF Inv, Typed, TableLeaves, phaseVars, memVars, promiseVars
<1>1. Running /\ phase # "down" /\ ~Recovering /\ current # 0
      BY ThreadRuns
<1>2. LogsType' /\ NumbersType'
      BY DEF LogsType, NumbersType
<1>3. QueueType' /\ Queue' /\ Group'
  <2>1. CASE pc' = pc
        BY <2>1, QueueFrame, GroupFrame DEF QueueType
  <2>2. CASE pc' = SignalAll
        BY <2>2, SignalOK DEF RecordRead
  <2> QED BY <2>1, <2>2
<1>4. /\ Kept(tables, tables', TablesOf(version))
      /\ \A i \in iterators : Kept(tables, tables', i.tables)
      BY <1>1, UnreadChanges
<1>5. Acknowledged'
  <2>1. \A x : InTables(tables, TablesOf(version), x) => InTables(tables', TablesOf(version), x)
        BY <1>4, InTablesKept
  <2>2. \A kind : \A x : FoundAs(kind, x) => FoundAs(kind, x)'
        BY <2>1 DEF FoundAs
  <2> QED BY <1>1, <2>2 DEF Acknowledged
<1>6. Idle' /\ Recovered'
      BY <1>1 DEF Idle, Recovered, Running, Recovering
<1>7. Iterators'
  <2> SUFFICES ASSUME NEW i \in iterators
               PROVE  /\ i.tables \subseteq DOMAIN tables'
                      /\ \A n \in i.tables : n < next_file_number'
                      /\ \A x \in i.sees : Has(i.mem, x) \/ InTables(tables', i.tables, x)
      BY DEF Iterators
  <2>1. i.tables \subseteq DOMAIN tables'
        BY <1>4 DEF Iterators, Kept
  <2>2. \A n \in i.tables : n < next_file_number'
    <3>1. i.tables \subseteq Nat /\ next_file_number \in Nat
          BY DEF MemoryType, Iterator, NumbersType
    <3>2. \A n \in Nat : n < next_file_number => n < next_file_number'
          BY <3>1
    <3> QED BY <3>1, <3>2 DEF Iterators
  <2>3. \A x \in i.sees : Has(i.mem, x) \/ InTables(tables', i.tables, x)
        BY <1>4, InTablesKept DEF Iterators
  <2> QED BY <2>1, <2>2, <2>3
<1> QED BY <1>2, <1>3, <1>5, <1>6, <1>7

\* The table is built, but the database closes.
LEMMA FlushClosesInv ==
    ASSUME Inv, FlushCloses PROVE Inv'
<1> USE DEF Inv, Typed
<1>1. /\ bg.pc = "build" /\ tables' = Put(tables, bg.num, UNION imm)
      /\ pending_outputs' = pending_outputs \ {bg.num} /\ bg_error' = TRUE
      /\ AfterFlush(imm, version, TRUE) /\ TableLeaves
      /\ UNCHANGED <<manifests, next_file_number, merge, edit>>
      BY DEF FlushCloses, TableLeaves, versionVars, boundVars
<1>2. Running /\ phase # "down" /\ current # 0
      BY <1>1, ThreadRuns
<1>3. bg.job = "flush" /\ bg.num \in Nat
      BY <1>1, <1>2 DEF Background, MemoryType, Job
<1>4. /\ pc' = SignalAll /\ bg' \in Job
      /\ \/ merge = {} /\ bg'.job = "none" /\ bg'.pc \in {"none", "scheduled"}
         \/ /\ merge # {} /\ bg'.job = "merge" /\ bg'.pc = "merge"
            /\ \A r \in merge : bg'.num = r.num
      BY <1>1, <1>2, AfterFlushFacts
<1>5. /\ UNCHANGED <<logs, phase, replay, mem, imm, version, iterators, current>>
      /\ UNCHANGED <<manifest_file_number, log_number, logfile_number, promised, synced>>
      BY <1>1 DEF TableLeaves, phaseVars, memVars, promiseVars
<1>6. Unread(bg.num) /\ \A r \in merge : r.num # bg.num
      BY <1>1, <1>2, <1>3 DEF Flushing
<1>7. /\ DOMAIN tables' = DOMAIN tables \union {bg.num} /\ tables'[bg.num] = UNION imm
      /\ \A n \in DOMAIN tables : n # bg.num => tables'[n] = tables[n]
      BY <1>1 DEF Put
<1>8. OnlyTable(bg.num)
      BY <1>7 DEF OnlyTable
<1>9. /\ Kept(tables, tables', TablesOf(version))
      /\ \A r \in merge : Kept(tables, tables', r.tables)
      /\ DiskOK(manifests[current], tables', logs, promised, synced)
      BY <1>2, <1>6, <1>8, UnreadChanges
<1>10. TablesType'
  <2>1. UNION imm \in SUBSET Entry
        BY DEF MemoryType
  <2>2. \A n \in DOMAIN tables' : tables'[n] \in SUBSET Entry
        BY <1>7, <2>1 DEF TablesType
  <2>3. tables' = [n \in DOMAIN tables' |-> tables'[n]]
        BY <1>1 DEF Put
  <2> QED BY <1>3, <1>7, <2>2, <2>3 DEF TablesType
<1>11. ManifestsType' /\ MemoryType'
       BY <1>1, <1>4, <1>5 DEF ManifestsType, MemoryType
<1>12. Disk'
       BY <1>1, <1>2, <1>5, <1>9, CurrentFacts DEF Disk
<1>13. Numbers'
       BY <1>1, <1>5 DEF Numbers
<1>14. Engine'
  <2>1. TablesOf(version) \subseteq DOMAIN tables'
        BY <1>2, <1>7 DEF Engine
  <2> QED BY <1>1, <1>2, <1>4, <1>5, <2>1 DEF Engine, Running, Base
<1>15. Merging'
  <2>1. ~InstallsMerge /\ ~InstallsMerge'
        BY <1>1, <1>4 DEF InstallsMerge
  <2>2. \A n : Unread(n)' <=> Unread(n)
        BY <1>1, <1>5 DEF Unread
  <2> QED BY <1>1, <1>2, <1>5, <1>6, <1>7, <2>1, <2>2 DEF Merging
<1>16. Flushing'
       BY <1>4 DEF Flushing
<1>17. Background'
       BY <1>1, <1>2, <1>4, <1>5 DEF Background
<1>18. next_file_number' \in Nat /\ next_file_number' >= next_file_number
       BY <1>1 DEF NumbersType
<1> QED BY <1>1, <1>4, <1>6, <1>8, <1>10, <1>11, <1>12, <1>13, <1>14, <1>15, <1>16, <1>17,
           <1>18, TableStep

\* OpenCompactionOutputFile.
LEMMA OpenOutputInv ==
    ASSUME Inv, OpenCompactionOutputFile PROVE Inv'
<1> USE DEF Inv, Typed
<1> PICK z : z = next_file_number
    OBVIOUS
<1>1. /\ bg.pc = "merge" /\ bg.num = 0 /\ bg' = [bg EXCEPT !.num = z]
      /\ merge' = {[r EXCEPT !.num = z] : r \in merge}
      /\ pending_outputs' = pending_outputs \union {z}
      /\ tables' = Put(tables, z, {}) /\ next_file_number' = z + 1
      /\ TableLeaves /\ pc' = pc /\ UNCHANGED <<manifests, bg_error, edit>>
      BY DEF OpenCompactionOutputFile, TableLeaves, queueVars, boundVars
<1>2. Running /\ phase # "down" /\ current # 0
      BY <1>1, ThreadRuns
<1>3. z \in Nat /\ z < z + 1 /\ z + 1 \in Nat /\ \A n \in Nat : n < z => n < z + 1
      BY DEF NumbersType
<1>4. bg' \in Job /\ bg'.pc = "merge" /\ bg'.job = bg.job /\ bg'.num = z /\ bg.job = "merge"
  <2>1. bg.job = "merge"
        BY <1>1, <1>2 DEF Background
  <2> QED BY <1>1, <1>3, <2>1 DEF MemoryType, Job
<1>5. /\ UNCHANGED <<logs, phase, replay, mem, imm, version, iterators, current>>
      /\ UNCHANGED <<manifest_file_number, log_number, logfile_number, promised, synced>>
      BY <1>1 DEF TableLeaves, phaseVars, memVars, promiseVars
<1>6. Unread(z)
      BY <1>2, FreshIsUnread
<1>7. /\ DOMAIN tables' = DOMAIN tables \union {z} /\ tables'[z] = {}
      /\ \A n \in DOMAIN tables : n # z => tables'[n] = tables[n]
      BY <1>1 DEF Put
<1>8. OnlyTable(z)
      BY <1>7 DEF OnlyTable
<1>9. DiskOK(manifests[current], tables', logs, promised, synced)
      BY <1>2, <1>6, <1>8, UnreadChanges
<1>10. TablesType'
  <2>1. \A n \in DOMAIN tables' : tables'[n] \in SUBSET Entry
        BY <1>7 DEF TablesType
  <2>2. tables' = [n \in DOMAIN tables' |-> tables'[n]]
        BY <1>1 DEF Put
  <2> QED BY <1>3, <1>7, <2>1, <2>2 DEF TablesType
<1>11. ASSUME NEW r \in merge'
       PROVE  r \in Merge /\ r.num = z /\ \E q \in merge : r.tables = q.tables
  <2>1. PICK q \in merge : r = [q EXCEPT !.num = z]
        BY <1>1
  <2>2. q \in Merge
        BY DEF MemoryType
  <2> QED BY <1>3, <2>1, <2>2 DEF Merge
<1>12. MemoryType'
  <2>1. merge' \subseteq Merge
        BY <1>11
  <2> QED BY <1>1, <1>3, <1>4, <1>5, <2>1 DEF MemoryType
<1>13. ManifestsType' /\ Disk'
       BY <1>1, <1>2, <1>5, <1>9, CurrentFacts DEF Disk, ManifestsType
<1>14. Numbers'
  <2>1. pending_outputs' \subseteq Nat
        BY <1>12 DEF MemoryType
  <2>2. UNCHANGED <<phase, current, manifest_file_number, manifests, version, replay,
                    logs, logfile_number>>
        BY <1>1, <1>5
  <2>3. next_file_number' >= next_file_number /\ next_file_number' \in Nat
        BY <1>1, <1>3
  <2>4. \A n \in pending_outputs' : n \in pending_outputs \/ n < next_file_number'
        BY <1>1, <1>3
  <2> QED BY <1>2, <2>1, <2>2, <2>3, <2>4, NextNumber
<1>15. Engine'
  <2>1. TablesOf(version) \subseteq DOMAIN tables'
        BY <1>2, <1>7 DEF Engine
  <2> QED BY <1>1, <1>2, <1>4, <1>5, <2>1 DEF Engine, Running, Base
<1>16. Merging'
  <2> SUFFICES ASSUME NEW r \in merge'
               PROVE  /\ r.tables \subseteq DOMAIN tables'
                      /\ r.num < next_file_number'
                      /\ \A n \in r.tables : n < next_file_number'
                      /\ r.num \in DOMAIN tables' /\ r.num \in pending_outputs'
                      /\ Unread(r.num)'
    <3>1. ~InstallsMerge'
          BY <1>4 DEF InstallsMerge
    <3> QED BY <3>1 DEF Merging
  <2>1. PICK q \in merge : r.tables = q.tables /\ r.num = z
        BY <1>11
  <2>2. q.tables \subseteq DOMAIN tables /\ q.tables \subseteq Nat
        BY <1>2 DEF Merging, MemoryType, Merge
  <2>3. \A n \in r.tables : n < next_file_number'
    <3>1. \A n \in q.tables : n < next_file_number
          BY <1>2 DEF Merging
    <3> QED BY <1>1, <1>3, <2>1, <2>2, <3>1
  <2>4. Unread(r.num)'
    <3>1. \A c \in merge' : z \notin c.tables
          BY <1>6, <1>11 DEF Unread
    <3> QED BY <1>1, <1>5, <1>6, <2>1, <3>1 DEF Unread
  <2> QED BY <1>1, <1>3, <1>7, <2>1, <2>2, <2>3, <2>4
<1>17. Flushing'
       BY <1>4 DEF Flushing
<1>18. Background'
  <2>0. PICK c \in merge : \A r \in merge : r = c
        BY <1>1, <1>2 DEF Background
  <2>1. merge' # {} /\ \A q, r \in merge' : q = r
    <3>1. merge' = {[c EXCEPT !.num = z]}
          BY <1>1, <2>0
    <3> QED BY <3>1
  <2>2. \A r \in merge' : bg'.num = r.num
        BY <1>4, <1>11
  <2>3. \A q, r \in imm' : q = r
        BY <1>2, <1>5 DEF Background
  <2> HIDE DEF Inv, Typed
  <2> QED BY <1>4, <2>1, <2>2, <2>3 DEF Background
<1>19. next_file_number' \in Nat /\ next_file_number' >= next_file_number
       BY <1>1, <1>3
<1> QED BY <1>1, <1>6, <1>8, <1>10, <1>12, <1>13, <1>14, <1>15, <1>16, <1>17, <1>18, <1>19,
           TableStep

\* LogAndApply appends a completed edit to the current manifest.
LEMMA LogAndApplyFacts ==
    ASSUME Inv, Running, NEW e \in Edit, LogAndApply(e)
    PROVE  /\ edit' \in Edit /\ edit'.add0 = e.add0 /\ edit'.add1 = e.add1
           /\ edit'.del = e.del /\ edit'.log = e.log /\ edit'.next = next_file_number
           /\ ManifestsType' /\ manifests'[current] \in Manifest
           /\ current \in DOMAIN manifests'
           /\ manifests'[current].edits = Append(manifests[current].edits, edit')
           /\ manifests'[current].synced = manifests[current].synced
<1>1. current = manifest_file_number /\ current # 0
      BY DEF Inv, Engine, Numbers, Running
<1>2. /\ current \in DOMAIN manifests /\ manifests[current] \in Manifest
      /\ manifests[current].edits \in Seq(Edit)
      /\ manifests[current].synced \in Nat /\ Len(manifests[current].edits) \in Nat
      /\ manifests[current].synced <= Len(manifests[current].edits)
      BY <1>1, CurrentFacts
<1>3. next_file_number \in Nat /\ last_sequence \in Nat
      BY DEF Inv, Typed, NumbersType
<1>4. edit' = [e EXCEPT !.next = next_file_number, !.last = last_sequence]
      BY DEF LogAndApply
<1>5. /\ edit' \in Edit /\ edit'.add0 = e.add0 /\ edit'.add1 = e.add1
      /\ edit'.del = e.del /\ edit'.log = e.log /\ edit'.next = next_file_number
      BY <1>3, <1>4 DEF Edit
<1>6. manifests' = [manifests EXCEPT ![current].edits = Append(@, edit')]
      BY <1>1, <1>4 DEF LogAndApply
<1>7. Append(manifests[current].edits, edit') \in Seq(Edit)
      /\ Len(Append(manifests[current].edits, edit')) = Len(manifests[current].edits) + 1
      BY <1>2, <1>5
<1>8. PICK m2 : m2 = [manifests[current] EXCEPT !.edits = Append(@, edit')]
      OBVIOUS
<1>9. /\ m2 \in Manifest /\ m2.edits = Append(manifests[current].edits, edit')
      /\ m2.synced = manifests[current].synced
      BY <1>2, <1>7, <1>8 DEF Manifest
<1>10. manifests' = [manifests EXCEPT ![current] = m2]
       BY <1>6, <1>8
<1>11. /\ DOMAIN manifests' = DOMAIN manifests /\ manifests'[current] = m2
       /\ \A n \in DOMAIN manifests : n # current => manifests'[n] = manifests[n]
       BY <1>2, <1>10
<1>12. ManifestsType'
  <2>1. m2.synced <= Len(m2.edits)
        BY <1>2, <1>7, <1>9
  <2>2. manifests \in [DOMAIN manifests -> Manifest] /\ DOMAIN manifests \subseteq Nat
        BY DEF Inv, Typed, ManifestsType
  <2>3. manifests' \in [DOMAIN manifests -> Manifest]
        BY <1>9, <1>10, <2>2
  <2> QED BY <1>11, <2>1, <2>2, <2>3 DEF Inv, Typed, ManifestsType
<1> QED BY <1>2, <1>5, <1>9, <1>11, <1>12

\* A step that writes table z, which nobody reads, and appends an edit which
\* makes a version S of tables that exist and, with the logs the edit names, hold
\* all that is promised.
LogsEdit(e, z, S) ==
    /\ bg.pc \in {"build", "merge"} /\ e \in Edit /\ LogAndApply(e) /\ TableLeaves
    /\ Unread(z) /\ OnlyTable(z) /\ bg' = [bg EXCEPT !.pc = "sync"]
    /\ UNCHANGED <<next_file_number, bg_error>> /\ pending_outputs' \subseteq pending_outputs
    /\ S = (After(manifests[current].edits, Len(manifests[current].edits)) \ e.del)
              \union e.add0 \union e.add1
    /\ S \subseteq DOMAIN tables' /\ \A n \in S : n < next_file_number
    /\ Covers(tables', S, logs, e.log, promised, synced) /\ e.log <= logfile_number

\* What the manifest is then, and what follows from it.
EditIsLogged(e, S) ==
    /\ Disk' /\ Numbers' /\ Engine' /\ ManifestsType'
    /\ edit' = manifests'[current].edits[Len(manifests'[current].edits)]
    /\ edit' \in Edit /\ edit'.add0 = e.add0 /\ edit'.add1 = e.add1
    /\ edit'.del = e.del /\ edit'.log = e.log
    /\ \A k \in Ends(manifests'[current]) :
          \/ After(manifests'[current].edits, k) = S
          \/ \E j \in Ends(manifests[current]) :
                After(manifests'[current].edits, k) = After(manifests[current].edits, j)

\* The edit is logged.
LEMMA EditLogged ==
    ASSUME Inv, NEW e, NEW z, NEW S, LogsEdit(e, z, S)
    PROVE  EditIsLogged(e, S)
<1> USE DEF Inv, Typed, LogsEdit
<1>1. Running /\ phase # "down" /\ phase # "replay" /\ current # 0
      BY ThreadRuns
<1>2. /\ UNCHANGED <<logs, phase, replay, version, iterators, current>>
      /\ UNCHANGED <<manifest_file_number, log_number, logfile_number, promised, synced>>
      BY DEF TableLeaves, phaseVars, memVars, promiseVars
<1> PICK m : m = manifests[current]
    OBVIOUS
<1> PICK m2 : m2 = manifests'[current]
    OBVIOUS
<1>3. /\ edit' \in Edit /\ edit'.add0 = e.add0 /\ edit'.add1 = e.add1
      /\ edit'.del = e.del /\ edit'.log = e.log /\ edit'.next = next_file_number
      /\ ManifestsType' /\ m2 \in Manifest /\ current \in DOMAIN manifests'
      /\ m2.edits = Append(m.edits, edit') /\ m2.synced = m.synced
      BY <1>1, LogAndApplyFacts
<1>4. /\ m \in Manifest /\ m.synced <= Len(m.edits) /\ Len(m.edits) \in Nat
      /\ Ends(m) \subseteq 0 .. Len(m.edits) /\ Len(m.edits) \in Ends(m)
      BY <1>1, CurrentFacts
<1>5. DiskOK(m, tables', logs, promised, synced)
      BY <1>1, UnreadChanges
<1>6. \A k \in Ends(m) : \A n \in After(m.edits, k) : n < next_file_number
      BY <1>1 DEF Numbers
<1>7. /\ next_file_number \in Nat /\ logfile_number \in Nat /\ e.log \in Nat
      /\ logfile_number < next_file_number
      BY <1>1 DEF NumbersType, Numbers, Edit
<1>8. e.log <= next_file_number /\ next_file_number > 0
      BY <1>7
<1>9. /\ DiskOK(m2, tables', logs, promised, synced)
      /\ Ends(m2) = Ends(m) \union {Len(m.edits) + 1}
      /\ \A k \in Ends(m) : /\ After(m2.edits, k) = After(m.edits, k)
                            /\ k > 0 => m2.edits[k] = m.edits[k]
      /\ After(m2.edits, Len(m.edits) + 1) = S
      /\ m2.edits[Len(m.edits) + 1] = edit' /\ Len(m2.edits) = Len(m.edits) + 1
  <2>1. PICK e2 : e2 = edit'
        OBVIOUS
  <2>2. PICK t2 : t2 = tables'
        OBVIOUS
  <2>3. /\ e2 \in Edit /\ m2.edits = Append(m.edits, e2)
        /\ S = (After(m.edits, Len(m.edits)) \ e2.del) \union e2.add0 \union e2.add1
        /\ e2.log = e.log /\ e2.next = next_file_number
        BY <1>3, <2>1
  <2>4. /\ S \subseteq DOMAIN t2 /\ Covers(t2, S, logs, e2.log, promised, synced)
        /\ DiskOK(m, t2, logs, promised, synced)
        BY <1>5, <2>2, <2>3
  <2>5. e2.log <= e2.next /\ e2.next > 0 /\ (\A n \in S : n < e2.next)
        /\ \A k \in Ends(m) : \A n \in After(m.edits, k) : n < e2.next
        BY <1>6, <1>8, <2>3
  <2>6. m2 \in Manifest /\ m2.synced = m.synced
        BY <1>3
  <2>7. /\ DiskOK(m2, t2, logs, promised, synced)
        /\ Ends(m2) = Ends(m) \union {Len(m.edits) + 1}
        /\ \A k \in Ends(m) : /\ After(m2.edits, k) = After(m.edits, k)
                              /\ k > 0 => m2.edits[k] = m.edits[k]
        /\ After(m2.edits, Len(m.edits) + 1) = S
        /\ m2.edits[Len(m.edits) + 1] = e2 /\ Len(m2.edits) = Len(m.edits) + 1
    <3>1. Appended(m, m2, e2, t2, logs, promised, synced, S)
      <4> HIDE DEF Inv, Typed
      <4> QED BY <1>4, <2>3, <2>4, <2>5, <2>6 DEF Appended
    <3> QED BY <3>1, DiskAppend
  <2> QED BY <2>1, <2>2, <2>7
<1>10. Disk'
       BY <1>1, <1>2, <1>3, <1>9 DEF Disk
<1>11. Numbers'
       BY <1>1, <1>2, <1>6, <1>9 DEF Numbers
<1>12. bg'.pc = "sync"
       BY DEF MemoryType, Job
<1>13. Engine'
  <2>1. Base' = Len(m.edits) /\ Base = Len(m.edits)
        BY <1>2, <1>4, <1>9, <1>12 DEF Base
  <2>2. After(m2.edits, Base') = After(m.edits, Base)
        BY <1>4, <1>9, <2>1
  <2>3. TablesOf(version) \subseteq DOMAIN tables'
        BY <1>1 DEF Engine, OnlyTable
  <2>4. \A k \in Ends(m2) : k > 0 /\ m2.edits[k].log <= logfile_number
    <3>1. \A k \in Ends(m) : k > 0 /\ m.edits[k].log <= logfile_number
          BY <1>1 DEF Engine
    <3>2. Len(m.edits) + 1 > 0
          BY <1>4
    <3> QED BY <1>3, <1>9, <3>1, <3>2
  <2>5. Len(m2.edits) > 0
        BY <1>4, <1>9
  <2>6. TablesOf(version) \subseteq After(m.edits, Base)
        BY <1>1 DEF Engine
  <2>7. ~bg_error => After(m.edits, Base) \subseteq TablesOf(version)
        BY <1>1 DEF Engine
  <2>8. TablesOf(version') \subseteq After(m2.edits, Base')
        BY <1>2, <2>2, <2>6
  <2>9. ~bg_error' => After(m2.edits, Base') \subseteq TablesOf(version')
        BY <1>2, <2>2, <2>7
  <2>10. current' = manifest_file_number' /\ log_number' <= logfile_number'
        BY <1>1, <1>2 DEF Engine
  <2> QED BY <1>2, <2>3, <2>4, <2>5, <2>8, <2>9, <2>10 DEF Engine
<1> QED BY <1>3, <1>4, <1>9, <1>10, <1>11, <1>13 DEF EditIsLogged

\* The table of a flush is built, and its edit is logged.
LEMMA TableBuiltInv ==
    ASSUME Inv, TableBuilt PROVE Inv'
<1> USE DEF Inv, Typed
<1> PICK z : z = bg.num
    OBVIOUS
<1> PICK e : e = [NoEdit EXCEPT !.add0 = {z}, !.log = logfile_number]
    OBVIOUS
<1> PICK A : A = After(manifests[current].edits, Len(manifests[current].edits))
    OBVIOUS
<1> PICK S : S = A \union {z}
    OBVIOUS
<1>1. /\ bg.pc = "build" /\ tables' = Put(tables, z, UNION imm)
      /\ pending_outputs' = pending_outputs \ {z} /\ LogAndApply(e)
      /\ bg' = [bg EXCEPT !.pc = "sync"] /\ TableLeaves /\ pc' = pc
      /\ UNCHANGED <<next_file_number, bg_error, merge>>
      BY DEF TableBuilt, TableLeaves, versionVars, boundVars, queueVars
<1>2. Running /\ phase # "down" /\ phase # "replay" /\ current # 0
      BY <1>1, ThreadRuns
<1>3. bg.job = "flush" /\ z \in Nat /\ imm # {}
      BY <1>1, <1>2 DEF Background, MemoryType, Job
<1>4. bg' \in Job /\ bg'.pc = "sync" /\ bg'.job = "flush" /\ bg'.num = z
      BY <1>1, <1>3 DEF MemoryType, Job
<1>5. /\ UNCHANGED <<logs, phase, replay, mem, imm, version, iterators, current>>
      /\ UNCHANGED <<manifest_file_number, log_number, logfile_number, promised, synced>>
      BY <1>1 DEF TableLeaves, phaseVars, memVars, promiseVars
<1>6. Unread(z) /\ z < next_file_number /\ \A r \in merge : r.num # z
      BY <1>1, <1>2, <1>3 DEF Flushing
<1>7. /\ DOMAIN tables' = DOMAIN tables \union {z} /\ tables'[z] = UNION imm
      /\ \A n \in DOMAIN tables : n # z => tables'[n] = tables[n]
      BY <1>1 DEF Put
<1>8. OnlyTable(z)
      BY <1>7 DEF OnlyTable
<1>9. Kept(tables, tables', TablesOf(version))
      BY <1>2, <1>6, <1>8, UnreadChanges
<1>10. logfile_number \in Nat /\ logfile_number \in DOMAIN logs
       BY <1>2 DEF Numbers, NumbersType
<1>11. /\ e \in Edit /\ e.add0 = {z} /\ e.add1 = {} /\ e.del = {} /\ e.log = logfile_number
       BY <1>3, <1>10, NoEditFacts DEF Edit, NoEdit
<1>12. /\ S = (A \ e.del) \union e.add0 \union e.add1
       /\ S \subseteq DOMAIN tables' /\ \A n \in S : n < next_file_number
  <2>1. A \subseteq DOMAIN tables /\ \A n \in A : n < next_file_number
    <3>1. Len(manifests[current].edits) \in Ends(manifests[current])
          BY <1>2, CurrentFacts
    <3>2. DiskOK(manifests[current], tables, logs, promised, synced)
          BY <1>2, CurrentFacts
    <3>3. Len(manifests[current].edits) # 0
          BY <1>2, <3>1 DEF Engine
    <3>4. A \subseteq DOMAIN tables
          BY <3>1, <3>2, <3>3 DEF DiskOK, EndOK
    <3> QED BY <1>2, <3>1, <3>4 DEF Numbers
  <2> QED BY <1>6, <1>7, <1>11, <2>1
<1>13. Covers(tables', S, logs, e.log, promised, synced)
  <2>1. TablesOf(version) \subseteq S
        BY <1>1, <1>2 DEF Engine, Base
  <2>2. ASSUME NEW kind \in Kinds, NEW x, FoundAs(kind, x)
        PROVE  InTables(tables', S, x) \/ InLogs(logs, logfile_number, kind, x)
    <3>1. CASE Has(mem, x) /\ InLog(logs[logfile_number], kind, x)
          BY <1>10, <3>1 DEF InLogs
    <3>2. CASE \E m \in imm : Has(m, x)
      <4>1. Has(UNION imm, x)
            BY <3>2 DEF Has
      <4> QED BY <1>7, <4>1 DEF InTables
    <3>3. CASE InTables(tables, TablesOf(version), x)
          BY <1>9, <2>1, <3>3 DEF InTables, Kept
    <3> QED BY <2>2, <3>1, <3>2, <3>3 DEF FoundAs
  <2>3. "written" \in Kinds /\ "synced" \in Kinds
        BY DEF Kinds
  <2> QED BY <1>2, <1>11, <2>2, <2>3 DEF Covers, Acknowledged
<1>14. /\ Disk' /\ Numbers' /\ Engine' /\ ManifestsType'
       /\ edit' = manifests'[current].edits[Len(manifests'[current].edits)]
       /\ edit' \in Edit /\ edit'.add0 = {z} /\ edit'.add1 = {}
       /\ edit'.del = {} /\ edit'.log = logfile_number
       /\ \A k \in Ends(manifests'[current]) :
             \/ After(manifests'[current].edits, k) = S
             \/ \E j \in Ends(manifests[current]) :
                   After(manifests'[current].edits, k) = After(manifests[current].edits, j)
  <2>1. pending_outputs' \subseteq pending_outputs /\ e.log <= logfile_number
        BY <1>1, <1>10, <1>11
  <2>2. LogsEdit(e, z, S)
        BY <1>1, <1>6, <1>8, <1>11, <1>12, <1>13, <2>1 DEF LogsEdit
  <2>3. EditIsLogged(e, S)
    <3> HIDE DEF Inv, Typed
    <3> QED BY <2>2, EditLogged
  <2> QED BY <1>11, <2>3 DEF EditIsLogged
<1>15. TablesType'
  <2>1. UNION imm \in SUBSET Entry
        BY DEF MemoryType
  <2>2. \A n \in DOMAIN tables' : tables'[n] \in SUBSET Entry
        BY <1>7, <2>1 DEF TablesType
  <2>3. tables' = [n \in DOMAIN tables' |-> tables'[n]]
        BY <1>1 DEF Put
  <2> QED BY <1>3, <1>7, <2>2, <2>3 DEF TablesType
<1>16. MemoryType'
       BY <1>1, <1>4, <1>5, <1>14 DEF MemoryType
<1>17. Merging'
  <2>1. ~InstallsMerge /\ ~InstallsMerge'
        BY <1>1, <1>4 DEF InstallsMerge
  <2>2. ASSUME NEW n, n # z, Unread(n) PROVE Unread(n)'
    <3>1. n \notin A
          BY <1>2, <2>2, CurrentFacts DEF Unread
    <3>2. n \notin S
          BY <2>2, <3>1
    <3>3. \A k \in Ends(manifests'[current]) : n \notin After(manifests'[current].edits, k)
          BY <1>14, <2>2, <3>2 DEF Unread
    <3> QED BY <1>1, <1>5, <2>2, <3>3 DEF Unread
  <2> QED BY <1>1, <1>2, <1>5, <1>6, <1>7, <2>1, <2>2 DEF Merging
<1>18. Flushing'
       BY <1>1, <1>4, <1>5, <1>6, <1>7, <1>14 DEF Flushing
<1>19. Background'
       BY <1>1, <1>2, <1>3, <1>4, <1>5, <1>14 DEF Background
<1>20. next_file_number' \in Nat /\ next_file_number' >= next_file_number
       BY <1>1 DEF NumbersType
<1> QED BY <1>1, <1>6, <1>8, <1>14, <1>15, <1>16, <1>17, <1>18, <1>19, <1>20, TableStep

\* The output of a merge is written, and its edit is logged.
LEMMA FinishOutputInv ==
    ASSUME Inv, FinishCompactionOutputFile PROVE Inv'
<1> USE DEF Inv, Typed
<1>1. PICK r \in merge : /\ tables' = [tables EXCEPT ![r.num] = Contents(r.tables)]
                         /\ LogAndApply([NoEdit EXCEPT !.add1 = {r.num}, !.del = r.tables,
                                                       !.log = log_number])
      BY DEF FinishCompactionOutputFile
<1> PICK z : z = r.num
    OBVIOUS
<1> PICK e : e = [NoEdit EXCEPT !.add1 = {z}, !.del = r.tables, !.log = log_number]
    OBVIOUS
<1> PICK A : A = After(manifests[current].edits, Len(manifests[current].edits))
    OBVIOUS
<1> PICK S : S = (A \ r.tables) \union {z}
    OBVIOUS
<1> PICK C : C = Contents(r.tables)
    OBVIOUS
<1>2. /\ bg.pc = "merge" /\ bg.num # 0 /\ tables' = [tables EXCEPT ![z] = C]
      /\ LogAndApply(e) /\ bg' = [bg EXCEPT !.pc = "sync"] /\ TableLeaves /\ pc' = pc
      /\ UNCHANGED <<next_file_number, bg_error, merge, pending_outputs>>
      BY <1>1 DEF FinishCompactionOutputFile, TableLeaves, versionVars, boundVars, queueVars
<1>3. Running /\ phase # "down" /\ phase # "replay" /\ current # 0
      BY <1>2, ThreadRuns
<1>4. /\ bg.job = "merge" /\ bg.num = z /\ z \in Nat /\ z # 0 /\ r.tables \subseteq Nat
      /\ \A q \in merge : q = r
  <2>1. bg.job = "merge" /\ bg.num = z /\ \A q \in merge : q = r
        BY <1>1, <1>2, <1>3 DEF Background
  <2>2. r \in Merge
        BY <1>1 DEF MemoryType
  <2> QED BY <1>2, <2>1, <2>2 DEF Merge
<1>5. bg' \in Job /\ bg'.pc = "sync" /\ bg'.job = "merge" /\ bg'.num = z
      BY <1>2, <1>4 DEF MemoryType, Job
<1>6. /\ UNCHANGED <<logs, phase, replay, mem, imm, version, iterators, current>>
      /\ UNCHANGED <<manifest_file_number, log_number, logfile_number, promised, synced>>
      BY <1>2 DEF TableLeaves, phaseVars, memVars, promiseVars
<1>7. /\ Unread(z) /\ z \in DOMAIN tables /\ z < next_file_number
      /\ r.tables \subseteq DOMAIN tables /\ z \notin r.tables
      /\ \A n \in r.tables : n < next_file_number
  <2>1. ~InstallsMerge
        BY <1>2 DEF InstallsMerge
  <2> QED BY <1>1, <1>3, <1>4, <2>1 DEF Merging, Unread
<1>8. /\ DOMAIN tables' = DOMAIN tables /\ tables'[z] = C
      /\ \A n \in DOMAIN tables : n # z => tables'[n] = tables[n]
      BY <1>2, <1>7
<1>9. OnlyTable(z)
      BY <1>8 DEF OnlyTable
<1>10. Contents(r.tables)' = C
       BY <1>7, <1>8 DEF Contents
<1>11. /\ logfile_number \in Nat /\ logfile_number \in DOMAIN logs /\ log_number \in Nat
       /\ log_number <= logfile_number
       BY <1>3 DEF Numbers, NumbersType, Engine
<1>12. /\ e \in Edit /\ e.add0 = {} /\ e.add1 = {z} /\ e.del = r.tables /\ e.log = log_number
       BY <1>4, <1>11, NoEditFacts DEF Edit, NoEdit
<1>13. /\ S = (A \ e.del) \union e.add0 \union e.add1
       /\ S \subseteq DOMAIN tables' /\ \A n \in S : n < next_file_number
  <2>1. A \subseteq DOMAIN tables /\ \A n \in A : n < next_file_number
    <3>1. Len(manifests[current].edits) \in Ends(manifests[current])
          BY <1>3, CurrentFacts
    <3>2. DiskOK(manifests[current], tables, logs, promised, synced)
          BY <1>3, CurrentFacts
    <3>3. Len(manifests[current].edits) # 0
          BY <1>3, <3>1 DEF Engine
    <3>4. A \subseteq DOMAIN tables
          BY <3>1, <3>2, <3>3 DEF DiskOK, EndOK
    <3> QED BY <1>3, <3>1, <3>4 DEF Numbers
  <2> QED BY <1>7, <1>8, <1>12, <2>1
<1>14. Covers(tables', S, logs, e.log, promised, synced)
  <2>1. TablesOf(version) \subseteq A /\ z \notin TablesOf(version)
        BY <1>2, <1>3, <1>7 DEF Engine, Base, Unread
  <2>2. ASSUME NEW kind \in Kinds, NEW x, FoundAs(kind, x)
        PROVE  InTables(tables', S, x) \/ InLogs(logs, log_number, kind, x)
    <3>1. CASE Has(mem, x) /\ InLog(logs[logfile_number], kind, x)
      <4>1. logfile_number >= log_number
            BY <1>11
      <4> QED BY <1>11, <3>1, <4>1 DEF InLogs
    <3>2. CASE InLogs(logs, log_number, kind, x)
          BY <3>2
    <3>3. CASE InTables(tables, TablesOf(version), x)
      <4>1. PICK n \in TablesOf(version) : n \in DOMAIN tables /\ Has(tables[n], x)
            BY <3>3 DEF InTables
      <4>2. CASE n \in r.tables
        <5>1. Has(C, x)
              BY <4>1, <4>2 DEF Has, Contents
        <5> QED BY <1>7, <1>8, <5>1 DEF InTables
      <4>3. CASE n \notin r.tables
        <5>1. n \in S /\ tables'[n] = tables[n]
              BY <1>8, <2>1, <4>1, <4>3
        <5> QED BY <1>8, <4>1, <5>1 DEF InTables
      <4> QED BY <4>2, <4>3
    <3> QED BY <2>2, <3>1, <3>2, <3>3 DEF FoundAs
  <2>3. "written" \in Kinds /\ "synced" \in Kinds
        BY DEF Kinds
  <2> QED BY <1>3, <1>12, <2>2, <2>3 DEF Covers, Acknowledged
<1>15. /\ Disk' /\ Numbers' /\ Engine' /\ ManifestsType'
       /\ edit' = manifests'[current].edits[Len(manifests'[current].edits)]
       /\ edit' \in Edit /\ edit'.add0 = {} /\ edit'.add1 = {z}
       /\ edit'.del = r.tables /\ edit'.log = log_number
  <2>1. LogsEdit(e, z, S)
        BY <1>2, <1>7, <1>9, <1>11, <1>12, <1>13, <1>14 DEF LogsEdit
  <2>2. EditIsLogged(e, S)
    <3> HIDE DEF Inv, Typed
    <3> QED BY <2>1, EditLogged
  <2> QED BY <1>12, <2>2 DEF EditIsLogged
<1>16. TablesType'
  <2>1. C \in SUBSET Entry
        BY DEF TablesType, Contents
  <2> QED BY <1>2, <1>8, <2>1 DEF TablesType
<1>17. MemoryType'
       BY <1>2, <1>5, <1>6, <1>15 DEF MemoryType
<1>18. Merging'
  <2>1. InstallsMerge'
        BY <1>5 DEF InstallsMerge
  <2> QED BY <1>2, <1>4, <1>6, <1>7, <1>8, <1>10, <1>15, <2>1 DEF Merging
<1>19. Flushing'
       BY <1>5 DEF Flushing
<1>20. Background'
       BY <1>2, <1>3, <1>4, <1>5, <1>6, <1>15 DEF Background
<1>21. next_file_number' \in Nat /\ next_file_number' >= next_file_number
       BY <1>2 DEF NumbersType
<1> QED BY <1>2, <1>7, <1>9, <1>15, <1>16, <1>17, <1>18, <1>19, <1>20, <1>21, TableStep

-----------------------------------------------------------------------------
(* The deletion of obsolete files.                                         *)

\* What is left of the files: the logs from L on, the tables that somebody reads
\* or writes, and the current manifest.
Left(ms, v, L, P, R) ==
    /\ LogsType' /\ TablesType' /\ DOMAIN logs' \subseteq DOMAIN logs
    /\ \A n \in DOMAIN logs' : logs'[n] = logs[n]
    /\ \A n \in DOMAIN logs : n >= L => n \in DOMAIN logs'
    /\ LogsKept(logs, logs', L)
    /\ Kept(tables, tables', TablesOf(v)) /\ Kept(tables, tables', P)
    /\ \A i \in iterators : Kept(tables, tables', i.tables)
    /\ \A r \in R : Kept(tables, tables', r.tables)
    /\ bg_error => \A S : Kept(tables, tables', S)
    /\ DOMAIN manifests' \subseteq DOMAIN ms /\ current \in DOMAIN manifests'
    /\ manifests' = [n \in DOMAIN manifests' |-> ms[n]]

\* DeleteObsoleteFiles leaves them.
LEMMA DeleteFacts ==
    ASSUME Inv, NEW ms, NEW v, NEW L, NEW P, NEW R,
           DeleteObsoleteFiles(ms, v, L, P, R), ms = [n \in DOMAIN manifests |-> ms[n]],
           current \in DOMAIN manifests, current = manifest_file_number
    PROVE  Left(ms, v, L, P, R)
<1> USE DEF Inv, Typed
<1>1. CASE bg_error
  <2>1. manifests' = ms /\ logs' = logs /\ tables' = tables
        BY <1>1 DEF DeleteObsoleteFiles
  <2>2. LogsType' /\ TablesType'
        BY <2>1 DEF LogsType, TablesType
  <2>3. LogsKept(logs, logs', L) /\ \A S : Kept(tables, tables', S)
        BY <2>1 DEF LogsKept, Kept
  <2> QED BY <2>1, <2>2, <2>3 DEF Left
<1>2. CASE ~bg_error
  <2>1. /\ logs' = Keep(logs, KeptLogs(L)) /\ tables' = Keep(tables, KeptTables(v, P, R))
        /\ manifests' = Keep(ms, KeptManifests)
        BY <1>2 DEF DeleteObsoleteFiles
  <2>2. /\ logs' = [n \in DOMAIN logs \cap KeptLogs(L) |-> logs[n]]
        /\ DOMAIN logs' = {n \in DOMAIN logs : n >= L}
        /\ \A n \in DOMAIN logs' : logs'[n] = logs[n]
        BY <2>1 DEF Keep, KeptLogs
  <2>3. /\ tables' = [n \in DOMAIN tables \cap KeptTables(v, P, R) |-> tables[n]]
        /\ DOMAIN tables' = DOMAIN tables \cap KeptTables(v, P, R)
        /\ \A n \in DOMAIN tables' : tables'[n] = tables[n]
        BY <2>1 DEF Keep
  <2>4. /\ manifests' = [n \in DOMAIN ms \cap KeptManifests |-> ms[n]]
        /\ DOMAIN manifests' = DOMAIN ms \cap KeptManifests
        BY <2>1 DEF Keep
  <2>5. current \in KeptManifests /\ current \in DOMAIN ms
    <3>1. manifest_file_number >= manifest_file_number
          BY DEF NumbersType
    <3> QED BY <3>1 DEF KeptManifests
  <2>6. LogsType'
        BY <2>2 DEF LogsType
  <2>7. TablesType'
        BY <2>3 DEF TablesType
  <2>8. LogsKept(logs, logs', L)
        BY <2>2 DEF LogsKept
  <2>9. \A S : S \subseteq KeptTables(v, P, R) => Kept(tables, tables', S)
        BY <2>3 DEF Kept
  <2>10. /\ TablesOf(v) \subseteq KeptTables(v, P, R) /\ P \subseteq KeptTables(v, P, R)
         /\ \A i \in iterators : i.tables \subseteq KeptTables(v, P, R)
         /\ \A r \in R : r.tables \subseteq KeptTables(v, P, R)
         BY DEF KeptTables
  <2> QED BY <1>2, <2>2, <2>4, <2>5, <2>6, <2>7, <2>8, <2>9, <2>10 DEF Left
<1>3. bg_error \in BOOLEAN
      BY DEF MemoryType
<1> QED BY <1>1, <1>2, <1>3

\* What a step promises anew is in a table of the version it installs.
Promotes ==
    /\ \A x \in promised' : x \in promised \/ InTables(tables, TablesOf(version'), x)
    /\ \A x \in synced' : x \in synced \/ InTables(tables, TablesOf(version'), x)
    /\ promised' \subseteq 1 .. issued /\ synced' \subseteq promised' /\ risked' \subseteq risked

\* A step in which LogAndApply installs the version of a synced edit.
Installs ==
    /\ bg.pc = "sync"
    /\ version' = Apply(version, edit) /\ log_number' = edit.log /\ edit' = NoEdit
    /\ DeleteObsoleteFiles(SyncedManifests, Apply(version, edit), edit.log,
                           pending_outputs', merge')
    /\ pending_outputs' \subseteq pending_outputs /\ merge' \subseteq merge
    /\ pc' = SignalAll /\ bg' \in Job
    /\ UNCHANGED <<current, phaseVars, writers, request, group, mem, logfile_number,
                   next_file_number, manifest_file_number, last_sequence, bg_error,
                   iterators, issued>>
    /\ Promotes

\* The version, and the files, after such a step.
Installed ==
    /\ Left(SyncedManifests, version', edit.log, pending_outputs', merge')
    /\ LogsType' /\ TablesType' /\ ManifestsType' /\ Disk' /\ Numbers'
    /\ version' \in Version /\ TablesOf(version') \subseteq DOMAIN tables'
    /\ TablesOf(version') = (TablesOf(version) \ edit.del) \union edit.add0 \union edit.add1
    /\ Len(manifests[current].edits) \in Nat /\ Len(manifests[current].edits) > 0
    /\ Len(manifests[current].edits) \in Ends(manifests[current])
    /\ manifests'[current].edits = manifests[current].edits
    /\ Ends(manifests'[current]) = {Len(manifests[current].edits)}
    /\ TablesOf(version') \subseteq
          After(manifests[current].edits, Len(manifests[current].edits))
    /\ ~bg_error => After(manifests[current].edits, Len(manifests[current].edits))
                       \subseteq TablesOf(version')
    /\ manifests[current].edits[Len(manifests[current].edits)] = edit
    /\ edit.log \in Nat /\ edit.log <= logfile_number
    /\ logfile_number \in DOMAIN logs' /\ logs'[logfile_number] = logs[logfile_number]

\* They are as Installed says.
LEMMA InstallFacts ==
    ASSUME Inv, Installs PROVE Installed
<1> USE DEF Inv, Typed
<1>1. Running /\ phase # "down" /\ phase # "replay" /\ current # 0
      BY ThreadRuns DEF Installs
<1>2. UNCHANGED <<current, phase, replay, iterators, manifest_file_number, next_file_number,
                  bg_error, logfile_number>>
      BY DEF Installs, phaseVars
<1> PICK m : m = manifests[current]
    OBVIOUS
<1> PICK ms : ms = SyncedManifests
    OBVIOUS
<1> PICK N : N = Len(m.edits)
    OBVIOUS
<1> PICK V2 : V2 = TablesOf(version')
    OBVIOUS
<1>3. /\ current \in DOMAIN manifests /\ m \in Manifest /\ m.synced <= N /\ N \in Nat
      /\ m.edits \in Seq(Edit) /\ N \in Ends(m) /\ m.synced \in Nat
      /\ DiskOK(m, tables, logs, promised, synced)
      BY <1>1, CurrentFacts
<1>4. /\ N > 0 /\ current = manifest_file_number /\ edit = m.edits[N]
      /\ m.edits[N].log <= logfile_number
      BY <1>1, <1>3 DEF Engine, Background, Installs
<1>5. edit \in Edit /\ edit.log \in Nat /\ edit.log <= logfile_number
      BY <1>4 DEF MemoryType, Edit
<1>6. version' \in Version
      /\ V2 = (TablesOf(version) \ edit.del) \union edit.add0 \union edit.add1
  <2>1. version \in Version
        BY DEF MemoryType
  <2> QED BY <1>5, <2>1, ApplyTables DEF Installs
<1>7. After(m.edits, N) = (After(m.edits, N - 1) \ edit.del) \union edit.add0 \union edit.add1
  <2>1. N \in 1 .. Len(m.edits)
        BY <1>3, <1>4
  <2> QED BY <1>3, <1>4, <2>1, AfterStep
<1>8. TablesOf(version) \subseteq After(m.edits, N - 1)
      /\ (~bg_error => After(m.edits, N - 1) \subseteq TablesOf(version))
  <2>1. Base = N - 1
        BY DEF Base, Installs
  <2> QED BY <1>1, <2>1 DEF Engine, Installs
<1>9. V2 \subseteq After(m.edits, N) /\ (~bg_error => After(m.edits, N) \subseteq V2)
      BY <1>6, <1>7, <1>8
<1>10. After(m.edits, N) \subseteq DOMAIN tables
       BY <1>3, <1>4 DEF DiskOK, EndOK
<1>11. PICK m2 : m2 = [m EXCEPT !.synced = N]
       OBVIOUS
<1>12. m2 \in Manifest /\ m2.edits = m.edits /\ m2.synced = N
       BY <1>3, <1>11 DEF Manifest
<1>13. /\ ms = [manifests EXCEPT ![current] = m2] /\ DOMAIN ms = DOMAIN manifests
       /\ ms[current] = m2 /\ \A n \in DOMAIN manifests : n # current => ms[n] = manifests[n]
       BY <1>3, <1>4, <1>11 DEF SyncedManifests
<1>14. Left(ms, version', edit.log, pending_outputs', merge')
  <2>1. ms = [n \in DOMAIN manifests |-> ms[n]]
        BY <1>13
  <2>2. PICK v : v = version'
        OBVIOUS
  <2>3. PICK P : P = pending_outputs'
        OBVIOUS
  <2>4. PICK R : R = merge'
        OBVIOUS
  <2>5. PICK L : L = edit.log
        OBVIOUS
  <2>6. DeleteObsoleteFiles(ms, v, L, P, R)
        BY <2>2, <2>3, <2>4, <2>5 DEF Installs
  <2>7. Left(ms, v, L, P, R)
    <3> HIDE DEF Inv, Typed
    <3> QED BY <1>3, <1>4, <2>1, <2>6, DeleteFacts
  <2> QED BY <2>2, <2>3, <2>4, <2>5, <2>7
<1>15. /\ current \in DOMAIN manifests' /\ manifests'[current] = m2
       /\ DOMAIN manifests' \subseteq DOMAIN manifests
       /\ \A n \in DOMAIN manifests' : n # current => manifests'[n] = manifests[n]
       /\ manifests' = [n \in DOMAIN manifests' |-> manifests'[n]]
       BY <1>13, <1>14 DEF Left
<1>16. ManifestsType'
  <2>1. ASSUME NEW n \in DOMAIN manifests'
        PROVE  manifests'[n] \in Manifest /\ manifests'[n].synced <= Len(manifests'[n].edits)
    <3>1. CASE n = current
          BY <1>3, <1>12, <1>15, <3>1
    <3>2. CASE n # current
          BY <1>15, <3>2 DEF ManifestsType
    <3> QED BY <3>1, <3>2
  <2>2. DOMAIN manifests' \subseteq Nat
        BY <1>15 DEF ManifestsType
  <2> QED BY <1>15, <2>1, <2>2 DEF ManifestsType
<1>17. DiskOK(m2, tables, logs, promised, synced) /\ Ends(m2) = {N}
       BY <1>3, <1>12, DiskSynced
<1>18. Kept(tables, tables', V2) /\ LogsKept(logs, logs', edit.log)
       /\ LogsType' /\ TablesType' /\ (bg_error => \A S : Kept(tables, tables', S))
       BY <1>14 DEF Left
<1>19. Disk'
  <2>1. Kept(tables, tables', After(m2.edits, N))
        BY <1>9, <1>12, <1>18 DEF Kept
  <2>2. \A k \in Ends(m2) : k # 0 => /\ Kept(tables, tables', After(m2.edits, k))
                                     /\ LogsKept(logs, logs', m2.edits[k].log)
        BY <1>4, <1>12, <1>17, <1>18, <2>1
  <2>3. DiskOK(m2, tables', logs', promised, synced)
        BY <1>17, <2>2, DiskKept
  <2>4. \A k \in Ends(m2) : k # 0 /\ V2 \subseteq After(m2.edits, k)
        BY <1>4, <1>9, <1>12, <1>17
  <2>5. /\ \A x \in promised' : x \in promised \/ InTables(tables', V2, x)
        /\ \A x \in synced' : x \in synced \/ InTables(tables', V2, x)
        BY <1>18, InTablesKept DEF Installs, Promotes
  <2>6. DiskOK(m2, tables', logs', promised', synced')
        BY <2>3, <2>4, <2>5, DiskTabled
  <2> QED BY <1>1, <1>2, <1>15, <2>6 DEF Disk
<1>20. logfile_number \in DOMAIN logs' /\ logs'[logfile_number] = logs[logfile_number]
  <2>1. logfile_number \in Nat /\ logfile_number \in DOMAIN logs
        BY <1>1 DEF Numbers, NumbersType
  <2>2. logfile_number >= edit.log
        BY <1>5, <2>1
  <2> QED BY <1>14, <2>1, <2>2 DEF Left
<1>21. Numbers'
  <2>1. \A n \in After(m.edits, N) : n < next_file_number
        BY <1>1, <1>3 DEF Numbers
  <2>2. \A n \in TablesOf(version') : n < next_file_number'
        BY <1>2, <1>9, <2>1
  <2>3. \A n \in pending_outputs' : n < next_file_number'
        BY <1>1, <1>2 DEF Numbers, Installs
  <2>4. \A k \in Ends(m2) : \A n \in After(m2.edits, k) : n < next_file_number'
        BY <1>2, <1>12, <1>17, <2>1
  <2>5. DOMAIN logs' \subseteq DOMAIN logs
        BY <1>14 DEF Left
  <2> QED BY <1>1, <1>2, <1>15, <1>20, <2>2, <2>3, <2>4, <2>5 DEF Numbers
<1>22. V2 \subseteq DOMAIN tables'
       BY <1>9, <1>10, <1>18 DEF Kept
<1> HIDE DEF Inv, Typed
<1> QED BY <1>3, <1>4, <1>5, <1>6, <1>9, <1>12, <1>14, <1>15, <1>16, <1>17, <1>18, <1>19,
           <1>20, <1>21, <1>22 DEF Installed

\* A version is installed: what both kinds of it keep.
LEMMA InstallStep ==
    ASSUME Inv, Installs, bg'.pc # "sync", imm' \subseteq imm,
           Acknowledged', Merging', Flushing', Background'
    PROVE  Inv'
<1> USE DEF Inv, Typed
<1>1. Running /\ phase # "down" /\ ~Recovering
      BY ThreadRuns DEF Installs
<1>2. Installed
      BY InstallFacts
<1>3. /\ UNCHANGED <<current, phase, replay, iterators, manifest_file_number>>
      /\ UNCHANGED <<next_file_number, bg_error, logfile_number>>
      /\ UNCHANGED <<last_sequence, issued, mem, writers, request, group>>
      /\ pc' = SignalAll
      BY DEF Installs, phaseVars
<1>4. LogsType' /\ TablesType' /\ ManifestsType' /\ Disk' /\ Numbers'
      BY <1>2 DEF Installed
<1>5. NumbersType'
      BY <1>2, <1>3 DEF NumbersType, Installed, Installs, Promotes
<1>6. MemoryType'
  <2>1. version' \in Version /\ edit' \in Edit /\ bg' \in Job
        BY <1>2, NoEditFacts DEF Installed, Installs
  <2>2. merge' \subseteq Merge /\ pending_outputs' \subseteq Nat /\ imm' \subseteq SUBSET Entry
        BY DEF MemoryType, Installs
  <2> QED BY <1>3, <2>1, <2>2 DEF MemoryType
<1>7. QueueType' /\ Queue' /\ Group'
  <2>1. logs'[logfile_number'] = logs[logfile_number]
        BY <1>2, <1>3 DEF Installed
  <2> QED BY <1>3, <2>1, SignalOK DEF RecordRead
<1>8. Idle' /\ Recovered'
      BY <1>1, <1>3 DEF Idle, Recovered, Running, Recovering
<1>9. Engine'
  <2>1. Base' = Len(manifests[current].edits)
        BY <1>2, <1>3 DEF Base, Installed
  <2>2. \A k \in Ends(manifests'[current]) :
           k > 0 /\ manifests'[current].edits[k].log <= logfile_number
        BY <1>2 DEF Installed
  <2>3. log_number' <= logfile_number' /\ TablesOf(version') \subseteq DOMAIN tables'
        BY <1>2, <1>3 DEF Installed, Installs
  <2>4. /\ TablesOf(version') \subseteq After(manifests'[current].edits, Base')
        /\ ~bg_error => After(manifests'[current].edits, Base') \subseteq TablesOf(version')
        BY <1>2, <2>1 DEF Installed
  <2>5. current' = manifest_file_number'
        BY <1>1, <1>3 DEF Engine
  <2> QED BY <1>3, <2>2, <2>3, <2>4, <2>5 DEF Engine
<1>10. Iterators'
  <2>1. \A i \in iterators : Kept(tables, tables', i.tables)
        BY <1>2 DEF Installed, Left
  <2>2. \A i \in iterators : i.tables \subseteq DOMAIN tables'
        BY <2>1 DEF Iterators, Kept
  <2>3. \A i \in iterators : \A x \in i.sees : Has(i.mem, x) \/ InTables(tables', i.tables, x)
        BY <2>1, InTablesKept DEF Iterators
  <2> QED BY <1>3, <2>2, <2>3 DEF Iterators
<1> QED BY <1>4, <1>5, <1>6, <1>7, <1>8, <1>9, <1>10

\* A flush promises for good what it has put into a table, a merge nothing new.
LEMMA InstallPromotes ==
    ASSUME Inv, InstallFlush \/ InstallMerge PROVE Promotes
<1> USE DEF Inv, Typed
<1>1. /\ promised \subseteq 1 .. issued /\ synced \subseteq promised /\ risked \subseteq 1 .. issued
      BY DEF NumbersType
<1>2. CASE InstallMerge
      BY <1>1, <1>2 DEF InstallMerge, Promotes, promiseVars
<1>3. CASE InstallFlush
  <2> PICK flushed : flushed = (promised \union risked) \intersect Ids(UNION imm)
      OBVIOUS
  <2>1. /\ promised' = promised \union flushed /\ synced' = synced \union flushed
        /\ risked' = risked \ flushed /\ version' = Apply(version, edit)
        /\ bg.pc = "sync" /\ bg.job = "flush"
        BY <1>3 DEF InstallFlush, FlushedKept
  <2>2. Running
        BY <2>1, ThreadRuns
  <2>3. /\ edit.add0 = {bg.num} /\ bg.num \in DOMAIN tables /\ tables[bg.num] = UNION imm
        BY <2>1, <2>2 DEF Flushing
  <2>4. bg.num \in TablesOf(version')
        BY <2>1, <2>3, ApplyTables DEF MemoryType
  <2>5. ASSUME NEW x \in flushed PROVE InTables(tables, TablesOf(version'), x)
    <3>1. Has(tables[bg.num], x)
          BY <2>3 DEF Has, Ids
    <3> QED BY <2>3, <2>4, <3>1 DEF InTables
  <2> QED BY <1>1, <2>1, <2>5 DEF Promotes
<1> QED BY <1>2, <1>3

\* A flush is installed.
LEMMA InstallFlushInv ==
    ASSUME Inv, InstallFlush PROVE Inv'
<1> USE DEF Inv, Typed
<1>1. /\ bg.pc = "sync" /\ bg.job = "flush" /\ version' = Apply(version, edit)
      /\ log_number' = edit.log /\ imm' = {} /\ edit' = NoEdit
      /\ DeleteObsoleteFiles(SyncedManifests, Apply(version, edit), edit.log,
                             pending_outputs, merge)
      /\ AfterFlush({}, Apply(version, edit), bg_error)
      /\ UNCHANGED <<merge, pending_outputs, logfile_number, mem, next_file_number>>
      /\ UNCHANGED <<current, phaseVars, iterators>>
      BY DEF InstallFlush
<1>2. Running
      BY <1>1, ThreadRuns
<1>3. /\ pc' = SignalAll /\ bg' \in Job
      /\ \/ merge = {} /\ bg'.job = "none" /\ bg'.pc \in {"none", "scheduled"}
         \/ /\ merge # {} /\ bg'.job = "merge" /\ bg'.pc = "merge"
            /\ \A r \in merge : bg'.num = r.num
      BY <1>1, <1>2, AfterFlushFacts
<1>6. /\ edit.add0 = {bg.num} /\ edit.add1 = {} /\ edit.del = {}
      /\ bg.num \in DOMAIN tables /\ tables[bg.num] = UNION imm
      BY <1>1, <1>2 DEF Flushing
<1> PICK flushed : flushed = (promised \union risked) \intersect Ids(UNION imm)
    OBVIOUS
<1>13. /\ promised' = promised \union flushed /\ synced' = synced \union flushed
       /\ risked' = risked \ flushed
       BY DEF InstallFlush, FlushedKept
<1>14. \A x : (\E m \in imm : Has(m, x)) => x \in Ids(UNION imm)
       BY DEF Has, Ids
<1>4. Installs
      BY <1>1, <1>3, InstallPromotes DEF InstallFlush, Installs, boundVars
<1>5. Installed
      BY <1>4, InstallFacts
<1>7. TablesOf(version') = TablesOf(version) \union {bg.num}
      BY <1>5, <1>6 DEF Installed
<1>8. /\ Kept(tables, tables', TablesOf(version')) /\ Kept(tables, tables', pending_outputs)
      /\ \A r \in merge : Kept(tables, tables', r.tables)
      /\ logs'[logfile_number] = logs[logfile_number]
      BY <1>1, <1>5 DEF Installed, Left
<1>9. Acknowledged'
  <2>4. \A x \in risked' : Has(mem', x)
        BY <1>1, <1>2, <1>13, <1>14 DEF Acknowledged
  <2>5. ASSUME NEW x \in flushed, NEW kind PROVE FoundAs(kind, x)'
    <3>1. Has(tables[bg.num], x)
          BY <1>6 DEF Has, Ids
    <3>2. InTables(tables', TablesOf(version'), x)
          BY <1>6, <1>7, <1>8, <3>1 DEF InTables, Kept
    <3> QED BY <3>2 DEF FoundAs
  <2> SUFFICES ASSUME NEW kind \in Kinds, NEW x, FoundAs(kind, x) PROVE FoundAs(kind, x)'
      BY <1>1, <1>2, <1>13, <2>4, <2>5 DEF Acknowledged, Kinds
  <2>1. CASE Has(mem, x) /\ InLog(logs[logfile_number], kind, x)
        BY <1>1, <1>8, <2>1 DEF FoundAs
  <2>2. CASE \E m \in imm : Has(m, x)
    <3>1. Has(tables[bg.num], x)
          BY <1>6, <2>2 DEF Has
    <3>2. InTables(tables', TablesOf(version'), x)
          BY <1>6, <1>7, <1>8, <3>1 DEF InTables, Kept
    <3> QED BY <3>2 DEF FoundAs
  <2>3. CASE InTables(tables, TablesOf(version), x)
    <3>1. InTables(tables', TablesOf(version'), x)
          BY <1>7, <1>8, <2>3 DEF InTables, Kept
    <3> QED BY <3>1 DEF FoundAs
  <2> QED BY <2>1, <2>2, <2>3 DEF FoundAs
<1>10. Merging'
  <2>1. ~InstallsMerge /\ ~InstallsMerge'
        BY <1>1, <1>3 DEF InstallsMerge
  <2>2. \A r \in merge : r.num # bg.num
        BY <1>1, <1>2 DEF Flushing
  <2>3. ASSUME NEW n, n # bg.num, Unread(n) PROVE Unread(n)'
    <3>1. n \notin TablesOf(version')
          BY <1>7, <2>3 DEF Unread
    <3>2. \A k \in Ends(manifests'[current]) : n \notin After(manifests'[current].edits, k)
          BY <1>5, <2>3 DEF Installed, Unread
    <3> QED BY <1>1, <2>3, <3>1, <3>2 DEF Unread
  <2>4. \A r \in merge : /\ r.tables \subseteq DOMAIN tables'
                         /\ r.num # 0 => r.num \in DOMAIN tables'
        BY <1>2, <1>8, <2>1 DEF Merging, Kept
  <2> QED BY <1>1, <1>2, <2>1, <2>2, <2>3, <2>4 DEF Merging
<1>11. Flushing'
       BY <1>3 DEF Flushing
<1>12. Background'
       BY <1>1, <1>2, <1>3 DEF Background
<1> QED BY <1>1, <1>3, <1>4, <1>9, <1>10, <1>11, <1>12, InstallStep

\* A merge is installed.
LEMMA InstallMergeInv ==
    ASSUME Inv, InstallMerge PROVE Inv'
<1> USE DEF Inv, Typed
<1>1. /\ bg.pc = "sync" /\ bg.job = "merge" /\ version' = Apply(version, edit)
      /\ log_number' = edit.log /\ merge' = {} /\ edit' = NoEdit
      /\ pending_outputs' = pending_outputs \ {bg.num}
      /\ DeleteObsoleteFiles(SyncedManifests, Apply(version, edit), edit.log,
                             pending_outputs \ {bg.num}, {})
      /\ EndCall(imm, Apply(version, edit), bg_error)
      /\ UNCHANGED <<logfile_number, mem, imm, phaseVars, promiseVars>>
      BY DEF InstallMerge, memVars
<1>2. Running
      BY <1>1, ThreadRuns
<1>3. /\ pc' = SignalAll /\ bg' \in Job /\ bg'.job = "none"
      /\ bg'.pc \in {"none", "scheduled"}
      BY <1>1, EndCallFacts
<1>4. Installs
      BY <1>1, <1>3, InstallPromotes DEF InstallMerge, Installs, boundVars, memVars
<1>5. Installed
      BY <1>4, InstallFacts
<1>6. PICK r \in merge : TRUE
      BY <1>1, <1>2 DEF Background
<1>7. /\ edit.add0 = {} /\ edit.add1 = {r.num} /\ edit.del = r.tables /\ edit.log = log_number
      /\ r.num \in DOMAIN tables /\ tables[r.num] = Contents(r.tables)
      /\ r.tables \subseteq DOMAIN tables
      BY <1>1, <1>2, <1>6 DEF Merging, InstallsMerge
<1>8. TablesOf(version') = (TablesOf(version) \ r.tables) \union {r.num}
      BY <1>5, <1>7 DEF Installed
<1>9. /\ Kept(tables, tables', TablesOf(version')) /\ LogsKept(logs, logs', log_number)
      /\ logs'[logfile_number] = logs[logfile_number]
      BY <1>5, <1>7 DEF Installed, Left
<1>10. Acknowledged'
  <2> SUFFICES ASSUME NEW kind \in Kinds, NEW x, FoundAs(kind, x) PROVE FoundAs(kind, x)'
      BY <1>1, <1>2 DEF Acknowledged, Kinds, promiseVars, phaseVars, Running
  <2>1. CASE Has(mem, x) /\ InLog(logs[logfile_number], kind, x)
        BY <1>1, <1>9, <2>1 DEF FoundAs
  <2>2. CASE (\E m \in imm : Has(m, x)) /\ InLogs(logs, log_number, kind, x)
    <3>1. InLogs(logs', log_number, kind, x)
          BY <1>9, <2>2, InLogsKept
    <3> QED BY <1>1, <1>7, <2>2, <3>1 DEF FoundAs
  <2>3. CASE InTables(tables, TablesOf(version), x)
    <3>1. PICK n \in TablesOf(version) : n \in DOMAIN tables /\ Has(tables[n], x)
          BY <2>3 DEF InTables
    <3>2. \E k \in TablesOf(version') : k \in DOMAIN tables /\ Has(tables[k], x)
      <4>1. CASE n \in r.tables
        <5>1. Has(tables[r.num], x)
              BY <1>7, <3>1, <4>1 DEF Has, Contents
        <5> QED BY <1>7, <1>8, <5>1
      <4>2. CASE n \notin r.tables
            BY <1>8, <3>1, <4>2
      <4> QED BY <4>1, <4>2
    <3>3. InTables(tables', TablesOf(version'), x)
          BY <1>9, <3>2 DEF InTables, Kept
    <3> QED BY <3>3 DEF FoundAs
  <2> QED BY <2>1, <2>2, <2>3 DEF FoundAs
<1>11. Merging' /\ Flushing'
       BY <1>1, <1>3 DEF Merging, Flushing
<1>12. Background'
       BY <1>1, <1>2, <1>3 DEF Background
<1> QED BY <1>1, <1>3, <1>4, <1>10, <1>11, <1>12, InstallStep

-----------------------------------------------------------------------------
(* Readers, closing and crashing.                                          *)

\* The variables that a reader leaves alone.
ReaderLeaves ==
    UNCHANGED <<diskVars, phaseVars, queueVars, memVars, versionVars, last_sequence,
                bgVars, promiseVars, issued>>

\* A step that changes nothing but the iterators.
LEMMA ReaderStep ==
    ASSUME Inv, ReaderLeaves, iterators' \subseteq Iterator, Iterators',
           \A n : Running /\ Unread(n) => Unread(n)', ~Running => iterators' = {}
    PROVE  Inv'
<1> USE DEF Inv, Typed, ReaderLeaves, diskVars, phaseVars, queueVars, memVars, versionVars,
            bgVars, promiseVars
<1>1. LogsType' /\ TablesType' /\ ManifestsType' /\ QueueType' /\ NumbersType'
      BY DEF LogsType, TablesType, ManifestsType, QueueType, NumbersType
<1>2. MemoryType'
      BY DEF MemoryType
<1>3. Disk' /\ Numbers' /\ Recovered' /\ Engine' /\ Acknowledged' /\ Background' /\ Queue'
      /\ Group'
      BY DiskFrame, NumbersFrame, RecoveredFrame, EngineFrame, AcknowledgedFrame,
         BackgroundFrame, QueueFrame, GroupFrame
<1>4. Idle'
      BY DEF Idle, Running
<1>5. Merging'
      BY DEF Merging, Running, InstallsMerge, Contents
<1>6. Flushing'
  <2>1. Running' => Running
        BY DEF Running
  <2>2. Unread(bg.num) => Unread(bg.num)' \/ ~Running
    <3>1. PICK z : z = bg.num
          OBVIOUS
    <3>2. Unread(z) => Unread(z)' \/ ~Running
          OBVIOUS
    <3> QED BY <3>1, <3>2 DEF Unread
  <2> QED BY <2>1, <2>2 DEF Flushing
<1> QED BY <1>1, <1>2, <1>3, <1>4, <1>5, <1>6

\* An iterator is made.
LEMMA NewIteratorInv ==
    ASSUME Inv, NewIterator PROVE Inv'
<1> USE DEF Inv, Typed
<1> PICK c : c = [tables |-> TablesOf(version), mem |-> mem \union UNION imm,
            sees |-> promised \union risked]
    OBVIOUS
<1>1. phase = "open" /\ iterators' = iterators \union {c} /\ ReaderLeaves
      BY DEF NewIterator, ReaderLeaves
<1>2. Running /\ phase # "down"
      BY <1>1 DEF Running
<1>3. /\ c.tables = TablesOf(version) /\ c.mem = mem \union UNION imm
      /\ c.sees = promised \union risked
      /\ c \in Iterator
  <2>1. TablesOf(version) \subseteq Nat /\ mem \union UNION imm \in SUBSET Entry
        BY DEF MemoryType, Version, TablesOf
  <2>2. promised \union risked \subseteq Nat
        BY DEF NumbersType
  <2> QED BY <2>1, <2>2 DEF Iterator
<1>4. UNCHANGED <<tables, next_file_number, version, merge, manifests, current>>
      BY <1>1 DEF ReaderLeaves, diskVars, versionVars, bgVars
<1>5. iterators' \subseteq Iterator
      BY <1>1, <1>3 DEF MemoryType
<1>6. Iterators'
  <2>1. TablesOf(version) \subseteq DOMAIN tables /\ \A n \in TablesOf(version) : n < next_file_number
        BY <1>2 DEF Engine, Numbers
  <2>2. ASSUME NEW x \in promised \union risked
        PROVE  Has(c.mem, x) \/ InTables(tables, c.tables, x)
    <3>1. FoundAs("written", x) \/ Has(mem, x) \/ \E m \in imm : Has(m, x)
          BY <1>2 DEF Acknowledged
    <3> QED BY <1>3, <3>1 DEF FoundAs, Has
  <2> QED BY <1>1, <1>3, <1>4, <2>1, <2>2 DEF Iterators
<1>7. \A n : Unread(n) => Unread(n)'
      BY <1>1, <1>3, <1>4 DEF Unread
<1> QED BY <1>1, <1>2, <1>5, <1>6, <1>7, ReaderStep

\* An iterator is given back.
LEMMA CleanupIteratorInv ==
    ASSUME Inv, NEW i \in iterators, CleanupIteratorState(i) PROVE Inv'
<1> USE DEF Inv, Typed
<1>1. iterators' = iterators \ {i} /\ ReaderLeaves
      BY DEF CleanupIteratorState, ReaderLeaves, boundVars
<1>2. UNCHANGED <<tables, next_file_number, version, merge, manifests, current>>
      BY <1>1 DEF ReaderLeaves, diskVars, versionVars, bgVars
<1>3. iterators' \subseteq Iterator /\ Iterators'
      BY <1>1, <1>2 DEF MemoryType, Iterators
<1>4. \A n : Unread(n) => Unread(n)'
      BY <1>1, <1>2 DEF Unread
<1>5. ~Running => iterators' = {}
      BY <1>1 DEF Idle
<1> QED BY <1>1, <1>3, <1>4, <1>5, ReaderStep

\* The database closes.
LEMMA CloseInv ==
    ASSUME Inv, Close PROVE Inv'
<1> USE DEF Inv, Typed
<1>1. /\ phase = "open" /\ phase' = "closing" /\ writers = <<>>
      /\ UNCHANGED <<replay, diskVars, queueVars, memVars, versionVars, last_sequence, bgVars,
                     iterators, promiseVars, issued>>
      BY DEF Close
<1> USE DEF diskVars, queueVars, memVars, versionVars, bgVars, promiseVars
<1>2. Running /\ Running' /\ ~Recovering'
      BY <1>1 DEF Running, Recovering
<1>3. LogsType' /\ TablesType' /\ ManifestsType' /\ QueueType' /\ MemoryType' /\ NumbersType'
      BY <1>1 DEF LogsType, TablesType, ManifestsType, QueueType, MemoryType, NumbersType
<1>4. Disk' /\ Iterators' /\ Group'
      BY <1>1, DiskFrame, IteratorsFrame, GroupFrame
<1>5. Idle' /\ Recovered'
      BY <1>2 DEF Idle, Recovered
<1>6. Numbers'
      BY <1>1 DEF Numbers
<1>7. Engine'
      BY <1>1, <1>2 DEF Engine, Base
<1>8. Acknowledged'
      BY <1>1, <1>2 DEF Acknowledged, FoundAs
<1>9. Merging'
      BY <1>1, <1>2 DEF Merging, Unread, InstallsMerge, Contents
<1>10. Flushing'
       BY <1>1, <1>2 DEF Flushing, Unread
<1>11. Background'
       BY <1>1, <1>2 DEF Background
<1>12. Queue'
       BY <1>1 DEF Queue
<1> QED BY <1>3, <1>4, <1>5, <1>6, <1>7, <1>8, <1>9, <1>10, <1>11, <1>12

\* A step after which nothing is in memory.
LEMMA LostStep ==
    ASSUME Inv, MemoryLost, issued' = issued, current' \in Nat,
           LogsType', TablesType', ManifestsType', Disk',
           promised' \subseteq promised, synced' \subseteq promised'
    PROVE  Inv'
<1> USE DEF MemoryLost
<1>1. <<>> \in Seq(Writers) /\ Len(<<>>) = 0 /\ DOMAIN <<>> = {}
      OBVIOUS
<1>2. QueueType'
  <2>1. pc' \in [Writers -> Places]
        BY DEF Places
  <2>2. request' \in [Writers -> Nat]
        OBVIOUS
  <2> QED BY <1>1, <2>1, <2>2 DEF QueueType
<1>3. EmptyVersion \in Version /\ TablesOf(EmptyVersion) = {}
      BY DEF EmptyVersion, Version, TablesOf
<1>4. MemoryType'
      BY <1>3, NoEditFacts, JobFacts DEF MemoryType
<1>5. NumbersType'
      BY DEF Inv, Typed, NumbersType
<1>6. ~Running' /\ ~Recovering'
      BY DEF Running, Recovering
<1>7. Idle'
      BY <1>6, NoEditFacts DEF Idle
<1>8. Numbers' /\ Recovered' /\ Engine' /\ Acknowledged' /\ Merging' /\ Flushing' /\ Background'
      BY <1>6 DEF Numbers, Recovered, Engine, Acknowledged, Merging, Flushing, Background
<1>9. Iterators'
      BY DEF Iterators
<1>10. Queue'
       BY <1>1 DEF Queue
<1>11. Group'
       BY DEF Group
<1> QED BY <1>2, <1>4, <1>5, <1>7, <1>8, <1>9, <1>10, <1>11 DEF Inv, Typed

\* The database is closed, or its process ends.
LEMMA ProcessEndsInv ==
    ASSUME Inv, Closed \/ ProcessCrash PROVE Inv'
<1>1. MemoryLost /\ UNCHANGED <<logs, tables, manifests, current, promised, synced, issued>>
      BY DEF Closed, ProcessCrash, diskVars, promiseVars, boundVars
<1>2. LogsType' /\ TablesType' /\ ManifestsType' /\ Disk'
      BY <1>1, DiskFrame DEF Inv, Typed, LogsType, TablesType, ManifestsType
<1>3. promised' \subseteq promised /\ synced' \subseteq promised'
      BY <1>1 DEF Inv, Typed, NumbersType
<1>4. current' \in Nat
      BY <1>1 DEF Inv, Typed, NumbersType
<1> QED BY <1>1, <1>2, <1>3, <1>4, LostStep

\* A log of which a crash leaves the synced records and perhaps more.
LEMMA LogCut ==
    ASSUME NEW g \in Log, g.synced <= Len(g.recs), NEW k \in g.synced .. Len(g.recs),
           NEW g2, g2 = [recs |-> SubSeq(g.recs, 1, k), synced |-> k]
    PROVE  /\ g2 \in Log /\ g2.synced <= Len(g2.recs)
           /\ \A x : \A kind \in Kinds : InLog(g, "synced", x) => InLog(g2, kind, x)
<1>1. g.recs \in Seq(FiniteEntries) /\ g.synced \in Nat /\ Len(g.recs) \in Nat
      BY DEF Log
<1>2. k \in Nat /\ k <= Len(g.recs) /\ g.synced <= k
      BY <1>1
<1> PICK s : s = SubSeq(g.recs, 1, k)
    OBVIOUS
<1>3. s \in Seq(FiniteEntries) /\ Len(s) = k /\ \A i \in 1 .. k : s[i] = g.recs[i]
      BY <1>1, <1>2
<1>4. g2 \in Log /\ g2.recs = s /\ g2.synced = k
      BY <1>2, <1>3 DEF Log
<1>5. g2.synced <= Len(g2.recs)
      BY <1>2, <1>3, <1>4
<1>6. ASSUME NEW x, NEW kind \in Kinds, InLog(g, "synced", x) PROVE InLog(g2, kind, x)
  <2>1. PICK i \in DOMAIN g.recs : i <= g.synced /\ Has(g.recs[i], x)
        BY <1>6 DEF InLog
  <2>2. i \in 1 .. k
        BY <1>1, <1>2, <2>1
  <2>3. i \in DOMAIN s /\ i <= k /\ s[i] = g.recs[i]
        BY <1>2, <1>3, <2>2
  <2> QED BY <1>4, <2>1, <2>3 DEF InLog
<1> QED BY <1>4, <1>5, <1>6

\* A manifest of which a crash leaves the synced edits and perhaps more.
LEMMA ManifestCut ==
    ASSUME NEW m \in Manifest, NEW k \in Ends(m), NEW m2,
           m2 = [edits |-> SubSeq(m.edits, 1, k), synced |-> k]
    PROVE  /\ m2 \in Manifest /\ m2.synced <= Len(m2.edits)
           /\ m2.edits = SubSeq(m.edits, 1, k) /\ m2.synced = k
<1>1. m.edits \in Seq(Edit) /\ m.synced \in Nat /\ k \in 0 .. Len(m.edits) /\ k \in Nat
      BY DEF Manifest, Ends
<1>2. SubSeq(m.edits, 1, k) \in Seq(Edit) /\ Len(SubSeq(m.edits, 1, k)) = k
      BY <1>1, AfterCut
<1> QED BY <1>1, <1>2 DEF Manifest

\* The machine stops.
LEMMA MachineCrashInv ==
    ASSUME Inv, MachineCrash PROVE Inv'
<1> USE DEF Inv, Typed
<1>1. /\ MemoryLost /\ promised' = promised \intersect synced
      /\ UNCHANGED <<tables, current, synced, issued>>
      BY DEF MachineCrash
<1>2. promised' = synced /\ promised' \subseteq promised /\ synced' \subseteq promised'
      BY <1>1 DEF NumbersType
<1>3. PICK keep :
         /\ \A n \in DOMAIN logs : keep[n] \in logs[n].synced .. Len(logs[n].recs)
         /\ logs' = [n \in DOMAIN logs |->
                        [recs |-> SubSeq(logs[n].recs, 1, keep[n]), synced |-> keep[n]]]
      BY DEF MachineCrash, Cut
<1>4. PICK left :
         manifests' = [n \in DOMAIN manifests |->
             LET m == manifests[n]
                 k == IF left \in m.synced .. Len(m.edits) THEN left ELSE Len(m.edits)
             IN  [edits |-> SubSeq(m.edits, 1, k), synced |-> k]]
      BY DEF MachineCrash, Cut
<1>5. /\ DOMAIN logs' = DOMAIN logs
      /\ \A n \in DOMAIN logs : logs'[n] = [recs |-> SubSeq(logs[n].recs, 1, keep[n]),
                                            synced |-> keep[n]]
      BY <1>3
<1>6. ASSUME NEW n \in DOMAIN logs
      PROVE  /\ logs'[n] \in Log /\ logs'[n].synced <= Len(logs'[n].recs)
             /\ \A x : \A kind \in Kinds : InLog(logs[n], "synced", x) => InLog(logs'[n], kind, x)
  <2>1. PICK g2 : g2 = logs'[n]
        OBVIOUS
  <2>2. PICK g : g = logs[n]
        OBVIOUS
  <2>3. PICK k : k = keep[n]
        OBVIOUS
  <2>4. g \in Log /\ g.synced <= Len(g.recs) /\ k \in g.synced .. Len(g.recs)
        /\ g2 = [recs |-> SubSeq(g.recs, 1, k), synced |-> k]
        BY <1>3, <1>5, <2>1, <2>2, <2>3 DEF LogsType
  <2> QED BY <2>1, <2>2, <2>4, LogCut
<1>7. LogsType'
  <2>1. logs' = [n \in DOMAIN logs' |-> logs'[n]]
        BY <1>3
  <2> QED BY <1>5, <1>6, <2>1 DEF LogsType
<1>8. ASSUME NEW n \in DOMAIN manifests
      PROVE  \E k \in Ends(manifests[n]) :
                manifests'[n] = [edits |-> SubSeq(manifests[n].edits, 1, k), synced |-> k]
  <2>1. PICK m : m = manifests[n]
        OBVIOUS
  <2>2. m \in Manifest /\ m.synced <= Len(m.edits)
        BY <2>1 DEF ManifestsType
  <2>3. Len(m.edits) \in Ends(m)
        BY <2>2 DEF Manifest, Ends
  <2>4. PICK k : k = IF left \in m.synced .. Len(m.edits) THEN left ELSE Len(m.edits)
        OBVIOUS
  <2>5. k \in Ends(m)
        BY <2>3, <2>4 DEF Ends
  <2>6. manifests'[n] = [edits |-> SubSeq(m.edits, 1, k), synced |-> k]
        BY <1>4, <2>1, <2>4
  <2> QED BY <2>1, <2>5, <2>6
<1>9. DOMAIN manifests' = DOMAIN manifests
      BY <1>4
<1>10. ASSUME NEW n \in DOMAIN manifests
       PROVE  /\ manifests'[n] \in Manifest /\ manifests'[n].synced <= Len(manifests'[n].edits)
              /\ manifests'[n].synced \in Ends(manifests[n])
              /\ manifests'[n].edits = SubSeq(manifests[n].edits, 1, manifests'[n].synced)
  <2>1. PICK m : m = manifests[n]
        OBVIOUS
  <2>2. PICK m2 : m2 = manifests'[n]
        OBVIOUS
  <2>3. PICK k \in Ends(m) : m2 = [edits |-> SubSeq(m.edits, 1, k), synced |-> k]
        BY <1>8, <2>1, <2>2
  <2>4. m \in Manifest
        BY <2>1 DEF ManifestsType
  <2>5. /\ m2 \in Manifest /\ m2.synced <= Len(m2.edits)
        /\ m2.edits = SubSeq(m.edits, 1, k) /\ m2.synced = k
    <3> HIDE DEF Inv, Typed
    <3> QED BY <2>3, <2>4, ManifestCut
  <2> QED BY <2>1, <2>2, <2>3, <2>5
<1>11. ManifestsType'
  <2>1. manifests' = [n \in DOMAIN manifests' |-> manifests'[n]]
        BY <1>4
  <2> QED BY <1>9, <1>10, <2>1 DEF ManifestsType
<1>12. TablesType'
       BY <1>1 DEF TablesType
<1>13. Disk'
  <2>1. CASE current = 0
        BY <1>1, <1>2, <2>1 DEF Disk
  <2>2. CASE current # 0
    <3>1. PICK m : m = manifests[current]
          OBVIOUS
    <3>2. PICK m2 : m2 = manifests'[current]
          OBVIOUS
    <3>3. PICK lg2 : lg2 = logs'
          OBVIOUS
    <3>4. /\ current \in DOMAIN manifests /\ m \in Manifest /\ m.synced <= Len(m.edits)
          /\ DiskOK(m, tables, logs, promised, synced)
          BY <2>2, <3>1, CurrentFacts
    <3>5. PICK k \in Ends(m) : m2.edits = SubSeq(m.edits, 1, k) /\ m2.synced = k /\ m2 \in Manifest
          BY <1>10, <3>1, <3>2, <3>4
    <3>6. /\ DOMAIN lg2 = DOMAIN logs /\ synced \subseteq promised
          /\ \A n \in DOMAIN logs : \A x : \A kind \in Kinds :
                InLog(logs[n], "synced", x) => InLog(lg2[n], kind, x)
          BY <1>5, <1>6, <3>3 DEF NumbersType
    <3>7. DiskOK(m2, tables, lg2, synced, synced)
      <4> HIDE DEF Inv, Typed
      <4> QED BY <3>4, <3>5, <3>6, DiskCut
    <3> QED BY <1>1, <1>2, <1>9, <2>2, <3>2, <3>3, <3>4, <3>7 DEF Disk
  <2> QED BY <2>1, <2>2
<1>14. current' \in Nat
       BY <1>1 DEF NumbersType
<1> QED BY <1>1, <1>2, <1>7, <1>11, <1>12, <1>13, <1>14, LostStep

-----------------------------------------------------------------------------
(* DB::Open.                                                               *)

\* Before the database is open nobody writes to it.
LEMMA NobodyWrites ==
    ASSUME Inv, ~Running
    PROVE  /\ writers = <<>> /\ \A w \in Writers : pc[w] = "idle"
           /\ iterators = {} /\ merge = {} /\ imm = {} /\ mem = {} /\ bg = NoJob
           /\ pending_outputs = {} /\ bg_error = FALSE /\ edit.del = {} /\ edit.add1 = {}
           /\ risked = {}
<1>1. writers = <<>> /\ DOMAIN writers = {}
      BY DEF Inv, Queue, Running
<1>2. \A w \in Writers : pc[w] = "idle"
      BY <1>1 DEF Inv, Queue
<1> QED BY <1>1, <1>2 DEF Inv, Idle

\* The variables that the steps of DB::Open leave alone.
OpeningLeaves ==
    UNCHANGED <<queueVars, mem, imm, bg_error, bg, merge, pending_outputs, iterators,
                promiseVars, issued>>

\* A step of DB::Open.
LEMMA OpeningStep ==
    ASSUME Inv, ~Running, phase' \in {"down", "replay", "recovered", "manifest", "current"},
           OpeningLeaves, LogsType', TablesType', ManifestsType', NumbersType',
           version' \in Version, edit' \in Edit, edit'.del = {}, edit'.add1 = {},
           phase' = "down" => edit' = NoEdit /\ version' = EmptyVersion, replay' \subseteq Nat,
           Disk', Numbers', Recovered'
    PROVE  Inv'
<1> USE DEF OpeningLeaves, queueVars, promiseVars
<1>1. /\ writers = <<>> /\ \A w \in Writers : pc[w] = "idle"
      /\ iterators = {} /\ merge = {} /\ imm = {} /\ mem = {} /\ bg = NoJob
      /\ pending_outputs = {} /\ bg_error = FALSE /\ risked = {}
      BY NobodyWrites
<1>2. QueueType' /\ MemoryType'
      BY <1>1, JobFacts DEF Inv, Typed, QueueType, MemoryType
<1>3. ~Running'
      BY DEF Running
<1>4. Idle' /\ Iterators' /\ Group'
      BY <1>1 DEF Idle, Iterators, Group
<1>5. Engine' /\ Acknowledged' /\ Merging' /\ Flushing' /\ Background'
      BY <1>3 DEF Engine, Acknowledged, Merging, Flushing, Background
<1>6. Queue'
      BY <1>1 DEF Inv, Queue
<1> QED BY <1>2, <1>4, <1>5, <1>6 DEF Inv, Typed

\* The manifest that NewDB writes names no table and no log.
LEMMA FirstManifest ==
    ASSUME NEW e, e = [NoEdit EXCEPT !.next = 2], NEW m, m = [edits |-> <<e>>, synced |-> 0]
    PROVE  /\ m \in Manifest /\ m.synced = 0 /\ Len(m.edits) = 1 /\ m.edits[1] = e
           /\ e.log = 0 /\ e.next = 2 /\ Ends(m) = {0, 1}
           /\ After(m.edits, 0) = {} /\ After(m.edits, 1) = {}
<1>3. e \in Edit /\ e.add0 = {} /\ e.add1 = {} /\ e.log = 0 /\ e.next = 2
      BY NoEditFacts DEF Edit, NoEdit
<1>4. /\ <<e>> \in Seq(Edit) /\ Len(<<e>>) = 1 /\ <<e>>[1] = e
      BY <1>3
<1>5. m \in Manifest /\ m.edits = <<e>> /\ m.synced = 0
      BY <1>4 DEF Manifest
<1>6. After(m.edits, 0) = {} /\ After(m.edits, 1) = {}
  <2> PICK s : s = <<e>>
      OBVIOUS
  <2>1. s \in Seq(Edit) /\ Len(s) = 1 /\ s[1] = e /\ 1 \in 1 .. Len(s) /\ 1 - 1 = 0
        BY <1>4
  <2>2. After(s, 0) = {}
        BY <2>1, AfterNone
  <2>3. After(s, 1) = (After(s, 0) \ e.del) \union e.add0 \union e.add1
    <3>1. PICK k : k = 1
          OBVIOUS
    <3>2. k \in 1 .. Len(s) /\ k - 1 = 0
          BY <2>1, <3>1
    <3>3. After(s, k) = (After(s, k - 1) \ s[k].del) \union s[k].add0 \union s[k].add1
          BY <2>1, <3>2, AfterStep
    <3> QED BY <2>1, <3>1, <3>2, <3>3
  <2> QED BY <1>3, <1>5, <2>2, <2>3
<1>7. Ends(m) = {0, 1}
      BY <1>4, <1>5 DEF Ends
<1> QED BY <1>3, <1>4, <1>5, <1>6, <1>7

\* NewDB.
LEMMA NewDBInv ==
    ASSUME Inv, NewDB PROVE Inv'
<1> USE DEF Inv, Typed
<1> PICK e : e = [NoEdit EXCEPT !.next = 2]
    OBVIOUS
<1> PICK m : m = [edits |-> <<e>>, synced |-> 0]
    OBVIOUS
<1>1. /\ phase = "down" /\ current = 0 /\ manifests' = Put(manifests, 1, m) /\ current' = 1
      /\ UNCHANGED <<logs, tables, phase, replay, logfile_number, log_number>>
      /\ UNCHANGED <<next_file_number, manifest_file_number, version, last_sequence, edit>>
      /\ UNCHANGED <<promised, synced, risked, issued>>
      /\ OpeningLeaves
      BY DEF NewDB, phaseVars, memVars, versionVars, bgVars, promiseVars, boundVars, OpeningLeaves
<1>2. ~Running /\ ~Recovering'
      BY <1>1 DEF Running, Recovering
<1>3. /\ m \in Manifest /\ m.synced <= Len(m.edits) /\ m.edits[1].log = 0
      /\ m.edits[1].next = 2 /\ Ends(m) = {0, 1}
      /\ After(m.edits, 0) = {} /\ After(m.edits, 1) = {}
  <2>1. 0 <= 1
        OBVIOUS
  <2> QED BY <2>1, FirstManifest
<1>7. promised = {} /\ synced = {}
      BY <1>1 DEF Disk, NumbersType
<1>9. DiskOK(m, tables, logs, promised, synced)
  <2>1. EndOK(m, 0, tables, logs, promised, synced)
        BY <1>7 DEF EndOK
  <2>2. EndOK(m, 1, tables, logs, promised, synced)
    <3>1. m.edits[1].log = 0 /\ m.edits[1].next = 2
          BY <1>3
    <3>2. Covers(tables, After(m.edits, 1), logs, 0, promised, synced)
          BY <1>7 DEF Covers
    <3>3. After(m.edits, 1) \subseteq DOMAIN tables
          BY <1>3
    <3>4. 1 # 0 /\ 0 <= 2 /\ 2 > 0
          OBVIOUS
    <3> QED BY <3>1, <3>2, <3>3, <3>4 DEF EndOK
  <2>3. NumbersOK(m)
        BY <1>3 DEF NumbersOK
  <2> QED BY <1>3, <2>1, <2>2, <2>3 DEF DiskOK
<1>10. /\ DOMAIN manifests' = DOMAIN manifests \union {1} /\ manifests'[1] = m
       /\ \A n \in DOMAIN manifests : n # 1 => manifests'[n] = manifests[n]
       /\ manifests' = [n \in DOMAIN manifests' |-> manifests'[n]]
       BY <1>1 DEF Put
<1>11. ManifestsType'
  <2>1. \A n \in DOMAIN manifests' : /\ manifests'[n] \in Manifest
                                     /\ manifests'[n].synced <= Len(manifests'[n].edits)
        BY <1>3, <1>10 DEF ManifestsType
  <2>2. DOMAIN manifests' \subseteq Nat
        BY <1>10 DEF ManifestsType
  <2> QED BY <1>10, <2>1, <2>2 DEF ManifestsType
<1>12. LogsType' /\ TablesType' /\ NumbersType'
       BY <1>1 DEF LogsType, TablesType, NumbersType
<1>13. Disk'
       BY <1>1, <1>9, <1>10 DEF Disk
<1>14. Numbers' /\ Recovered'
       BY <1>1, <1>2 DEF Numbers, Recovered
<1>15. /\ version' \in Version /\ edit' \in Edit /\ edit'.del = {} /\ edit'.add1 = {}
       /\ edit' = NoEdit /\ version' = EmptyVersion /\ replay' \subseteq Nat
       BY <1>1, <1>2, NoEditFacts DEF MemoryType, Idle
<1> QED BY <1>1, <1>2, <1>11, <1>12, <1>13, <1>14, <1>15, OpeningStep

\* createDB leaves no file.
LEMMA PurgeFacts ==
    ASSUME purgeDatabase
    PROVE  /\ current' = 0 /\ DOMAIN logs' = {}
           /\ LogsType' /\ TablesType' /\ ManifestsType'
<1>1. /\ logs' = Keep(logs, {}) /\ tables' = Keep(tables, {})
      /\ manifests' = Keep(manifests, {}) /\ current' = 0
      BY DEF purgeDatabase
<1>2. /\ DOMAIN logs' = {} /\ DOMAIN tables' = {} /\ DOMAIN manifests' = {}
      /\ logs' = [n \in {} |-> logs'[n]] /\ tables' = [n \in {} |-> tables'[n]]
      /\ manifests' = [n \in {} |-> manifests'[n]]
      BY <1>1 DEF Keep
<1> QED BY <1>1, <1>2 DEF LogsType, TablesType, ManifestsType

\* An open fails: the database is deleted, and nothing is promised any more.
LEMMA OpenFailsInv ==
    ASSUME Inv, OpenFails PROVE Inv'
<1>1. MemoryLost /\ issued' = issued /\ promised' = {} /\ synced' = {} /\ purgeDatabase
      BY DEF OpenFails
<1>2. LogsType' /\ TablesType' /\ ManifestsType' /\ current' = 0
      BY <1>1, PurgeFacts
<1>3. Disk' /\ current' \in Nat
      BY <1>1, <1>2 DEF Disk
<1>4. promised' \subseteq promised /\ synced' \subseteq promised'
      BY <1>1
<1> QED BY <1>1, <1>2, <1>3, <1>4, LostStep

\* A manifest that cannot be recovered promises nothing: createDB may delete the
\* database.
LEMMA OpenDamagedInv ==
    ASSUME Inv, OpenDamaged PROVE Inv'
<1> USE DEF Inv, Typed
<1>1. /\ phase = "down" /\ current # 0 /\ Damaged
      /\ logs' = Keep(logs, {}) /\ tables' = Keep(tables, {})
      /\ manifests' = Keep(manifests, {}) /\ current' = 0
      /\ UNCHANGED <<phase, replay, logfile_number, log_number>>
      /\ UNCHANGED <<next_file_number, manifest_file_number, version, last_sequence, edit>>
      /\ UNCHANGED <<promised, synced, risked, issued>>
      /\ OpeningLeaves
      BY DEF OpenDamaged, purgeDatabase, phaseVars, memVars, versionVars, bgVars, promiseVars,
             boundVars, OpeningLeaves
<1>2. ~Running /\ ~Recovering'
      BY <1>1 DEF Running, Recovering
<1>3. promised = {}
  <2> PICK m : m = manifests[current]
      OBVIOUS
  <2>1. /\ m.edits \in Seq(Edit) /\ Len(m.edits) \in Ends(m) /\ Len(m.edits) \in Nat
        /\ DiskOK(m, tables, logs, promised, synced)
        BY <1>1, CurrentFacts
  <2>2. CASE Len(m.edits) = 0
        BY <2>1, <2>2 DEF DiskOK, EndOK
  <2>3. CASE Len(m.edits) # 0
    <3>1. After(m.edits, Len(m.edits)) \subseteq DOMAIN tables
          BY <2>1, <2>3 DEF DiskOK, EndOK
    <3>2. TablesOf(Replay(m.edits)) \subseteq DOMAIN tables
          BY <2>1, <3>1, AfterAll
    <3>3. m.edits # <<>>
          BY <2>3
    <3> QED BY <1>1, <3>2, <3>3 DEF Damaged
  <2> QED BY <2>2, <2>3
<1>5. LogsType' /\ TablesType' /\ ManifestsType'
      BY PurgeFacts DEF OpenDamaged
<1>6. NumbersType' /\ Disk'
      BY <1>1, <1>3 DEF NumbersType, Disk
<1>7. Numbers' /\ Recovered'
      BY <1>1, <1>2 DEF Numbers, Recovered
<1>8. /\ version' \in Version /\ edit' \in Edit /\ edit'.del = {} /\ edit'.add1 = {}
      /\ edit' = NoEdit /\ version' = EmptyVersion /\ replay' \subseteq Nat
      BY <1>1, <1>2, NoEditFacts DEF MemoryType, Idle
<1> QED BY <1>1, <1>2, <1>5, <1>6, <1>7, <1>8, OpeningStep

\* VersionSet::Recover reads the manifest.
LEMMA RecoverInv ==
    ASSUME Inv, Recover PROVE Inv'
<1> USE DEF Inv, Typed
<1> PICK m : m = manifests[current]
    OBVIOUS
<1> PICK N : N = Len(m.edits)
    OBVIOUS
<1> PICK e : e = m.edits[N]
    OBVIOUS
<1>1. /\ phase = "down" /\ current # 0 /\ ~Damaged /\ phase' = "replay"
      /\ manifest_file_number' = Last(m.edits).next /\ next_file_number' = Last(m.edits).next + 1
      /\ last_sequence' = Last(m.edits).last /\ log_number' = Last(m.edits).log
      /\ replay' = {n \in DOMAIN logs : n >= Last(m.edits).log}
      /\ version' = Replay(m.edits)
      /\ UNCHANGED <<logs, tables, manifests, current, logfile_number, edit>>
      /\ UNCHANGED <<promised, synced, risked, issued>>
      /\ OpeningLeaves
      BY DEF Recover, diskVars, memVars, bgVars, promiseVars, boundVars, OpeningLeaves
<1>2. ~Running
      BY <1>1 DEF Running
<1>3. Last(m.edits) = e
      BY DEF Last
<1>4. /\ current \in DOMAIN manifests /\ m \in Manifest /\ N \in Nat /\ N \in Ends(m)
      /\ m.edits \in Seq(Edit) /\ Ends(m) \subseteq 0 .. N
      /\ DiskOK(m, tables, logs, promised, synced)
      BY <1>1, CurrentFacts
<1>5. N > 0 /\ e \in Edit /\ e.next \in Nat /\ e.log \in Nat /\ e.last \in Nat
  <2>1. m.edits # <<>>
        BY <1>1 DEF Damaged
  <2>2. N > 0
        BY <1>4, <2>1
  <2>3. e \in Edit
        BY <1>4, <2>2
  <2> QED BY <2>2, <2>3 DEF Edit
<1>6. /\ After(m.edits, N) \subseteq DOMAIN tables /\ e.log <= e.next /\ e.next > 0
      /\ Covers(tables, After(m.edits, N), logs, e.log, promised, synced)
      BY <1>4, <1>5 DEF DiskOK, EndOK
<1>7. TablesOf(version') = After(m.edits, N) /\ version' \in Version
  <2>1. TablesOf(Replay(m.edits)) = After(m.edits, N)
        BY <1>4, AfterAll
  <2>2. After(m.edits, N) \subseteq Nat
        BY <1>4, AfterType
  <2>3. Replay(m.edits).l0 \subseteq Nat /\ Replay(m.edits).l1 \subseteq Nat
        BY <2>1, <2>2 DEF TablesOf
  <2>4. Replay(m.edits) \in Version
        BY <2>3 DEF Replay, Version
  <2> QED BY <1>1, <2>1, <2>4
<1>8. LogsType' /\ TablesType' /\ ManifestsType' /\ NumbersType'
  <2>1. LogsType' /\ TablesType' /\ ManifestsType'
        BY <1>1 DEF LogsType, TablesType, ManifestsType
  <2>2. /\ manifest_file_number' \in Nat /\ next_file_number' \in Nat
        /\ last_sequence' \in Nat /\ log_number' \in Nat
    <3>1. /\ manifest_file_number' = e.next /\ next_file_number' = e.next + 1
          /\ last_sequence' = e.last /\ log_number' = e.log
          BY <1>1, <1>3
    <3>2. \A y \in Nat : y + 1 \in Nat
          OBVIOUS
    <3> QED BY <1>5, <3>1, <3>2
  <2>3. NumbersType'
        BY <1>1, <2>2 DEF NumbersType
  <2> QED BY <2>1, <2>3
<1>9. Disk'
      BY <1>1, DiskFrame
<1>10. replay' \subseteq DOMAIN logs /\ DOMAIN logs \subseteq Nat
       BY <1>1 DEF LogsType
<1>11. Numbers'
  <2>1. ASSUME NEW k \in Ends(m), NEW n \in After(m.edits, k) PROVE n < e.next + 1
    <3>1. k <= N /\ k \in 0 .. Len(m.edits)
          BY <1>4
    <3>2. n < e.next
          BY <1>4, <1>5, <3>1 DEF DiskOK, NumbersOK
    <3>3. n \in Nat
          BY <1>4, <3>1, AfterType
    <3> QED BY <1>5, <3>2, <3>3
  <2>2. ASSUME NEW n \in DOMAIN logs PROVE n \in replay' \/ n < e.next + 1
    <3>1. n >= e.log \/ n < e.log
          BY <1>5, <1>10
    <3>2. n \in Nat
          BY <1>10
    <3> QED BY <1>1, <1>3, <1>5, <1>6, <3>1, <3>2
  <2>3. pending_outputs' = {}
        BY <1>1, <1>2, NobodyWrites DEF OpeningLeaves
  <2>4. manifest_file_number' # 0
        BY <1>1, <1>3, <1>5, <1>6
  <2>5. \A n \in TablesOf(version') : n < e.next + 1
        BY <1>4, <1>7, <2>1
  <2> QED BY <1>1, <1>3, <1>10, <2>1, <2>2, <2>3, <2>4, <2>5 DEF Numbers
<1>12. edit = NoEdit
       BY <1>1, <1>2 DEF Idle
<1>13. Recovered'
  <2>1. edit'.add0 = {}
        BY <1>1, <1>12, NoEditFacts
  <2>2. ASSUME NEW x \in promised
        PROVE  \/ InTables(tables, TablesOf(version') \union edit'.add0, x)
               \/ \E n \in replay' : InLog(logs[n], "written", x)
    <3>1. CASE InTables(tables, After(m.edits, N), x)
          BY <1>7, <2>1, <3>1
    <3>2. CASE InLogs(logs, e.log, "written", x)
          BY <1>1, <1>3, <3>2 DEF InLogs
    <3> QED BY <1>6, <3>1, <3>2 DEF Covers
  <2> QED BY <1>1, <1>6, <1>7, <2>1, <2>2 DEF Recovered
<1>14. edit' \in Edit /\ edit'.del = {} /\ edit'.add1 = {} /\ replay' \subseteq Nat
       BY <1>1, <1>10, <1>12, NoEditFacts
<1> QED BY <1>1, <1>2, <1>7, <1>8, <1>9, <1>11, <1>13, <1>14, OpeningStep

\* The entries of a log: finitely many.
LEMMA LogEntries ==
    ASSUME NEW g \in Log, NEW E, E = UNION Range(g.recs)
    PROVE  /\ E \subseteq Entry /\ IsFiniteSet(E)
           /\ \A x : InLog(g, "written", x) => Has(E, x)
<1>1. g.recs \in Seq(FiniteEntries) /\ Len(g.recs) \in Nat /\ DOMAIN g.recs = 1 .. Len(g.recs)
      BY DEF Log
<1>2. Range(g.recs) = {g.recs[i] : i \in 1 .. Len(g.recs)}
      BY <1>1 DEF Range
<1>3. IsFiniteSet(1 .. Len(g.recs))
      BY <1>1, FS_Interval
<1>4. IsFiniteSet(Range(g.recs))
      BY <1>2, <1>3, FiniteImage
<1>5. \A R \in Range(g.recs) : IsFiniteSet(R) /\ R \subseteq Entry
      BY <1>1, <1>2 DEF FiniteEntries
<1>6. IsFiniteSet(E)
      BY <1>4, <1>5, FS_UNION
<1>7. E \subseteq Entry
      BY <1>5
<1>8. ASSUME NEW x, InLog(g, "written", x) PROVE Has(E, x)
  <2>1. PICK i \in DOMAIN g.recs : Has(g.recs[i], x)
        BY <1>8 DEF InLog
  <2>2. g.recs[i] \in Range(g.recs)
        BY <2>1 DEF Range
  <2> QED BY <2>1, <2>2 DEF Has
<1> QED BY <1>6, <1>7, <1>8

\* The greatest sequence number of a log, or an earlier one.
LEMMA GreatestSequence ==
    ASSUME NEW E \in SUBSET Entry, IsFiniteSet(E), NEW l \in Nat
    PROVE  /\ Max({e.seq : e \in E} \union {l}) \in Nat
           /\ l <= Max({e.seq : e \in E} \union {l})
           /\ \A e \in E : e.seq <= Max({f.seq : f \in E} \union {l})
<1> PICK T : T = {e.seq : e \in E}
    OBVIOUS
<1>1. T \in SUBSET Nat
      BY DEF Entry
<1>2. IsFiniteSet(T)
  <2> PICK f : f = [e \in E |-> e.seq]
      OBVIOUS
  <2>1. T = {f[e] : e \in E}
        OBVIOUS
  <2>2. IsFiniteSet({f[e] : e \in E})
        BY FiniteImage
  <2> QED BY <2>1, <2>2
<1>3. IsFiniteSet(T \union {l}) /\ T \union {l} \in SUBSET Nat /\ T \union {l} # {}
      BY <1>1, <1>2, FS_AddElement
<1>4. /\ Max(T \union {l}) \in T \union {l}
      /\ \A y \in T \union {l} : y <= Max(T \union {l})
      BY <1>3, MaxFacts
<1>5. \A e \in E : e.seq \in T
      OBVIOUS
<1> QED BY <1>3, <1>4, <1>5

\* The oldest log that is left becomes a table.
LEMMA RecoverLogFileInv ==
    ASSUME Inv, RecoverLogFile PROVE Inv'
<1> USE DEF Inv, Typed
<1> PICK n : n = Min(replay)
    OBVIOUS
<1> PICK E : E = UNION Range(logs[n].recs)
    OBVIOUS
<1> PICK z : z = next_file_number
    OBVIOUS
<1> PICK table : table = IF E = {} THEN {} ELSE {z}
    OBVIOUS
<1>1. /\ phase = "replay" /\ phase' = "replay" /\ replay # {}
      /\ replay' = replay \ {n}
      /\ tables' = [t \in DOMAIN tables \union table |-> IF t \in table THEN E ELSE tables[t]]
      /\ edit' = [edit EXCEPT !.add0 = @ \union table]
      /\ next_file_number' = MarkFileNumberUsed(z + Cardinality(table), n)
      /\ last_sequence' = Max({e.seq : e \in E} \union {last_sequence})
      /\ UNCHANGED <<logs, manifests, current, logfile_number, log_number>>
      /\ UNCHANGED <<manifest_file_number, version, promised, synced, risked, issued>>
      /\ OpeningLeaves
      BY DEF RecoverLogFile, memVars, promiseVars, boundVars, OpeningLeaves
<1>2. ~Running /\ Recovering /\ phase # "down" /\ current # 0
      BY <1>1 DEF Running, Recovering, Numbers
<1>3. /\ replay \subseteq DOMAIN logs /\ DOMAIN logs \subseteq Nat /\ n \in replay
      /\ n \in Nat /\ logs[n] \in Log
  <2>1. replay \subseteq DOMAIN logs /\ DOMAIN logs \subseteq Nat
        BY <1>2 DEF Numbers, LogsType
  <2>2. n \in replay
        BY <1>1, <2>1, MinIsMember
  <2> QED BY <2>1, <2>2 DEF LogsType
<1>4. /\ E \subseteq Entry /\ IsFiniteSet(E)
      /\ \A x : InLog(logs[n], "written", x) => Has(E, x)
      BY <1>3, LogEntries
<1>5. z \in Nat /\ Cardinality(table) \in Nat /\ (table # {} => Cardinality(table) = 1)
  <2>1. Cardinality({}) = 0 /\ Cardinality({z}) = 1
        BY FS_EmptySet, FS_Singleton
  <2> QED BY <2>1 DEF NumbersType
<1>6. /\ next_file_number' \in Nat /\ z <= next_file_number' /\ n < next_file_number'
      /\ (table # {} => z < next_file_number')
  <2>1. PICK a : a = z + Cardinality(table)
        OBVIOUS
  <2>2. a \in Nat /\ z <= a /\ (table # {} => z < a)
        BY <1>5, <2>1
  <2>3. next_file_number' = IF a <= n THEN n + 1 ELSE a
        BY <1>1, <2>1 DEF MarkFileNumberUsed
  <2> QED BY <1>3, <1>5, <2>2, <2>3
<1>7. last_sequence' \in Nat
  <2>1. last_sequence \in Nat
        BY DEF NumbersType
  <2> QED BY <1>1, <1>4, <2>1, GreatestSequence
<1>8. /\ DOMAIN tables' = DOMAIN tables \union table
      /\ \A t \in DOMAIN tables : t # z => tables'[t] = tables[t]
      /\ table # {} => tables'[z] = E
      BY <1>1
<1>9. OnlyTable(z)
      BY <1>8 DEF OnlyTable
<1>10. edit \in Edit /\ edit' \in Edit /\ edit'.add0 = edit.add0 \union table
       /\ edit'.del = {} /\ edit'.add1 = {}
  <2>1. edit \in Edit /\ edit.del = {} /\ edit.add1 = {}
        BY <1>2, NobodyWrites DEF MemoryType
  <2>2. table \subseteq Nat
        BY <1>5
  <2> QED BY <1>1, <2>1, <2>2 DEF Edit
<1>11. LogsType' /\ ManifestsType'
       BY <1>1 DEF LogsType, ManifestsType
<1>12. TablesType'
  <2>1. \A t \in DOMAIN tables' : tables'[t] \in SUBSET Entry
        BY <1>1, <1>4, <1>8 DEF TablesType
  <2>2. tables' = [t \in DOMAIN tables' |-> tables'[t]]
        BY <1>1
  <2>3. DOMAIN tables' \subseteq Nat
        BY <1>5, <1>8 DEF TablesType
  <2> QED BY <2>1, <2>2, <2>3 DEF TablesType
<1>13. NumbersType'
       BY <1>1, <1>6, <1>7 DEF NumbersType
<1>14. \A S : z \notin S => Kept(tables, tables', S)
       BY <1>9 DEF Kept, OnlyTable
<1>15. ~(z < z)
       BY <1>5
<1>16. Disk'
  <2>1. \A k \in Ends(manifests[current]) : z \notin After(manifests[current].edits, k)
        BY <1>2, <1>15 DEF Numbers
  <2>2. \A k \in Ends(manifests[current]) : Kept(tables, tables', After(manifests[current].edits, k))
        BY <1>14, <2>1
  <2>3. \A L : LogsKept(logs, logs', L)
        BY <1>1 DEF LogsKept
  <2>4. /\ current \in DOMAIN manifests
        /\ DiskOK(manifests[current], tables, logs, promised, synced)
        BY <1>2, CurrentFacts
  <2>5. DiskOK(manifests[current], tables', logs', promised, synced)
        BY <2>2, <2>3, <2>4, DiskKept
  <2> QED BY <1>1, <1>2, <2>4, <2>5 DEF Disk
<1>17. \A t \in Nat : t < z => t < next_file_number'
       BY <1>5, <1>6
<1>18. TablesOf(version) \subseteq Nat /\ edit.add0 \subseteq Nat
       BY <1>10 DEF MemoryType, Version, TablesOf, Edit
<1>19. Numbers'
  <2>1. \A k \in Ends(manifests[current]) :
           \A t \in After(manifests[current].edits, k) : t < next_file_number'
    <3>1. \A k \in Ends(manifests[current]) : After(manifests[current].edits, k) \subseteq Nat
          BY <1>2, CurrentFacts
    <3> QED BY <1>2, <1>17, <3>1 DEF Numbers
  <2>2. \A t \in TablesOf(version) : t < next_file_number'
        BY <1>2, <1>17, <1>18 DEF Numbers
  <2>3. pending_outputs' = {}
        BY <1>1, <1>2, NobodyWrites DEF OpeningLeaves
  <2>4. \A t \in DOMAIN logs : t \in replay' \/ t < next_file_number'
        BY <1>1, <1>2, <1>3, <1>6, <1>17 DEF Numbers
  <2> QED BY <1>1, <1>2, <1>3, <2>1, <2>2, <2>3, <2>4 DEF Numbers
<1>20. Recovered'
  <2> PICK S : S = TablesOf(version) \union edit.add0
      OBVIOUS
  <2>1. /\ S \subseteq DOMAIN tables /\ \A t \in edit.add0 : t < z
        /\ \A x \in promised : \/ InTables(tables, S, x)
                               \/ \E k \in replay : InLog(logs[k], "written", x)
        BY <1>2 DEF Recovered
  <2>2. z \notin S
        BY <1>2, <1>15, <2>1 DEF Numbers
  <2>3. \A t \in edit'.add0 : t < next_file_number'
        BY <1>6, <1>10, <1>17, <1>18, <2>1
  <2>4. TablesOf(version') \union edit'.add0 = S \union table
        BY <1>1, <1>10
  <2>5. S \union table \subseteq DOMAIN tables'
        BY <1>8, <2>1
  <2>6. ASSUME NEW x \in promised
        PROVE  \/ InTables(tables', S \union table, x)
               \/ \E k \in replay' : InLog(logs[k], "written", x)
    <3>1. CASE InTables(tables, S, x)
      <4>1. InTables(tables', S, x)
            BY <1>14, <2>2, <3>1, InTablesKept
      <4> QED BY <4>1, InMoreTables
    <3>2. CASE InLog(logs[n], "written", x)
      <4>1. Has(E, x)
            BY <1>4, <3>2
      <4>2. table = {z}
            BY <4>1 DEF Has
      <4> QED BY <1>8, <4>1, <4>2 DEF InTables
    <3> QED BY <1>1, <2>1, <3>1, <3>2
  <2> QED BY <1>1, <2>3, <2>4, <2>5, <2>6 DEF Recovered
<1>21. version' \in Version /\ replay' \subseteq Nat
       BY <1>1 DEF MemoryType
<1> QED BY <1>1, <1>2, <1>10, <1>11, <1>12, <1>13, <1>16, <1>19, <1>20, <1>21, OpeningStep

\* DB::Open makes a new log.
LEMMA NewLogInv ==
    ASSUME Inv, NewLog PROVE Inv'
<1> USE DEF Inv, Typed
<1> PICK z : z = next_file_number
    OBVIOUS
<1>1. /\ phase = "replay" /\ replay = {} /\ phase' = "recovered"
      /\ logs' = Put(logs, z, [recs |-> <<>>, synced |-> 0])
      /\ logfile_number' = z /\ next_file_number' = z + 1
      /\ edit' = [edit EXCEPT !.log = z, !.next = z + 1, !.last = last_sequence]
      /\ UNCHANGED <<tables, manifests, current, log_number, manifest_file_number, version>>
      /\ UNCHANGED <<last_sequence, replay, promised, synced, risked, issued>>
      /\ OpeningLeaves
      BY DEF NewLog, promiseVars, boundVars, OpeningLeaves
<1>2. ~Running /\ Recovering /\ phase # "down" /\ current # 0
      BY <1>1 DEF Running, Recovering, Numbers
<1>3. z \in Nat /\ z < z + 1 /\ z + 1 \in Nat /\ (\A t \in Nat : t < z => t < z + 1) /\ ~(z < z)
      BY DEF NumbersType
<1>4. DOMAIN logs \subseteq Nat /\ (\A n \in DOMAIN logs : n < z) /\ z \notin DOMAIN logs
      BY <1>1, <1>2, <1>3 DEF Numbers, LogsType
<1>5. /\ DOMAIN logs' = DOMAIN logs \union {z} /\ logs'[z] = [recs |-> <<>>, synced |-> 0]
      /\ \A n \in DOMAIN logs : logs'[n] = logs[n]
      /\ logs' = [n \in DOMAIN logs' |-> logs'[n]]
      BY <1>1, <1>4 DEF Put
<1>6. LogsType'
  <2>1. <<>> \in Seq(FiniteEntries) /\ Len(<<>>) = 0
        OBVIOUS
  <2>2. logs'[z] \in Log /\ logs'[z].synced <= Len(logs'[z].recs)
        BY <1>5, <2>1 DEF Log
  <2>3. \A n \in DOMAIN logs' : logs'[n] \in Log /\ logs'[n].synced <= Len(logs'[n].recs)
        BY <1>5, <2>2 DEF LogsType
  <2> QED BY <1>3, <1>4, <1>5, <2>3 DEF LogsType
<1>7. edit \in Edit /\ edit' \in Edit /\ edit'.add0 = edit.add0 /\ edit'.del = {}
      /\ edit'.add1 = {} /\ edit'.log = z /\ edit'.next = z + 1
  <2>1. edit \in Edit /\ edit.del = {} /\ edit.add1 = {} /\ last_sequence \in Nat
        BY <1>2, NobodyWrites DEF MemoryType, NumbersType
  <2> QED BY <1>1, <1>3, <2>1 DEF Edit
<1>8. TablesType' /\ ManifestsType'
      BY <1>1 DEF TablesType, ManifestsType
<1>9. NumbersType'
      BY <1>1, <1>3 DEF NumbersType
<1>10. Disk'
  <2>1. \A L : LogsKept(logs, logs', L)
        BY <1>5 DEF LogsKept
  <2>2. \A S : Kept(tables, tables', S)
        BY <1>1 DEF Kept
  <2>3. /\ current \in DOMAIN manifests
        /\ DiskOK(manifests[current], tables, logs, promised, synced)
        BY <1>2, CurrentFacts
  <2>4. DiskOK(manifests[current], tables', logs', promised, synced)
        BY <2>1, <2>2, <2>3, DiskKept
  <2> QED BY <1>1, <1>2, <2>3, <2>4 DEF Disk
<1>11. TablesOf(version) \subseteq Nat /\ edit.add0 \subseteq Nat
       BY <1>7 DEF MemoryType, Version, TablesOf, Edit
<1>12. Numbers'
  <2>1. \A k \in Ends(manifests[current]) : After(manifests[current].edits, k) \subseteq Nat
        BY <1>2, CurrentFacts
  <2>2. \A k \in Ends(manifests[current]) :
           \A t \in After(manifests[current].edits, k) : t < z + 1
        BY <1>2, <1>3, <2>1 DEF Numbers
  <2>3. \A t \in TablesOf(version) : t < z + 1
        BY <1>2, <1>3, <1>11 DEF Numbers
  <2>4. pending_outputs' = {}
        BY <1>1, <1>2, NobodyWrites DEF OpeningLeaves
  <2>5. \A t \in DOMAIN logs' : t < z + 1
        BY <1>3, <1>4, <1>5
  <2> QED BY <1>1, <1>2, <1>5, <2>2, <2>3, <2>4, <2>5 DEF Numbers
<1>13. Recovered'
  <2>1. \A t \in edit'.add0 : t < next_file_number'
        BY <1>1, <1>2, <1>3, <1>7, <1>11 DEF Recovered
  <2>2. TablesOf(version') \union edit'.add0 = TablesOf(version) \union edit.add0
        BY <1>1, <1>7
  <2>3. /\ TablesOf(version) \union edit.add0 \subseteq DOMAIN tables
        /\ \A x \in promised : InTables(tables, TablesOf(version) \union edit.add0, x)
        BY <1>1, <1>2 DEF Recovered
  <2> QED BY <1>1, <1>7, <2>1, <2>2, <2>3 DEF Recovered
<1>14. version' \in Version /\ replay' \subseteq Nat
       BY <1>1 DEF MemoryType
<1> QED BY <1>1, <1>2, <1>6, <1>7, <1>8, <1>9, <1>10, <1>12, <1>13, <1>14, OpeningStep

\* Manifest m is a snapshot of the recovered version and the edit.
Snapshot(m) ==
    /\ m.synced = 2 /\ Len(m.edits) = 2 /\ m.edits[2] = edit
    /\ After(m.edits, 2) = TablesOf(version) \union edit.add0

\* A recovery from such a snapshot finds all that is promised.
LEMMA SnapshotOK ==
    ASSUME Inv, Recovering, phase # "replay", NEW m, Snapshot(m)
    PROVE  /\ DiskOK(m, tables, logs, promised, synced) /\ Ends(m) = {2}
           /\ \A n \in TablesOf(version) \union edit.add0 : n < next_file_number
<1> USE DEF Inv, Typed, Snapshot
<1> PICK S : S = TablesOf(version) \union edit.add0
    OBVIOUS
<1>1. phase # "down" /\ replay = {} /\ logfile_number \in DOMAIN logs /\ DOMAIN logs \subseteq Nat
      BY DEF Recovering, Numbers, LogsType
<1>2. /\ edit.log = logfile_number /\ edit.next = next_file_number
      /\ S \subseteq DOMAIN tables
      /\ \A x \in promised : InTables(tables, S, x)
      BY <1>1 DEF Recovered
<1>3. logfile_number < next_file_number /\ next_file_number \in Nat /\ logfile_number \in Nat
      BY <1>1 DEF Numbers, NumbersType
<1>4. \A n \in S : n < next_file_number
      BY <1>1 DEF Numbers, Recovered
<1>5. Ends(m) = {2}
      BY DEF Ends
<1>6. EndOK(m, 2, tables, logs, promised, synced)
  <2>1. Covers(tables, S, logs, edit.log, promised, synced)
        BY <1>2 DEF Covers, NumbersType
  <2>2. edit.log <= edit.next /\ edit.next > 0
        BY <1>2, <1>3
  <2>3. 2 # 0
        OBVIOUS
  <2> QED BY <1>2, <2>1, <2>2, <2>3 DEF EndOK
<1>7. NumbersOK(m)
      BY <1>2, <1>4, <1>5 DEF NumbersOK
<1> QED BY <1>4, <1>5, <1>6, <1>7 DEF DiskOK

\* LogAndApply writes a new manifest.
LEMMA WriteSnapshotInv ==
    ASSUME Inv, WriteSnapshot PROVE Inv'
<1> USE DEF Inv, Typed
<1> PICK e : e = [NoEdit EXCEPT !.add0 = version.l0, !.add1 = version.l1]
    OBVIOUS
<1> PICK s : s = <<e, edit>>
    OBVIOUS
<1> PICK m : m = [edits |-> s, synced |-> 2]
    OBVIOUS
<1> PICK f : f = manifest_file_number
    OBVIOUS
<1> PICK S : S = TablesOf(version) \union edit.add0
    OBVIOUS
<1>1. /\ phase = "recovered" /\ phase' = "manifest" /\ manifests' = Put(manifests, f, m)
      /\ UNCHANGED <<logs, tables, current, replay, logfile_number, log_number>>
      /\ UNCHANGED <<next_file_number, manifest_file_number, version, last_sequence, edit>>
      /\ UNCHANGED <<promised, synced, risked, issued>>
      /\ OpeningLeaves
      BY DEF WriteSnapshot, memVars, versionVars, bgVars, promiseVars, boundVars, OpeningLeaves
<1>2. ~Running /\ Recovering /\ phase # "down" /\ phase # "replay" /\ current # 0
      BY <1>1 DEF Running, Recovering, Numbers
<1>3. edit \in Edit /\ version \in Version /\ edit.del = {} /\ edit.add1 = {} /\ f \in Nat
      BY <1>2, NobodyWrites DEF MemoryType, NumbersType
<1>4. e \in Edit /\ e.add0 = version.l0 /\ e.add1 = version.l1
      BY <1>3, NoEditFacts DEF Edit, Version, NoEdit
<1>5. s \in Seq(Edit) /\ Len(s) = 2 /\ s[1] = e /\ s[2] = edit
      BY <1>3, <1>4
<1>6. After(s, 2) = S
  <2> HIDE DEF Inv, Typed
  <2>1. After(s, 0) = {}
        BY <1>5, AfterNone
  <2>2. PICK k : k = 1
        OBVIOUS
  <2>3. PICK j : j = 2
        OBVIOUS
  <2>4. k \in 1 .. Len(s) /\ k - 1 = 0 /\ j \in 1 .. Len(s) /\ j - 1 = k
        BY <1>5, <2>2, <2>3
  <2>5. After(s, k) = (After(s, k - 1) \ s[k].del) \union s[k].add0 \union s[k].add1
        BY <1>5, <2>4, AfterStep
  <2>6. After(s, j) = (After(s, j - 1) \ s[j].del) \union s[j].add0 \union s[j].add1
        BY <1>5, <2>4, AfterStep
  <2>7. After(s, k) = TablesOf(version)
        BY <1>4, <1>5, <2>1, <2>2, <2>4, <2>5 DEF TablesOf
  <2> QED BY <1>3, <1>5, <2>3, <2>4, <2>6, <2>7
<1>7. m \in Manifest /\ m.edits = s /\ m.synced = 2 /\ m.synced <= Len(m.edits)
      BY <1>5 DEF Manifest
<1>8. Snapshot(m)
      BY <1>5, <1>6, <1>7 DEF Snapshot
<1>9. /\ DiskOK(m, tables, logs, promised, synced) /\ Ends(m) = {2}
      /\ \A n \in S : n < next_file_number
  <2> HIDE DEF Inv, Typed
  <2> QED BY <1>2, <1>8, SnapshotOK
<1>10. /\ DOMAIN manifests' = DOMAIN manifests \union {f} /\ manifests'[f] = m
       /\ \A n \in DOMAIN manifests : n # f => manifests'[n] = manifests[n]
       /\ manifests' = [n \in DOMAIN manifests' |-> manifests'[n]]
       BY <1>1 DEF Put
<1>11. ManifestsType'
  <2>1. \A n \in DOMAIN manifests' : /\ manifests'[n] \in Manifest
                                     /\ manifests'[n].synced <= Len(manifests'[n].edits)
        BY <1>7, <1>10 DEF ManifestsType
  <2>2. DOMAIN manifests' \subseteq Nat
        BY <1>3, <1>10 DEF ManifestsType
  <2> QED BY <1>10, <2>1, <2>2 DEF ManifestsType
<1>12. LogsType' /\ TablesType' /\ NumbersType'
       BY <1>1 DEF LogsType, TablesType, NumbersType
<1>13. /\ current \in DOMAIN manifests
       /\ DiskOK(manifests[current], tables, logs, promised, synced)
       BY <1>2, CurrentFacts
<1>14. manifests'[current] = m \/ manifests'[current] = manifests[current]
       BY <1>10, <1>13
<1>15. Disk'
  <2>1. DiskOK(manifests'[current], tables, logs, promised, synced)
        BY <1>9, <1>13, <1>14
  <2> QED BY <1>1, <1>2, <1>10, <1>13, <2>1 DEF Disk
<1>16. Numbers'
  <2>1. \A k \in Ends(manifests'[current]) :
           \A n \in After(manifests'[current].edits, k) : n < next_file_number
    <3>1. CASE manifests'[current] = m
          BY <1>6, <1>7, <1>9, <3>1
    <3>2. CASE manifests'[current] = manifests[current]
          BY <1>2, <3>2 DEF Numbers
    <3> QED BY <1>14, <3>1, <3>2
  <2>2. pending_outputs' = pending_outputs
        BY <1>1 DEF OpeningLeaves
  <2> QED BY <1>1, <1>2, <2>1, <2>2 DEF Numbers
<1>17. Recovered'
       BY <1>1, <1>2, <1>5, <1>6, <1>7, <1>10 DEF Recovered
<1>18. /\ version' \in Version /\ edit' \in Edit /\ edit'.del = {} /\ edit'.add1 = {}
       /\ replay' \subseteq Nat
       BY <1>1, <1>3 DEF MemoryType
<1> QED BY <1>1, <1>2, <1>11, <1>12, <1>15, <1>16, <1>17, <1>18, OpeningStep

\* CURRENT names it.
LEMMA SetCurrentFileInv ==
    ASSUME Inv, SetCurrentFile PROVE Inv'
<1> USE DEF Inv, Typed
<1> PICK m : m = manifests[manifest_file_number]
    OBVIOUS
<1>1. /\ phase = "manifest" /\ phase' = "current" /\ current' = manifest_file_number
      /\ UNCHANGED <<logs, tables, manifests, replay, logfile_number, log_number>>
      /\ UNCHANGED <<next_file_number, manifest_file_number, version, last_sequence, edit>>
      /\ UNCHANGED <<promised, synced, risked, issued>>
      /\ OpeningLeaves
      BY DEF SetCurrentFile, memVars, versionVars, bgVars, promiseVars, boundVars, OpeningLeaves
<1>2. ~Running /\ Recovering /\ phase # "down" /\ phase # "replay" /\ manifest_file_number # 0
      BY <1>1 DEF Running, Recovering, Numbers
<1>3. Snapshot(m) /\ manifest_file_number \in DOMAIN manifests
      BY <1>1, <1>2 DEF Recovered, Snapshot
<1>4. /\ DiskOK(m, tables, logs, promised, synced) /\ Ends(m) = {2}
      /\ \A n \in TablesOf(version) \union edit.add0 : n < next_file_number
  <2> HIDE DEF Inv, Typed
  <2> QED BY <1>2, <1>3, SnapshotOK
<1>5. LogsType' /\ TablesType' /\ ManifestsType' /\ NumbersType'
      BY <1>1 DEF LogsType, TablesType, ManifestsType, NumbersType
<1>6. Disk'
      BY <1>1, <1>2, <1>3, <1>4 DEF Disk
<1>7. Numbers'
  <2>1. \A k \in Ends(m) : \A n \in After(m.edits, k) : n < next_file_number
        BY <1>3, <1>4 DEF Snapshot
  <2>2. pending_outputs' = pending_outputs
        BY <1>1 DEF OpeningLeaves
  <2> QED BY <1>1, <1>2, <2>1, <2>2 DEF Numbers
<1>8. Recovered'
      BY <1>1, <1>2 DEF Recovered
<1>9. /\ version' \in Version /\ edit' \in Edit /\ edit'.del = {} /\ edit'.add1 = {}
      /\ replay' \subseteq Nat
      BY <1>1, <1>2, NobodyWrites DEF MemoryType
<1> QED BY <1>1, <1>2, <1>5, <1>6, <1>7, <1>8, <1>9, OpeningStep

\* The rest of DB::Open.
LEMMA OpenInv ==
    ASSUME Inv, Open PROVE Inv'
<1> USE DEF Inv, Typed
<1> PICK m : m = manifests[current]
    OBVIOUS
<1> PICK ms : ms = manifests
    OBVIOUS
<1> PICK v : v = Apply(version, edit)
    OBVIOUS
<1> PICK L : L = edit.log
    OBVIOUS
<1>1. /\ phase = "current" /\ phase' = "open" /\ version' = v /\ log_number' = L
      /\ edit' = NoEdit /\ DeleteObsoleteFiles(ms, v, L, {}, {})
      /\ bg' = MaybeSchedule(bg, {}, v, bg_error)
      /\ UNCHANGED <<replay, current, writers, pc, request, group, mem, imm, logfile_number>>
      /\ UNCHANGED <<next_file_number, manifest_file_number, last_sequence, bg_error, merge>>
      /\ UNCHANGED <<pending_outputs, iterators, promised, synced, risked, issued>>
      BY DEF Open, queueVars, memVars, promiseVars, boundVars
<1>2. ~Running /\ Recovering /\ phase # "down" /\ phase # "replay" /\ current # 0
      BY <1>1 DEF Running, Recovering, Numbers
<1>3. /\ iterators = {} /\ merge = {} /\ imm = {} /\ mem = {} /\ bg = NoJob
      /\ pending_outputs = {} /\ bg_error = FALSE /\ edit.del = {} /\ edit.add1 = {}
      /\ writers = <<>> /\ \A w \in Writers : pc[w] = "idle"
      BY <1>2, NobodyWrites
<1>4. Snapshot(m) /\ current = manifest_file_number
      BY <1>1, <1>2 DEF Recovered, Snapshot
<1>5. /\ DiskOK(m, tables, logs, promised, synced) /\ Ends(m) = {2}
      /\ \A n \in TablesOf(version) \union edit.add0 : n < next_file_number
  <2> HIDE DEF Inv, Typed
  <2> QED BY <1>2, <1>4, SnapshotOK
<1>6. current \in DOMAIN manifests
      BY <1>2, CurrentFacts
<1>7. v \in Version /\ TablesOf(v) = TablesOf(version) \union edit.add0
  <2>1. version \in Version /\ edit \in Edit
        BY DEF MemoryType
  <2> QED BY <1>3, <2>1, ApplyTables
<1>8. /\ L = logfile_number /\ L \in Nat /\ logfile_number \in DOMAIN logs /\ replay = {}
      BY <1>1, <1>2 DEF Recovered, Numbers, NumbersType
<1>9. Left(ms, v, L, {}, {})
  <2>1. ms = [n \in DOMAIN manifests |-> ms[n]]
        BY DEF ManifestsType
  <2> HIDE DEF Inv, Typed
  <2> QED BY <1>1, <1>4, <1>6, <2>1, DeleteFacts
<1>10. /\ LogsType' /\ TablesType' /\ DOMAIN logs' \subseteq DOMAIN logs
       /\ \A n \in DOMAIN logs' : logs'[n] = logs[n]
       /\ LogsKept(logs, logs', L) /\ Kept(tables, tables', TablesOf(v))
       /\ current \in DOMAIN manifests' /\ manifests'[current] = m
       BY <1>9 DEF Left
<1>11. logfile_number \in DOMAIN logs'
  <2>1. logfile_number >= L
        BY <1>8
  <2> QED BY <1>8, <1>9, <2>1 DEF Left
<1>12. ManifestsType'
       BY <1>9 DEF Left, ManifestsType
<1>13. NumbersType'
       BY <1>1, <1>8 DEF NumbersType
<1>14. bg' \in Job /\ bg'.job = "none" /\ bg'.pc \in {"none", "scheduled"}
       BY <1>1, <1>3, MaybeScheduleFacts, JobFacts
<1>15. MemoryType' /\ QueueType'
       BY <1>1, <1>7, <1>14, NoEditFacts DEF MemoryType, QueueType
<1>16. Disk'
  <2>1. \A k \in Ends(m) : k # 0 => /\ Kept(tables, tables', After(m.edits, k))
                                    /\ LogsKept(logs, logs', m.edits[k].log)
        BY <1>4, <1>5, <1>7, <1>10 DEF Snapshot
  <2>2. DiskOK(m, tables', logs', promised, synced)
        BY <1>5, <2>1, DiskKept
  <2> QED BY <1>1, <1>2, <1>10, <2>2 DEF Disk
<1>17. Running' /\ ~Recovering'
       BY <1>1 DEF Running, Recovering
<1>18. Idle' /\ Recovered'
       BY <1>17 DEF Idle, Recovered
<1>19. Numbers'
  <2>1. \A k \in Ends(m) : \A n \in After(m.edits, k) : n < next_file_number
        BY <1>4, <1>5 DEF Snapshot
  <2>2. \A n \in DOMAIN logs' : n < next_file_number
        BY <1>2, <1>8, <1>10 DEF Numbers
  <2>3. \A n \in TablesOf(version') : n < next_file_number
        BY <1>1, <1>5, <1>7
  <2> QED BY <1>1, <1>2, <1>3, <1>8, <1>10, <1>11, <2>1, <2>2, <2>3 DEF Numbers
<1>20. TablesOf(v) \subseteq DOMAIN tables'
       BY <1>2, <1>7, <1>10 DEF Recovered, Kept
<1>21. Engine'
  <2>1. bg'.pc # "sync"
        BY <1>14
  <2>2. Base' = 2
        BY <1>1, <1>4, <1>10, <2>1 DEF Base, Snapshot
  <2>3. After(manifests'[current].edits, Base') = TablesOf(v)
        BY <1>4, <1>7, <1>10, <2>2 DEF Snapshot
  <2>4. log_number' <= logfile_number'
        BY <1>1, <1>8
  <2>5. ASSUME NEW k \in Ends(m) PROVE k > 0 /\ m.edits[k].log <= logfile_number
    <3>1. k = 2 /\ m.edits[k] = edit
          BY <1>4, <1>5 DEF Snapshot
    <3>2. logfile_number <= logfile_number
          BY <1>8
    <3>3. m.edits[k].log = logfile_number
          BY <1>8, <3>1
    <3>4. 2 > 0
          OBVIOUS
    <3> HIDE DEF Inv, Typed
    <3> QED BY <3>1, <3>2, <3>3, <3>4
  <2> QED BY <1>1, <1>4, <1>10, <1>20, <2>1, <2>3, <2>4, <2>5 DEF Engine
<1>22. Acknowledged'
  <2>1. ASSUME NEW x \in promised PROVE InTables(tables', TablesOf(v), x)
    <3>1. InTables(tables, TablesOf(v), x)
          BY <1>2, <1>7, <1>8 DEF Recovered
    <3> QED BY <1>10, <3>1, InTablesKept
  <2>2. \A x \in promised : \A kind : FoundAs(kind, x)'
        BY <1>1, <2>1 DEF FoundAs
  <2>3. risked' = {}
        BY <1>1, <1>2, NobodyWrites
  <2> QED BY <1>1, <2>2, <2>3 DEF Acknowledged, NumbersType
<1>23. Merging' /\ Flushing' /\ Iterators'
       BY <1>1, <1>3, <1>14 DEF Merging, Flushing, Iterators
<1>24. Background'
       BY <1>1, <1>3, <1>14 DEF Background
<1>25. Queue'
       BY <1>1, <1>3 DEF Queue
<1>26. Group'
       BY <1>1, <1>3 DEF Group
<1> QED BY <1>10, <1>12, <1>13, <1>15, <1>16, <1>18, <1>19, <1>21, <1>22, <1>23, <1>24,
           <1>25, <1>26

-----------------------------------------------------------------------------
(* The theorems.                                                           *)

\* The invariant holds before the first open.
LEMMA InitInv ==
    ASSUME Init PROVE Inv
<1> USE DEF Init
<1>1. <<>> \in Seq(Writers) /\ Len(<<>>) = 0 /\ DOMAIN <<>> = {}
      OBVIOUS
<1>2. LogsType /\ TablesType /\ ManifestsType
      BY DEF LogsType, TablesType, ManifestsType
<1>3. QueueType
  <2>1. pc \in [Writers -> Places]
        BY DEF Places
  <2>2. request \in [Writers -> Nat]
        OBVIOUS
  <2> QED BY <1>1, <2>1, <2>2 DEF QueueType
<1>4. EmptyVersion \in Version
      BY DEF EmptyVersion, Version
<1>5. MemoryType
      BY <1>4, NoEditFacts, JobFacts DEF MemoryType
<1>6. NumbersType /\ Disk
      BY DEF NumbersType, Disk
<1>7. ~Running /\ ~Recovering
      BY DEF Running, Recovering
<1>8. Idle
      BY <1>7, NoEditFacts DEF Idle
<1>9. Numbers /\ Recovered /\ Engine /\ Acknowledged /\ Merging /\ Flushing /\ Background
      BY <1>7 DEF Numbers, Recovered, Engine, Acknowledged, Merging, Flushing, Background
<1>10. Iterators /\ Group
       BY DEF Iterators, Group
<1>11. Queue
       BY <1>1 DEF Queue
<1> QED BY <1>2, <1>3, <1>5, <1>6, <1>8, <1>9, <1>10, <1>11 DEF Inv, Typed

\* A step that changes nothing keeps it.
LEMMA StutterInv ==
    ASSUME Inv, UNCHANGED vars PROVE Inv'
<1> USE DEF Inv, vars, diskVars, phaseVars, queueVars, memVars, versionVars, bgVars,
            promiseVars, boundVars
<1>1. ReaderLeaves /\ iterators' = iterators
      BY DEF ReaderLeaves
<1>2. Typed /\ Iterators' /\ iterators' \subseteq Iterator
      BY <1>1, IteratorsFrame DEF Typed, MemoryType
<1>3. \A n : Unread(n) => Unread(n)'
      BY DEF Unread
<1>4. ~Running => iterators' = {}
      BY DEF Idle
<1> HIDE DEF Inv
<1> QED BY <1>1, <1>2, <1>3, <1>4, ReaderStep

\* So does every step of the database.
LEMMA NextInv ==
    ASSUME Inv, Next PROVE Inv'
<1>1. ASSUME NEW w \in Writers,
             \/ Write(w) \/ WriterStep(w)
             \/ AddRecordFails(w) \/ SyncLogFails(w) \/ RoomSwitchFails(w)
      PROVE  Inv'
      BY <1>1, WriteInv, RoomInv, WriteFailsInv, RoomSwitchInv, AddRecordInv, SyncLogInv,
         InsertIntoInv DEF WriterStep
<1>2. CASE BackgroundStep
      BY <1>2, BackgroundIdleInv, CompactMemTableInv, TableBuiltInv, FlushClosesInv,
         StartMergeInv, OpenOutputInv, FinishOutputInv, FailureInv, InstallFlushInv,
         InstallMergeInv DEF BackgroundStep
<1>3. CASE TableFails \/ MergeFails \/ SyncManifestFails
      BY <1>3, FailureInv
<1>4. CASE NewIterator
      BY <1>4, NewIteratorInv
<1>5. ASSUME NEW i \in iterators, CleanupIteratorState(i) PROVE Inv'
      BY <1>5, CleanupIteratorInv
<1>6. CASE Close \/ Closed \/ ProcessCrash \/ MachineCrash \/ OpenFails
      BY <1>6, CloseInv, ProcessEndsInv, MachineCrashInv, OpenFailsInv
<1>7. CASE OpenStep
      BY <1>7, NewDBInv, OpenDamagedInv, RecoverInv, RecoverLogFileInv, NewLogInv,
         WriteSnapshotInv, SetCurrentFileInv, OpenInv DEF OpenStep
<1> QED BY <1>1, <1>2, <1>3, <1>4, <1>5, <1>6, <1>7 DEF Next

(***************************************************************************)
(* The invariant holds for ever, with any number of writers and any bound. *)
(***************************************************************************)
THEOREM LevelDBInv == Spec => []Inv
<1>1. Init => Inv
      BY InitInv
<1>2. Inv /\ [Next]_vars => Inv'
      BY StutterInv, NextInv
<1> QED BY <1>1, <1>2, PTL DEF Spec

\* A set without two different elements has at most one.
LEMMA AtMostOne ==
    ASSUME NEW S, \A q, r \in S : q = r PROVE Cardinality(S) <= 1
<1>1. CASE S = {}
      BY <1>1, FS_EmptySet
<1>2. CASE S # {}
  <2>1. PICK r \in S : TRUE
        BY <1>2
  <2>2. S = {r}
        BY <2>1
  <2> QED BY <2>2, FS_Singleton
<1> QED BY <1>1, <1>2

(***************************************************************************)
(* Type correctness, with what it says of the queue: it holds the writers  *)
(* that are in Write, nobody twice, only its front is anywhere but         *)
(* waiting, and the group is a part of it from its front (DBImpl::Write).  *)
(***************************************************************************)
THEOREM LevelDBType == Spec => []TypeOK
<1>1. ASSUME Inv PROVE TypeOK
  <2> USE <1>1
  <2> USE DEF Inv, Typed
  <2>1. \A n \in DOMAIN logs : logs[n].synced \in 0 .. Len(logs[n].recs)
    <3> SUFFICES ASSUME NEW n \in DOMAIN logs PROVE logs[n].synced \in 0 .. Len(logs[n].recs)
        OBVIOUS
    <3>1. logs[n] \in Log /\ logs[n].synced <= Len(logs[n].recs)
          BY DEF LogsType
    <3> QED BY <3>1 DEF Log
  <2>2. \A n \in DOMAIN manifests : manifests[n].synced \in 0 .. Len(manifests[n].edits)
    <3> SUFFICES ASSUME NEW n \in DOMAIN manifests
                 PROVE  manifests[n].synced \in 0 .. Len(manifests[n].edits)
        OBVIOUS
    <3>1. manifests[n] \in Manifest /\ manifests[n].synced <= Len(manifests[n].edits)
          BY DEF ManifestsType
    <3> QED BY <3>1 DEF Manifest
  <2>3. pc \in [Writers -> {"idle", "waiting", "room", "bgwait", "sync", "apply"}]
        BY DEF QueueType, Places
  <2>4. {w \in Writers : pc[w] # "idle"} = Range(writers)
    <3>1. \A i \in DOMAIN writers : writers[i] \in Writers
          BY DEF QueueType
    <3> QED BY <3>1 DEF Queue, Range
  <2>5. IsInjective(writers) /\ \A i \in DOMAIN writers : i > 1 <=> pc[writers[i]] = "waiting"
        BY DEF Queue, IsInjective
  <2>6. IsPrefix(group, writers)
    <3>1. /\ group \in Seq(Writers) /\ writers \in Seq(Writers) /\ Len(group) <= Len(writers)
          /\ \A i \in DOMAIN group : group[i] = writers[i]
          BY DEF QueueType, Queue
    <3>2. SubSeq(group, 1, Len(group)) = SubSeq(writers, 1, Len(group))
          BY <3>1
    <3> QED BY <3>1, <3>2 DEF IsPrefix
  <2>7. Cardinality(imm) <= 1 /\ Cardinality(merge) <= 1
    <3>1. (\A q, r \in imm : q = r) /\ (\A q, r \in merge : q = r)
          BY DEF Idle, Background
    <3> QED BY <3>1, AtMostOne
  <2>8. bg.pc \in {"none", "scheduled", "build", "merge", "sync"}
        /\ bg.job \in {"none", "flush", "merge"}
        BY DEF MemoryType, Job
  <2>9. pending_outputs \subseteq 0 .. next_file_number
    <3>1. CASE phase = "down"
          BY <3>1 DEF Idle, Running
    <3>2. CASE phase # "down"
      <4>1. pending_outputs \subseteq Nat /\ next_file_number \in Nat
            /\ \A n \in pending_outputs : n < next_file_number
            BY <3>2 DEF MemoryType, NumbersType, Numbers
      <4> QED BY <4>1
    <3> QED BY <3>1, <3>2
  <2>10. promised \subseteq 1 .. issued /\ risked \subseteq 1 .. issued /\ synced \subseteq promised
         BY DEF NumbersType
  <2>11. phase \in {"down", "replay", "recovered", "manifest", "current", "open", "closing"}
         BY DEF MemoryType
  <2> HIDE DEF Inv, Typed
  <2> QED BY <2>1, <2>2, <2>3, <2>4, <2>5, <2>6, <2>7, <2>8, <2>9, <2>10, <2>11 DEF TypeOK
<1> QED BY <1>1, LevelDBInv, PTL

(***************************************************************************)
(* What was acknowledged can be read: no flush, merge, deletion of files,  *)
(* recovery or purge of a damaged database takes it, no end of the process *)
(* unless its record lies behind a failed append, and, if it asked for a   *)
(* sync or was flushed, no crash of the machine.  An open that fails takes *)
(* everything, because createDB deletes the database (OpenFails).          *)
(***************************************************************************)
THEOREM LevelDBSurvive == Spec => []AcknowledgedSurvive
<1>1. ASSUME Inv PROVE AcknowledgedSurvive
  <2> SUFFICES ASSUME Running, NEW x \in promised \union risked
               PROVE  \E e \in Readable : e.id = x
      BY DEF AcknowledgedSurvive, Ids, Running
  <2>1. FoundAs("written", x) \/ Has(mem, x) \/ \E m \in imm : Has(m, x)
        BY <1>1 DEF Inv, Acknowledged
  <2>2. CASE Has(mem, x)
        BY <2>2 DEF Has, Readable
  <2>3. CASE \E m \in imm : Has(m, x)
        BY <2>3 DEF Has, Readable
  <2>4. CASE InTables(tables, TablesOf(version), x)
    <3>1. PICK n \in TablesOf(version) : n \in DOMAIN tables /\ Has(tables[n], x)
          BY <2>4 DEF InTables
    <3>2. tables[n] \subseteq Contents(TablesOf(version))
          BY <3>1 DEF Contents
    <3> QED BY <3>1, <3>2 DEF Has, Readable
  <2> QED BY <2>1, <2>2, <2>3, <2>4 DEF FoundAs
<1> QED BY <1>1, LevelDBInv, PTL

(***************************************************************************)
(* No file that somebody will still read is deleted: DeleteObsoleteFiles   *)
(* leaves the tables of the version, of the merge, of every iterator, and  *)
(* of each version that a recovery may find.                               *)
(***************************************************************************)
THEOREM LevelDBLiveFiles == Spec => []LiveFilesExist
<1>1. ASSUME Inv PROVE LiveFilesExist
  <2> USE <1>1
  <2>1. TablesOf(version) \subseteq DOMAIN tables
    <3>1. CASE phase = "down"
          BY <3>1 DEF Inv, Idle, Running, EmptyVersion, TablesOf
    <3>2. CASE Running \/ Recovering
          BY <3>2 DEF Inv, Engine, Recovered
    <3> QED BY <3>1, <3>2 DEF Inv, Typed, MemoryType, Running, Recovering
  <2>2. \A r \in merge : r.tables \subseteq DOMAIN tables
        BY DEF Inv, Idle, Merging
  <2>3. ASSUME NEW i \in iterators
        PROVE  /\ i.tables \subseteq DOMAIN tables
               /\ i.sees \subseteq Ids(i.mem \union Contents(i.tables))
    <3>1. i.tables \subseteq DOMAIN tables
          BY DEF Inv, Iterators
    <3>2. ASSUME NEW x \in i.sees PROVE \E e \in i.mem \union Contents(i.tables) : e.id = x
      <4>1. CASE Has(i.mem, x)
            BY <4>1 DEF Has
      <4>2. CASE InTables(tables, i.tables, x)
        <5>1. PICK n \in i.tables : n \in DOMAIN tables /\ Has(tables[n], x)
              BY <4>2 DEF InTables
        <5>2. tables[n] \subseteq Contents(i.tables)
              BY <5>1 DEF Contents
        <5> QED BY <5>1, <5>2 DEF Has
      <4> QED BY <4>1, <4>2 DEF Inv, Iterators
    <3> QED BY <3>1, <3>2 DEF Ids
  <2>4. ASSUME current # 0,
               NEW k \in manifests[current].synced .. Len(manifests[current].edits)
        PROVE  TablesOf(Replay(SubSeq(manifests[current].edits, 1, k))) \subseteq DOMAIN tables
    <3> PICK m : m = manifests[current]
        OBVIOUS
    <3>1. /\ k \in Ends(m) /\ m.edits \in Seq(Edit)
          /\ DiskOK(m, tables, logs, promised, synced)
          BY <2>4, CurrentFacts DEF Ends
    <3>2. After(m.edits, k) \subseteq DOMAIN tables
      <4>1. CASE k = 0
            BY <3>1, <4>1, AfterNone
      <4>2. CASE k # 0
            BY <3>1, <4>2 DEF DiskOK, EndOK
      <4> QED BY <4>1, <4>2
    <3> QED BY <3>2 DEF After
  <2> QED BY <2>1, <2>2, <2>3, <2>4 DEF LiveFilesExist
<1> QED BY <1>1, LevelDBInv, PTL

-----------------------------------------------------------------------------
(* Sequence numbers.                                                       *)

\* The entries of the tables S, of a log, and of the logs N.
Tabled(t, S) == UNION {t[n] : n \in S \cap DOMAIN t}
EntriesOf(g) == UNION {g.recs[i] : i \in DOMAIN g.recs}
Logged(lg, N) == UNION {EntriesOf(lg[n]) : n \in N \cap DOMAIN lg}
From(lg, L) == {n \in DOMAIN lg : n >= L}

\* A number names one write, and no number is above n.
Unique(E) == \A e, f \in E : e.seq = f.seq => e.id = f.id
UpTo(E, n) == \A e \in E : e.seq <= n

\* What is in the memtables and in the tables, and what is in the logs.
Stored == mem \union (UNION imm) \union Tabled(tables, DOMAIN tables)
AllLogged == Logged(logs, DOMAIN logs)

\* The entry is one of the group that is in the log and not yet in mem_.
Underway(e) == \E w \in Writers : pc[w] \in {"sync", "apply"} /\ e \in Entries(group)

\* The tables that a recovery finds have no number above the one it starts from.
EndsUpTo ==
    current # 0 =>
        \A k \in Ends(manifests[current]) :
            k > 0 => UpTo(Tabled(tables, After(manifests[current].edits, k)),
                          manifests[current].edits[k].last)

\* In these tables and the logs it reads a number names one write.
EndsUnique ==
    IF current = 0 THEN DOMAIN logs = {}
    ELSE ~Running =>
            \A k \in Ends(manifests[current]) :
                k > 0 => Unique(Tabled(tables, After(manifests[current].edits, k))
                                \union Logged(logs, From(logs, manifests[current].edits[k].log)))

\* A recovery has seen the numbers of the tables it has so far.
Replaying ==
    Recovering =>
        /\ Unique(Tabled(tables, TablesOf(version) \union edit.add0)
                  \union Logged(logs, replay))
        /\ UpTo(Tabled(tables, TablesOf(version) \union edit.add0), last_sequence)
        /\ phase # "replay" => /\ next_file_number = logfile_number + 1
                               /\ logs[logfile_number].recs = <<>>
                               /\ edit.last = last_sequence

\* A running database has used up the numbers of all it holds, but for those of
\* the group it is writing.
Numbering ==
    Running =>
        /\ Unique(Stored \union AllLogged)
        /\ UpTo(Stored, last_sequence)
        /\ \A e \in AllLogged : e.seq <= last_sequence \/ Underway(e)

Numbered == EndsUpTo /\ EndsUnique /\ Replaying /\ Numbering

\* What the entries of tables, of a log and of logs are.
LEMMA EntryPlaces ==
    /\ \A t, S, e : e \in Tabled(t, S) <=> \E n \in S : n \in DOMAIN t /\ e \in t[n]
    /\ \A g, e : e \in EntriesOf(g) <=> \E i \in DOMAIN g.recs : e \in g.recs[i]
    /\ \A lg, N, e : e \in Logged(lg, N) <=> \E n \in N : n \in DOMAIN lg /\ e \in EntriesOf(lg[n])
BY DEF Tabled, Logged, EntriesOf

\* Fewer entries have fewer numbers.
LEMMA Fewer ==
    ASSUME NEW E, NEW F, F \subseteq E
    PROVE  /\ Unique(E) => Unique(F)
           /\ \A n : UpTo(E, n) => UpTo(F, n)
BY DEF Unique, UpTo

\* Tables that are as they were, or fewer of them, hold no more.
LEMMA FewerTabled ==
    ASSUME NEW t, NEW t2, NEW S, NEW S2, S2 \subseteq S,
           \A n \in S2 : n \in DOMAIN t2 => n \in DOMAIN t /\ t2[n] \subseteq t[n]
    PROVE  Tabled(t2, S2) \subseteq Tabled(t, S)
<1> SUFFICES ASSUME NEW e \in Tabled(t2, S2) PROVE e \in Tabled(t, S)
    OBVIOUS
<1>1. PICK n \in S2 : n \in DOMAIN t2 /\ e \in t2[n]
      BY EntryPlaces
<1>2. n \in S /\ n \in DOMAIN t /\ e \in t[n]
      BY <1>1
<1> QED BY <1>2, EntryPlaces

\* The same for logs.
LEMMA FewerLogged ==
    ASSUME NEW lg, NEW lg2, NEW N, NEW N2, N2 \subseteq N,
           \A n \in N2 : n \in DOMAIN lg2 =>
               n \in DOMAIN lg /\ EntriesOf(lg2[n]) \subseteq EntriesOf(lg[n])
    PROVE  Logged(lg2, N2) \subseteq Logged(lg, N)
<1> SUFFICES ASSUME NEW e \in Logged(lg2, N2) PROVE e \in Logged(lg, N)
    OBVIOUS
<1>1. PICK n \in N2 : n \in DOMAIN lg2 /\ e \in EntriesOf(lg2[n])
      BY EntryPlaces
<1>2. n \in N /\ n \in DOMAIN lg /\ e \in EntriesOf(lg[n])
      BY <1>1
<1> QED BY <1>2, EntryPlaces

\* They are all entries.
LEMMA EntryTypes ==
    ASSUME Inv
    PROVE  /\ Stored \subseteq Entry /\ AllLogged \subseteq Entry /\ last_sequence \in Nat
           /\ \A S : Tabled(tables, S) \subseteq Entry
           /\ \A N : Logged(logs, N) \subseteq Entry
           /\ \A e \in Entry : e.seq \in Nat
<1>1. /\ mem \subseteq Entry /\ (UNION imm) \subseteq Entry /\ last_sequence \in Nat
      /\ tables \in [DOMAIN tables -> SUBSET Entry] /\ logs \in [DOMAIN logs -> Log]
      BY DEF Inv, Typed, MemoryType, NumbersType, TablesType, LogsType
<1>2. \A S : Tabled(tables, S) \subseteq Entry
      BY <1>1 DEF Tabled
<1>3. ASSUME NEW N, NEW e \in Logged(logs, N) PROVE e \in Entry
  <2>1. PICK n \in DOMAIN logs : e \in EntriesOf(logs[n])
        BY <1>3, EntryPlaces
  <2>2. PICK i \in DOMAIN logs[n].recs : e \in logs[n].recs[i]
        BY <2>1, EntryPlaces
  <2>3. logs[n].recs \in Seq(FiniteEntries)
        BY <1>1, <2>1 DEF Log
  <2>4. logs[n].recs[i] \in FiniteEntries
        BY <2>2, <2>3, Element
  <2> QED BY <2>2, <2>4 DEF FiniteEntries
<1>4. \A e \in Entry : e.seq \in Nat
      BY DEF Entry
<1> QED BY <1>1, <1>2, <1>3, <1>4 DEF Stored, AllLogged

\* A step of the running database that adds no entry and takes back no number.
Stays ==
    /\ Running /\ Running' /\ EndsUpTo' /\ current' = current
    /\ Stored' \subseteq Stored /\ AllLogged' \subseteq AllLogged
    /\ last_sequence' >= last_sequence
    /\ \A e : Underway(e) => Underway(e)' \/ e.seq <= last_sequence'

\* It keeps the numbers as they are.
LEMMA StaysNumbered ==
    ASSUME Inv, Inv', Numbered, Stays PROVE Numbered'
<1> USE DEF Stays
<1>1. /\ Unique(Stored \union AllLogged) /\ UpTo(Stored, last_sequence)
      /\ \A e \in AllLogged : e.seq <= last_sequence \/ Underway(e)
      BY DEF Numbered, Numbering
<1>2. current' # 0 /\ ~Recovering'
      BY DEF Inv, Numbers, Running, Recovering
<1>3. /\ Stored \subseteq Entry /\ AllLogged \subseteq Entry /\ last_sequence \in Nat
      /\ last_sequence' \in Nat /\ \A e \in Entry : e.seq \in Nat
      BY EntryTypes DEF Inv, Typed, NumbersType
<1>4. \A e \in Entry : e.seq <= last_sequence => e.seq <= last_sequence'
      BY <1>3
<1>5. (Stored \union AllLogged)' \subseteq Stored \union AllLogged
      OBVIOUS
<1>6. Unique((Stored \union AllLogged)')
      BY <1>1, <1>5, Fewer
<1>7. UpTo(Stored', last_sequence')
      BY <1>1, <1>3, <1>4 DEF UpTo
<1>8. \A e \in AllLogged' : e.seq <= last_sequence' \/ Underway(e)'
      BY <1>1, <1>3, <1>4
<1>9. Numbering'
  <2>1. Unique(Stored' \union AllLogged')
        BY <1>6
  <2> QED BY <1>7, <1>8, <2>1 DEF Numbering, Unique, UpTo
<1>10. EndsUnique' /\ Replaying'
       BY <1>2 DEF EndsUnique, Replaying
<1> QED BY <1>9, <1>10 DEF Numbered

\* What a step does not touch holds the same entries.
LEMMA SameEntries ==
    /\ UNCHANGED <<mem, imm, tables>> => Stored' = Stored
    /\ UNCHANGED logs => AllLogged' = AllLogged
    /\ EndsUpTo /\ UNCHANGED <<current, manifests, tables>> => EndsUpTo'
BY DEF Stored, AllLogged, EndsUpTo

\* The group under way is the same after a signal.
LEMMA SameGroup ==
    ASSUME UNCHANGED <<group, request, last_sequence>>, pc' = pc \/ pc' = SignalAll,
           NEW e, Underway(e)
    PROVE  Underway(e)'
<1>1. PICK w \in Writers : pc[w] \in {"sync", "apply"} /\ e \in Entries(group)
      BY DEF Underway
<1>2. pc'[w] = pc[w]
      BY <1>1 DEF SignalAll
<1>3. Entries(group)' = Entries(group)
      BY DEF Entries
<1> QED BY <1>1, <1>2, <1>3 DEF Underway

\* While the front of the queue makes room nothing is under way.
LEMMA NothingUnderway ==
    ASSUME Inv, NEW w \in Writers, pc[w] \notin {"idle", "waiting", "sync", "apply"}
    PROVE  \A e : ~Underway(e)
<1> SUFFICES ASSUME NEW v \in Writers, pc[v] \in {"sync", "apply"} PROVE FALSE
    BY DEF Underway
<1>1. w = writers[1] /\ v = writers[1]
      BY FrontOfQueue DEF Inv, Typed
<1> QED BY <1>1

\* The entries of a group have the numbers from last_sequence + 1 on.
LEMMA EntriesNumbers ==
    ASSUME Inv, NEW g \in Seq(Writers), NEW e \in Entries(g)
    PROVE  /\ last_sequence \in Nat /\ Len(g) \in Nat
           /\ \E i \in 1 .. Len(g) : e.seq = last_sequence + i /\ e.id = request[g[i]]
           /\ e.seq \in Nat /\ e.seq > last_sequence /\ e.seq <= last_sequence + Len(g)
<1>1. last_sequence \in Nat /\ Len(g) \in Nat /\ DOMAIN g = 1 .. Len(g)
      BY DEF Inv, Typed, NumbersType
<1>2. PICK i \in DOMAIN g : e = [seq |-> last_sequence + i, id |-> request[g[i]]]
      BY DEF Entries
<1>3. e.seq = last_sequence + i /\ e.id = request[g[i]]
      BY <1>2
<1> QED BY <1>1, <1>2, <1>3

\* They are unique.
LEMMA EntriesUnique ==
    ASSUME Inv, NEW g \in Seq(Writers) PROVE Unique(Entries(g))
<1> SUFFICES ASSUME NEW e \in Entries(g), NEW f \in Entries(g), e.seq = f.seq
             PROVE  e.id = f.id
    BY DEF Unique
<1>1. PICK i \in 1 .. Len(g) : e.seq = last_sequence + i /\ e.id = request[g[i]]
      BY EntriesNumbers
<1>2. PICK j \in 1 .. Len(g) : f.seq = last_sequence + j /\ f.id = request[g[j]]
      BY EntriesNumbers
<1>3. last_sequence \in Nat /\ Len(g) \in Nat
      BY DEF Inv, Typed, NumbersType
<1>4. i \in Nat /\ j \in Nat
      BY <1>1, <1>2, <1>3
<1>5. last_sequence + i = last_sequence + j
      BY <1>1, <1>2, <1>3
<1>6. i = j
      BY <1>3, <1>4, <1>5
<1> QED BY <1>1, <1>2, <1>6

\* A writer joins the queue.
LEMMA WriteNumbered ==
    ASSUME Inv, Inv', Numbered, NEW w \in Writers, Write(w) PROVE Numbered'
<1>1. /\ phase = "open" /\ pc[w] = "idle" /\ request' = [request EXCEPT ![w] = issued + 1]
      /\ UNCHANGED <<logs, tables, manifests, current, phase, group, mem, imm, last_sequence>>
      /\ \A v \in Writers : v # w => pc'[v] = pc[v]
      BY DEF Write, diskVars, phaseVars, memVars, Inv, Typed, QueueType
<1>2. Running /\ Running' /\ last_sequence' >= last_sequence
      BY <1>1 DEF Running, Inv, Typed, NumbersType
<1>3. Stored' = Stored /\ AllLogged' = AllLogged /\ EndsUpTo'
      BY <1>1, SameEntries DEF Numbered
<1>4. ASSUME NEW e, Underway(e) PROVE Underway(e)'
  <2>1. PICK v \in Writers : pc[v] \in {"sync", "apply"} /\ e \in Entries(group)
        BY <1>4 DEF Underway
  <2>2. v # w /\ pc'[v] = pc[v]
        BY <1>1, <2>1
  <2>3. \A i \in DOMAIN group : group[i] \in Writers /\ group[i] # w
    <3>1. /\ group \in Seq(Writers) /\ writers \in Seq(Writers) /\ Len(group) <= Len(writers)
          /\ \A i \in DOMAIN group : group[i] = writers[i]
          /\ \A x \in Writers : pc[x] # "idle" <=> \E i \in DOMAIN writers : writers[i] = x
          BY DEF Inv, Typed, QueueType, Queue
    <3>2. \A i \in DOMAIN group : i \in DOMAIN writers /\ group[i] \in Writers
          BY <3>1
    <3> QED BY <1>1, <3>1, <3>2
  <2>4. \A i \in DOMAIN group : request'[group[i]] = request[group[i]]
        BY <1>1, <2>3 DEF Inv, Typed, QueueType
  <2>5. e \in Entries(group)'
    <3>1. PICK i \in DOMAIN group : e = [seq |-> last_sequence + i, id |-> request[group[i]]]
          BY <2>1 DEF Entries
    <3>2. e = [seq |-> last_sequence' + i, id |-> request'[group'[i]]] /\ i \in DOMAIN group'
          BY <1>1, <2>4, <3>1
    <3> QED BY <3>2 DEF Entries
  <2> QED BY <2>1, <2>2, <2>5 DEF Underway
<1>5. Stays
      BY <1>1, <1>2, <1>3, <1>4 DEF Stays
<1> QED BY <1>5, StaysNumbered

\* The front of the queue waits or returns, without a group in the log; numbers
\* that a failed append took are not given again.
LEMMA RoomNumbered ==
    ASSUME Inv, Inv', Numbered, NEW w \in Writers,
           RoomError(w) \/ RoomWait(w) \/ RoomSwitchFails(w) \/ AddRecordFails(w)
    PROVE  Numbered'
<1>1. /\ pc[w] = "room"
      /\ UNCHANGED <<logs, tables, manifests, current, phase, mem, imm>>
      BY DEF RoomError, RoomWait, RoomSwitchFails, AddRecordFails, HasRoom, diskVars, phaseVars,
             memVars
<1>2. Running /\ Running' /\ writers \in Seq(Writers) /\ Len(writers) >= 1
      BY <1>1, FrontOfQueue DEF Running, Inv, Typed, QueueType
<1>3. Stored' = Stored /\ AllLogged' = AllLogged /\ EndsUpTo'
      BY <1>1, SameEntries DEF Numbered
<1>4. \A e : ~Underway(e)
      BY <1>1, NothingUnderway
<1>5. last_sequence' >= last_sequence
  <2>1. last_sequence \in Nat
        BY DEF Inv, Typed, NumbersType
  <2>2. CASE last_sequence' = last_sequence
        BY <2>1, <2>2
  <2>3. CASE last_sequence' = last_sequence + Len(BuildBatchGroup)
    <3>1. PICK n \in 1 .. Len(writers) : BuildBatchGroup = SubSeq(writers, 1, n)
          BY <1>2, GroupBuilt
    <3>2. Len(SubSeq(writers, 1, n)) \in Nat
          BY <1>2, <3>1
    <3>3. Len(BuildBatchGroup) \in Nat
          BY <3>1, <3>2
    <3> QED BY <2>1, <2>3, <3>3
  <2> QED BY <2>2, <2>3 DEF RoomError, RoomWait, RoomSwitchFails, AddRecordFails
<1>6. Stays
      BY <1>1, <1>2, <1>3, <1>4, <1>5 DEF Stays
<1> QED BY <1>6, StaysNumbered

\* A new log is empty.
LEMMA NewLogEmpty ==
    ASSUME NEW z, logs' = Put(logs, z, [recs |-> <<>>, synced |-> 0])
    PROVE  /\ DOMAIN logs' = DOMAIN logs \union {z} /\ logs'[z].recs = <<>>
           /\ \A n \in DOMAIN logs : n # z => logs'[n] = logs[n]
           /\ \A n \in DOMAIN logs' :
                 \A e \in EntriesOf(logs'[n]) : n \in DOMAIN logs /\ e \in EntriesOf(logs[n])
<1>1. /\ DOMAIN logs' = DOMAIN logs \union {z} /\ logs'[z] = [recs |-> <<>>, synced |-> 0]
      /\ \A n \in DOMAIN logs : n # z => logs'[n] = logs[n]
      BY DEF Put
<1>2. logs'[z].recs = <<>> /\ DOMAIN <<>> = {}
      BY <1>1
<1>3. \A e : e \notin EntriesOf(logs'[z])
      BY <1>2, EntryPlaces
<1> QED BY <1>1, <1>2, <1>3

\* The switch to a new log and memtable.
LEMMA SwitchNumbered ==
    ASSUME Inv, Inv', Numbered, NEW w \in Writers, RoomSwitch(w) PROVE Numbered'
<1> PICK z : z = next_file_number
    OBVIOUS
<1>1. /\ pc[w] = "room" /\ imm = {} /\ imm' = {mem} /\ mem' = {}
      /\ logs' = Put(logs, z, [recs |-> <<>>, synced |-> 0])
      /\ UNCHANGED <<tables, manifests, current, phase, last_sequence>>
      BY DEF RoomSwitch, phaseVars
<1>2. Running /\ Running' /\ last_sequence' >= last_sequence
      BY <1>1, FrontOfQueue DEF Running, Inv, Typed, NumbersType
<1>3. EndsUpTo' /\ \A e : ~Underway(e)
      BY <1>1, SameEntries, NothingUnderway DEF Numbered
<1>4. Stored' = Stored
      BY <1>1 DEF Stored
<1>5. AllLogged' \subseteq AllLogged
  <2> SUFFICES ASSUME NEW e \in Logged(logs', DOMAIN logs') PROVE e \in Logged(logs, DOMAIN logs)
      BY DEF AllLogged
  <2>1. PICK n \in DOMAIN logs' : e \in EntriesOf(logs'[n])
        BY EntryPlaces
  <2>2. n \in DOMAIN logs /\ e \in EntriesOf(logs[n])
        BY <1>1, <2>1, NewLogEmpty
  <2> QED BY <2>2, EntryPlaces
<1>6. Stays
      BY <1>1, <1>2, <1>3, <1>4, <1>5 DEF Stays
<1> QED BY <1>6, StaysNumbered

\* The newest log after a step that appends the record E to it, or only syncs it.
LEMMA LogAppended ==
    ASSUME Inv, logfile_number \in DOMAIN logs, NEW E,
           \/ logs' = [logs EXCEPT ![logfile_number].recs = Append(@, E)]
           \/ \E k : logs' = [logs EXCEPT ![logfile_number].synced = k] /\ E = {}
    PROVE  AllLogged' \subseteq AllLogged \union E
<1> PICK l : l = logfile_number
    OBVIOUS
<1>1. /\ logs \in [DOMAIN logs -> Log] /\ l \in DOMAIN logs /\ logs[l] \in Log
      /\ logs[l].recs \in Seq(FiniteEntries)
      BY DEF Inv, Typed, LogsType, Log
<1>2. /\ DOMAIN logs' = DOMAIN logs /\ \A n \in DOMAIN logs : n # l => logs'[n] = logs[n]
      /\ \/ logs'[l].recs = Append(logs[l].recs, E)
         \/ logs'[l].recs = logs[l].recs
      BY <1>1 DEF Log
<1>3. ASSUME NEW e \in EntriesOf(logs'[l]) PROVE e \in E \/ e \in EntriesOf(logs[l])
  <2>1. PICK i \in DOMAIN logs'[l].recs : e \in logs'[l].recs[i]
        BY <1>3, EntryPlaces
  <2>2. CASE logs'[l].recs = logs[l].recs
        BY <2>1, <2>2, EntryPlaces
  <2>3. CASE logs'[l].recs = Append(logs[l].recs, E)
    <3> PICK s : s = logs[l].recs
        OBVIOUS
    <3>1. s \in Seq(FiniteEntries) /\ i \in DOMAIN Append(s, E) /\ e \in Append(s, E)[i]
          BY <1>1, <2>1, <2>3
    <3>2. /\ DOMAIN Append(s, E) = 1 .. Len(s) + 1 /\ Len(s) \in Nat /\ DOMAIN s = 1 .. Len(s)
          /\ Append(s, E)[Len(s) + 1] = E
          /\ \A j \in 1 .. Len(s) : Append(s, E)[j] = s[j]
          BY <3>1
    <3>3. CASE i = Len(s) + 1
          BY <3>1, <3>2, <3>3
    <3>4. CASE i # Len(s) + 1
      <4>1. i \in DOMAIN s /\ e \in s[i]
            BY <3>1, <3>2, <3>4
      <4> QED BY <4>1, EntryPlaces
    <3> QED BY <3>3, <3>4
  <2> QED BY <1>2, <2>2, <2>3
<1>4. ASSUME NEW e \in Logged(logs', DOMAIN logs') PROVE e \in Logged(logs, DOMAIN logs) \union E
  <2>1. PICK n \in DOMAIN logs' : e \in EntriesOf(logs'[n])
        BY <1>4, EntryPlaces
  <2>2. e \in E \/ (n \in DOMAIN logs /\ e \in EntriesOf(logs[n]))
        BY <1>2, <1>3, <2>1
  <2> QED BY <2>2, EntryPlaces
<1> QED BY <1>4 DEF AllLogged

\* The group is written to the log.
LEMMA AddRecordNumbered ==
    ASSUME Inv, Inv', Numbered, NEW w \in Writers, AddRecord(w) PROVE Numbered'
<1> PICK g : g = BuildBatchGroup
    OBVIOUS
<1> PICK E : E = Entries(g)
    OBVIOUS
<1> PICK read \in {E} \union (IF torn THEN {{}} ELSE {}) :
       logs' = [logs EXCEPT ![logfile_number].recs = Append(@, read)]
    BY DEF AddRecord
<1>1. /\ pc[w] = "room" /\ group' = g
      /\ logs' = [logs EXCEPT ![logfile_number].recs = Append(@, read)]
      /\ pc' = [pc EXCEPT ![w] = IF w \in SyncWriters THEN "sync" ELSE "apply"]
      /\ UNCHANGED <<tables, manifests, current, phase, mem, imm, last_sequence, request>>
      BY DEF AddRecord, HasRoom, phaseVars, memVars
<1>2. /\ phase = "open" /\ Running /\ Running' /\ ~Recovering' /\ current' # 0
      /\ writers \in Seq(Writers) /\ Len(writers) >= 1
      BY <1>1, FrontOfQueue DEF Running, Recovering, Inv, Typed, QueueType, Numbers
<1>3. g \in Seq(Writers)
  <2>1. PICK n \in 1 .. Len(writers) : BuildBatchGroup = SubSeq(writers, 1, n)
        BY <1>2, GroupBuilt
  <2>2. SubSeq(writers, 1, n) \in Seq(Writers)
        BY <1>2, <2>1
  <2> QED BY <2>1, <2>2
<1>4. Stored' = Stored /\ EndsUpTo' /\ \A e : ~Underway(e)
      BY <1>1, SameEntries, NothingUnderway DEF Numbered
<1>5. logfile_number \in DOMAIN logs
      BY <1>2 DEF Inv, Numbers
<1>6. AllLogged' \subseteq AllLogged \union E
  <2>1. AllLogged' \subseteq AllLogged \union read
        BY <1>1, <1>5, LogAppended
  <2>2. read \subseteq E
        OBVIOUS
  <2> QED BY <2>1, <2>2
<1>7. /\ Unique(Stored \union AllLogged) /\ UpTo(Stored, last_sequence)
      /\ UpTo(AllLogged, last_sequence)
      BY <1>2, <1>4 DEF Numbered, Numbering, UpTo
<1>8. /\ Stored \subseteq Entry /\ AllLogged \subseteq Entry /\ last_sequence \in Nat
      /\ \A e \in Entry : e.seq \in Nat
      BY EntryTypes
<1>9. Unique(E) /\ \A e \in E : e.seq \in Nat /\ e.seq > last_sequence
      BY <1>3, EntriesUnique, EntriesNumbers
<1>10. \A e \in Stored \union AllLogged : e.seq \in Nat /\ e.seq <= last_sequence
       BY <1>7, <1>8 DEF UpTo
<1>11. Unique(Stored \union AllLogged \union E)
  <2> SUFFICES ASSUME NEW e \in Stored \union AllLogged \union E,
                      NEW f \in Stored \union AllLogged \union E, e.seq = f.seq
               PROVE  e.id = f.id
      BY DEF Unique
  <2>1. e \in E <=> f \in E
        BY <1>8, <1>9, <1>10
  <2> QED BY <1>7, <1>9, <2>1 DEF Unique
<1>12. Unique(Stored' \union AllLogged')
  <2>1. Stored' \union AllLogged' \subseteq Stored \union AllLogged \union E
        BY <1>4, <1>6
  <2> QED BY <1>11, <2>1, Fewer
<1>13. \A e \in AllLogged' : e.seq <= last_sequence' \/ Underway(e)'
  <2>1. pc'[w] \in {"sync", "apply"}
        BY <1>1 DEF Inv, Typed, QueueType
  <2>2. Entries(group)' = E
        BY <1>1 DEF Entries
  <2>3. \A e \in E : Underway(e)'
        BY <2>1, <2>2 DEF Underway
  <2> QED BY <1>1, <1>6, <1>7, <2>3 DEF UpTo
<1>14. Numbering'
  <2>1. UpTo(Stored', last_sequence')
        BY <1>1, <1>4, <1>7
  <2> QED BY <1>12, <1>13, <2>1 DEF Numbering, Unique, UpTo
<1>15. EndsUnique' /\ Replaying'
       BY <1>2 DEF EndsUnique, Replaying
<1> QED BY <1>4, <1>14, <1>15 DEF Numbered

\* The log is synced.
LEMMA SyncLogNumbered ==
    ASSUME Inv, Inv', Numbered, NEW w \in Writers, SyncLog(w) PROVE Numbered'
<1>1. /\ pc[w] = "sync" /\ pc' = [pc EXCEPT ![w] = "apply"]
      /\ logs' = [logs EXCEPT ![logfile_number].synced = Len(logs[logfile_number].recs)]
      /\ UNCHANGED <<tables, manifests, current, phase, mem, imm, last_sequence, request, group>>
      BY DEF SyncLog, phaseVars, memVars
<1>2. Running /\ Running' /\ last_sequence' >= last_sequence /\ logfile_number \in DOMAIN logs
      BY <1>1, FrontOfQueue DEF Running, Inv, Typed, NumbersType, Numbers
<1>3. Stored' = Stored /\ EndsUpTo'
      BY <1>1, SameEntries DEF Numbered
<1>4. AllLogged' \subseteq AllLogged
  <2>1. AllLogged' \subseteq AllLogged \union {}
        BY <1>1, <1>2, LogAppended
  <2> QED BY <2>1
<1>5. ASSUME NEW e, Underway(e) PROVE Underway(e)'
  <2>1. PICK v \in Writers : pc[v] \in {"sync", "apply"} /\ e \in Entries(group)
        BY <1>5 DEF Underway
  <2>2. pc'[v] \in {"sync", "apply"}
        BY <1>1, <2>1 DEF Inv, Typed, QueueType
  <2>3. Entries(group)' = Entries(group)
        BY <1>1 DEF Entries
  <2> QED BY <2>1, <2>2, <2>3 DEF Underway
<1>6. Stays
      BY <1>1, <1>2, <1>3, <1>4, <1>5 DEF Stays
<1> QED BY <1>6, StaysNumbered

\* The sync fails: the numbers of the group are used up.
LEMMA SyncFailsNumbered ==
    ASSUME Inv, Inv', Numbered, NEW w \in Writers, SyncLogFails(w) PROVE Numbered'
<1>1. /\ pc[w] = "sync" /\ last_sequence' = last_sequence + Len(group)
      /\ UNCHANGED <<logs, tables, manifests, current, phase, mem, imm>>
      BY DEF SyncLogFails, diskVars, phaseVars, memVars
<1>2. Running /\ Running' /\ group \in Seq(Writers) /\ last_sequence \in Nat
      BY <1>1, FrontOfQueue DEF Running, Inv, Typed, NumbersType, QueueType
<1>3. Stored' = Stored /\ AllLogged' = AllLogged /\ EndsUpTo'
      BY <1>1, SameEntries DEF Numbered
<1>4. last_sequence' >= last_sequence
      BY <1>1, <1>2
<1>5. \A e : Underway(e) => e.seq <= last_sequence'
      BY <1>1, <1>2, EntriesNumbers DEF Underway
<1>6. Stays
      BY <1>1, <1>2, <1>3, <1>4, <1>5 DEF Stays
<1> QED BY <1>6, StaysNumbered

\* The group goes into the memtable.
LEMMA InsertNumbered ==
    ASSUME Inv, Inv', Numbered, NEW w \in Writers, InsertInto(w) PROVE Numbered'
<1> PICK E : E = Entries(group)
    OBVIOUS
<1>1. /\ pc[w] = "apply" /\ last_sequence' = last_sequence + Len(group) /\ mem' = mem \union E
      /\ UNCHANGED <<logs, tables, manifests, current, phase, imm>>
      BY DEF InsertInto, diskVars, phaseVars
<1>2. /\ Running /\ Running' /\ ~Recovering' /\ current' # 0 /\ group \in Seq(Writers)
      BY <1>1, FrontOfQueue DEF Running, Recovering, Inv, Typed, QueueType, Numbers
<1>3. Stored' = Stored \union E /\ AllLogged' = AllLogged /\ EndsUpTo'
      BY <1>1, SameEntries DEF Numbered, Stored
<1>4. /\ Unique(Stored \union AllLogged) /\ UpTo(Stored, last_sequence)
      /\ \A e \in AllLogged : e.seq <= last_sequence \/ e \in E
      BY <1>2 DEF Numbered, Numbering, Underway
<1>5. /\ Stored \subseteq Entry /\ AllLogged \subseteq Entry /\ last_sequence \in Nat
      /\ (\A e \in Entry : e.seq \in Nat) /\ Len(group) \in Nat
      BY <1>2, EntryTypes
<1>6. Unique(E)
      BY <1>2, EntriesUnique
<1>7. \A e \in E : e.seq \in Nat /\ e.seq > last_sequence /\ e.seq <= last_sequence + Len(group)
      BY <1>2, EntriesNumbers
<1>8. \A e \in Stored \union AllLogged : e \in E \/ (e.seq \in Nat /\ e.seq <= last_sequence)
      BY <1>4, <1>5 DEF UpTo
<1>9. Unique(Stored \union AllLogged \union E)
  <2> SUFFICES ASSUME NEW e \in Stored \union AllLogged \union E,
                      NEW f \in Stored \union AllLogged \union E, e.seq = f.seq
               PROVE  e.id = f.id
      BY DEF Unique
  <2>1. e \in E <=> f \in E
        BY <1>5, <1>7, <1>8
  <2> QED BY <1>4, <1>6, <2>1 DEF Unique
<1>10. Unique(Stored' \union AllLogged')
  <2>1. Stored' \union AllLogged' \subseteq Stored \union AllLogged \union E
        BY <1>3
  <2> QED BY <1>9, <2>1, Fewer
<1>11. \A e \in Stored \union AllLogged \union E : e.seq <= last_sequence'
       BY <1>1, <1>5, <1>7, <1>8
<1>12. Numbering'
       BY <1>3, <1>10, <1>11 DEF Numbering, Unique, UpTo
<1>13. EndsUnique' /\ Replaying'
       BY <1>2 DEF EndsUnique, Replaying
<1> QED BY <1>3, <1>12, <1>13 DEF Numbered

\* A step of the running database that touches no entry and no writer.
Touchless ==
    /\ Running /\ Running' /\ (pc' = pc \/ pc' = SignalAll)
    /\ UNCHANGED <<logs, tables, manifests, current, mem, imm, group, request, last_sequence>>

\* It keeps the numbers.
LEMMA TouchlessNumbered ==
    ASSUME Inv, Inv', Numbered, Touchless PROVE Numbered'
<1> USE DEF Touchless
<1>1. Stored' = Stored /\ AllLogged' = AllLogged /\ EndsUpTo'
      BY SameEntries DEF Numbered
<1>2. \A e : Underway(e) => Underway(e)'
      BY SameGroup
<1>3. last_sequence' >= last_sequence
      BY DEF Inv, Typed, NumbersType
<1>4. Stays
      BY <1>1, <1>2, <1>3 DEF Stays
<1> QED BY <1>4, StaysNumbered

\* The steps of the background thread, of readers and of Close that do so.
LEMMA TouchlessSteps ==
    ASSUME Inv, Inv', Numbered,
           \/ BackgroundIdle \/ CompactMemTable \/ StartMerge \/ MergeCloses
           \/ TableFails \/ MergeFails \/ SyncManifestFails
           \/ NewIterator \/ Close \/ \E i \in iterators : CleanupIteratorState(i)
    PROVE  Numbered'
<1>1. /\ (pc' = pc \/ pc' = SignalAll)
      /\ UNCHANGED <<logs, tables, manifests, current, mem, imm, group, request, last_sequence>>
      BY DEF BackgroundIdle, CompactMemTable, StartMerge, MergeCloses, TableFails, MergeFails,
             SyncManifestFails, NewIterator, Close, CleanupIteratorState, CleanupCompaction,
             AfterFlush, EndCall, diskVars, queueVars, memVars
<1>2. Running
  <2>1. CASE bg.pc # "none"
        BY <2>1, ThreadRuns
  <2>2. CASE phase = "open"
        BY <2>2 DEF Running
  <2>3. CASE \E i \in iterators : TRUE
        BY <2>3, NobodyWrites
  <2> QED BY <2>1, <2>2, <2>3 DEF BackgroundIdle, CompactMemTable, StartMerge, MergeCloses,
             TableFails, MergeFails, SyncManifestFails, NewIterator, Close
<1>3. Running'
      BY <1>2 DEF Running, BackgroundIdle, CompactMemTable, StartMerge, MergeCloses, TableFails,
             MergeFails, SyncManifestFails, NewIterator, Close, CleanupIteratorState, phaseVars
<1> QED BY <1>1, <1>2, <1>3, TouchlessNumbered DEF Touchless

\* The tables that a recovery finds hold the same after a step that changes only
\* a table nobody reads.
LEMMA SameEnds ==
    ASSUME Inv, Running, NEW z, Unread(z), OnlyTable(z)
    PROVE  \A k \in Ends(manifests[current]) :
              k > 0 => Tabled(tables', After(manifests[current].edits, k))
                          \subseteq Tabled(tables, After(manifests[current].edits, k))
<1> PICK m : m = manifests[current]
    OBVIOUS
<1> SUFFICES ASSUME NEW k \in Ends(m), k > 0
             PROVE  Tabled(tables', After(m.edits, k)) \subseteq Tabled(tables, After(m.edits, k))
    OBVIOUS
<1> PICK S : S = After(m.edits, k)
    OBVIOUS
<1>1. current # 0
      BY DEF Inv, Numbers, Running
<1>2. DiskOK(m, tables, logs, promised, synced) /\ Ends(m) \subseteq 0 .. Len(m.edits)
      /\ Len(m.edits) \in Nat
      BY <1>1, CurrentFacts
<1>3. k # 0
      BY <1>2
<1>4. S \subseteq DOMAIN tables
      BY <1>2, <1>3 DEF DiskOK, EndOK
<1>5. z \notin S
      BY DEF Unread
<1>6. \A n \in S : n \in DOMAIN tables' => n \in DOMAIN tables /\ tables'[n] \subseteq tables[n]
      BY <1>4, <1>5 DEF OnlyTable
<1>7. Tabled(tables', S) \subseteq Tabled(tables, S)
      BY <1>6, FewerTabled
<1> QED BY <1>7

\* A table is written with entries that are there already.
TableWritten(z) ==
    /\ bg.pc # "none" /\ Unread(z) /\ OnlyTable(z)
    /\ DOMAIN tables' = DOMAIN tables \union {z} /\ tables'[z] \subseteq Stored
    /\ (pc' = pc \/ pc' = SignalAll)
    /\ UNCHANGED <<logs, current, phase, mem, imm, group, request, last_sequence>>

\* Such a step keeps the numbers, if the manifest stays as it is or gets an edit
\* with the greatest number.
LEMMA TableNumbered ==
    ASSUME Inv, Inv', Numbered, NEW z, TableWritten(z),
           \/ manifests' = manifests
           \/ /\ edit'.last = last_sequence /\ edit' \in Edit
              /\ manifests'[current].edits = Append(manifests[current].edits, edit')
              /\ manifests'[current].synced = manifests[current].synced
    PROVE  Numbered'
<1> USE DEF TableWritten
<1> PICK m : m = manifests[current]
    OBVIOUS
<1> PICK m2 : m2 = manifests'[current]
    OBVIOUS
<1>1. Running /\ Running' /\ current # 0
      BY ThreadRuns DEF Running
<1>2. /\ m.edits \in Seq(Edit) /\ m.synced \in Nat /\ Len(m.edits) \in Nat
      /\ m.synced <= Len(m.edits)
      BY <1>1, CurrentFacts
<1>3. Stored' \subseteq Stored
  <2>1. ASSUME NEW e \in Tabled(tables', DOMAIN tables') PROVE e \in Stored
    <3>1. PICK n \in DOMAIN tables' : e \in tables'[n]
          BY <2>1, EntryPlaces
    <3>2. CASE n = z
          BY <3>1, <3>2
    <3>3. CASE n # z
      <4>1. n \in DOMAIN tables /\ e \in tables[n]
            BY <3>1, <3>3 DEF OnlyTable
      <4> QED BY <4>1, EntryPlaces DEF Stored
    <3> QED BY <3>2, <3>3
  <2> QED BY <2>1 DEF Stored
<1>4. AllLogged' = AllLogged
      BY SameEntries
<1>5. \A e : Underway(e) => Underway(e)'
      BY SameGroup
<1>6. /\ last_sequence' >= last_sequence /\ last_sequence \in Nat
      /\ \A e \in Entry : e.seq \in Nat
      BY EntryTypes
<1>7. UpTo(Stored, last_sequence)
      BY <1>1 DEF Numbered, Numbering
<1>8. \A k \in Ends(m) :
         k > 0 => UpTo(Tabled(tables', After(m.edits, k)), m.edits[k].last)
  <2>1. \A k \in Ends(m) : k > 0 =>
           Tabled(tables', After(m.edits, k)) \subseteq Tabled(tables, After(m.edits, k))
        BY <1>1, SameEnds
  <2>2. \A k \in Ends(m) : k > 0 => UpTo(Tabled(tables, After(m.edits, k)), m.edits[k].last)
        BY <1>1 DEF Numbered, EndsUpTo
  <2> QED BY <2>1, <2>2 DEF UpTo
<1>9. ASSUME NEW k \in Ends(m2), k > 0
      PROVE  UpTo(Tabled(tables', After(m2.edits, k)), m2.edits[k].last)
  <2>1. CASE manifests' = manifests
        BY <1>8, <1>9, <2>1
  <2>2. CASE manifests' # manifests
    <3> PICK e2 : e2 = edit'
        OBVIOUS
    <3>1. /\ e2 \in Edit /\ m2.edits = Append(m.edits, e2) /\ m2.synced = m.synced
          /\ e2.last = last_sequence
          BY <2>2
    <3>2. Len(m2.edits) = Len(m.edits) + 1 /\ m2.edits[Len(m.edits) + 1] = e2
          BY <1>2, <3>1
    <3>3. CASE k = Len(m.edits) + 1
      <4>1. Tabled(tables', After(m2.edits, k)) \subseteq Tabled(tables', DOMAIN tables')
            BY EntryPlaces
      <4>2. Tabled(tables', After(m2.edits, k)) \subseteq Stored
            BY <1>3, <4>1 DEF Stored
      <4> QED BY <1>7, <3>1, <3>2, <3>3, <4>2, Fewer
    <3>4. CASE k # Len(m.edits) + 1
      <4>1. k \in Ends(m) /\ k \in 1 .. Len(m.edits)
            BY <1>2, <1>9, <3>1, <3>2, <3>4 DEF Ends
      <4>2. After(m2.edits, k) = After(m.edits, k)
            BY <1>2, <3>1, <4>1, AfterAppend
      <4>3. m2.edits[k] = m.edits[k]
            BY <1>2, <3>1, <4>1
      <4> QED BY <1>8, <1>9, <4>1, <4>2, <4>3
    <3> QED BY <3>3, <3>4
  <2> QED BY <2>1, <2>2
<1>10. EndsUpTo'
       BY <1>9 DEF EndsUpTo
<1>11. Stays
       BY <1>1, <1>3, <1>4, <1>5, <1>6, <1>10 DEF Stays
<1> QED BY <1>11, StaysNumbered

\* An edit is logged with the greatest number.
LEMMA LoggedLast ==
    ASSUME Inv, NEW e \in Edit, LogAndApply(e) PROVE edit'.last = last_sequence
<1>1. edit' = [e EXCEPT !.next = next_file_number, !.last = last_sequence]
      BY DEF LogAndApply
<1> QED BY <1>1 DEF Edit

\* A flush writes its table, and logs its edit unless the database closes.
LEMMA FlushNumbered ==
    ASSUME Inv, Inv', Numbered, TableBuilt \/ FlushCloses PROVE Numbered'
<1> PICK z : z = bg.num
    OBVIOUS
<1> PICK e : e = [NoEdit EXCEPT !.add0 = {z}, !.log = logfile_number]
    OBVIOUS
<1>1. /\ bg.pc = "build" /\ tables' = Put(tables, z, UNION imm)
      /\ UNCHANGED <<logs, current, phase, mem, imm, group, request, last_sequence>>
      BY DEF TableBuilt, FlushCloses, phaseVars, memVars, queueVars
<1>2. Running
      BY <1>1, ThreadRuns
<1>3. bg.job = "flush" /\ z \in Nat /\ Unread(z) /\ logfile_number \in Nat
      BY <1>1, <1>2 DEF Inv, Typed, Background, MemoryType, Job, Flushing, NumbersType
<1>4. pc' = pc \/ pc' = SignalAll
      BY <1>2, AfterFlushFacts DEF TableBuilt, FlushCloses, queueVars
<1>5. TableWritten(z)
  <2>1. /\ DOMAIN tables' = DOMAIN tables \union {z} /\ tables'[z] = UNION imm
        /\ \A n \in DOMAIN tables : n # z => tables'[n] = tables[n]
        BY <1>1 DEF Put
  <2>2. OnlyTable(z)
        BY <2>1 DEF OnlyTable
  <2>3. tables'[z] \subseteq Stored
        BY <2>1 DEF Stored
  <2> QED BY <1>1, <1>3, <1>4, <2>1, <2>2, <2>3 DEF TableWritten
<1>6. CASE FlushCloses
      BY <1>5, <1>6, TableNumbered DEF FlushCloses
<1>7. CASE TableBuilt
  <2>1. LogAndApply(e)
        BY <1>7 DEF TableBuilt
  <2>2. e \in Edit
        BY <1>3, NoEditFacts DEF Edit, NoEdit
  <2>3. /\ edit' \in Edit
        /\ manifests'[current].edits = Append(manifests[current].edits, edit')
        /\ manifests'[current].synced = manifests[current].synced
        BY <1>2, <2>1, <2>2, LogAndApplyFacts
  <2>4. edit'.last = last_sequence
        BY <2>1, <2>2, LoggedLast
  <2> QED BY <1>5, <2>3, <2>4, TableNumbered
<1> QED BY <1>6, <1>7

\* A merge opens its output, or writes it and logs its edit.
LEMMA MergeNumbered ==
    ASSUME Inv, Inv', Numbered, OpenCompactionOutputFile \/ FinishCompactionOutputFile
    PROVE  Numbered'
<1>1. /\ bg.pc = "merge" /\ pc' = pc
      /\ UNCHANGED <<logs, current, phase, mem, imm, group, request, last_sequence>>
      BY DEF OpenCompactionOutputFile, FinishCompactionOutputFile, phaseVars, memVars, queueVars
<1>2. Running
      BY <1>1, ThreadRuns
<1>3. CASE OpenCompactionOutputFile
  <2> PICK z : z = next_file_number
      OBVIOUS
  <2>1. tables' = Put(tables, z, {}) /\ manifests' = manifests
        BY <1>3 DEF OpenCompactionOutputFile
  <2>2. Unread(z)
        BY <1>2, FreshIsUnread
  <2>3. /\ DOMAIN tables' = DOMAIN tables \union {z} /\ tables'[z] = {}
        /\ \A n \in DOMAIN tables : n # z => tables'[n] = tables[n]
        BY <2>1 DEF Put
  <2>4. OnlyTable(z)
        BY <2>3 DEF OnlyTable
  <2>5. TableWritten(z)
        BY <1>1, <2>2, <2>3, <2>4 DEF TableWritten
  <2> QED BY <2>1, <2>5, TableNumbered
<1>4. CASE FinishCompactionOutputFile
  <2>1. PICK r \in merge : /\ tables' = [tables EXCEPT ![r.num] = Contents(r.tables)]
                           /\ LogAndApply([NoEdit EXCEPT !.add1 = {r.num}, !.del = r.tables,
                                                         !.log = log_number])
        BY <1>4 DEF FinishCompactionOutputFile
  <2> PICK z : z = r.num
      OBVIOUS
  <2> PICK e : e = [NoEdit EXCEPT !.add1 = {z}, !.del = r.tables, !.log = log_number]
      OBVIOUS
  <2>2. /\ bg.job = "merge" /\ bg.num = z /\ z # 0 /\ log_number \in Nat
        BY <1>1, <1>2, <1>4, <2>1 DEF Inv, Typed, Background, NumbersType,
           FinishCompactionOutputFile
  <2>3. z \in Nat /\ r.tables \subseteq Nat
    <3>1. r \in Merge
          BY <2>1 DEF Inv, Typed, MemoryType
    <3> QED BY <3>1 DEF Merge
  <2>4. Unread(z) /\ z \in DOMAIN tables
    <3>1. ~InstallsMerge
          BY <1>1 DEF InstallsMerge
    <3> QED BY <1>2, <2>1, <2>2, <3>1 DEF Inv, Merging
  <2>5. /\ DOMAIN tables' = DOMAIN tables \union {z} /\ tables'[z] = Contents(r.tables)
        /\ \A n \in DOMAIN tables : n # z => tables'[n] = tables[n]
        BY <2>1, <2>4
  <2>6. Contents(r.tables) \subseteq Stored
        BY DEF Contents, Stored, Tabled
  <2>7. OnlyTable(z)
        BY <2>5 DEF OnlyTable
  <2>8. TableWritten(z)
        BY <1>1, <2>4, <2>5, <2>6, <2>7 DEF TableWritten
  <2>9. e \in Edit
        BY <2>2, <2>3, NoEditFacts DEF Edit, NoEdit
  <2>10. /\ edit' \in Edit
         /\ manifests'[current].edits = Append(manifests[current].edits, edit')
         /\ manifests'[current].synced = manifests[current].synced
         BY <1>2, <2>1, <2>9, LogAndApplyFacts
  <2>11. edit'.last = last_sequence
         BY <2>1, <2>9, LoggedLast
  <2> QED BY <2>8, <2>10, <2>11, TableNumbered
<1> QED BY <1>3, <1>4

\* DeleteObsoleteFiles adds no entry.
LEMMA DeleteAdds ==
    ASSUME NEW ms, NEW v, NEW L, NEW P, NEW R, DeleteObsoleteFiles(ms, v, L, P, R)
    PROVE  /\ DOMAIN tables' \subseteq DOMAIN tables /\ DOMAIN logs' \subseteq DOMAIN logs
           /\ \A n \in DOMAIN tables' : tables'[n] = tables[n]
           /\ \A n \in DOMAIN logs' : logs'[n] = logs[n]
           /\ \A S : Tabled(tables', S) \subseteq Tabled(tables, S)
           /\ AllLogged' \subseteq AllLogged
           /\ ~bg_error => /\ DOMAIN tables' \subseteq KeptTables(v, P, R)
                           /\ \A n \in DOMAIN logs' : n >= L
<1>1. /\ DOMAIN tables' \subseteq DOMAIN tables /\ DOMAIN logs' \subseteq DOMAIN logs
      /\ \A n \in DOMAIN tables' : tables'[n] = tables[n]
      /\ \A n \in DOMAIN logs' : logs'[n] = logs[n]
      /\ ~bg_error => /\ DOMAIN tables' \subseteq KeptTables(v, P, R)
                      /\ \A n \in DOMAIN logs' : n >= L
      BY DEF DeleteObsoleteFiles, Keep, KeptLogs
<1>2. \A S : Tabled(tables', S) \subseteq Tabled(tables, S)
      BY <1>1, FewerTabled
<1>3. AllLogged' \subseteq AllLogged
  <2>1. Logged(logs', DOMAIN logs') \subseteq Logged(logs, DOMAIN logs)
        BY <1>1, FewerLogged
  <2> QED BY <2>1 DEF AllLogged
<1> QED BY <1>1, <1>2, <1>3

\* A version is installed.
LEMMA InstallNumbered ==
    ASSUME Inv, Inv', Numbered, InstallFlush \/ InstallMerge PROVE Numbered'
<1>1. /\ bg.pc = "sync" /\ imm' \subseteq imm
      /\ UNCHANGED <<current, phase, mem, group, request, last_sequence>>
      BY DEF InstallFlush, InstallMerge, phaseVars, memVars
<1>2. Running /\ Running' /\ current # 0
      BY <1>1, ThreadRuns DEF Running
<1>3. pc' = SignalAll
      BY <1>2, AfterFlushFacts DEF InstallFlush, InstallMerge, EndCall
<1>4. \E ms, v, L, P, R : DeleteObsoleteFiles(ms, v, L, P, R)
      BY DEF InstallFlush, InstallMerge
<1>5. /\ DOMAIN tables' \subseteq DOMAIN tables
      /\ \A S : Tabled(tables', S) \subseteq Tabled(tables, S)
      /\ AllLogged' \subseteq AllLogged
      BY <1>4, DeleteAdds
<1>6. Stored' \subseteq Stored
  <2>1. Tabled(tables', DOMAIN tables') \subseteq Tabled(tables, DOMAIN tables)
    <3>1. Tabled(tables, DOMAIN tables') \subseteq Tabled(tables, DOMAIN tables)
          BY <1>5, EntryPlaces
    <3> QED BY <1>5, <3>1
  <2> QED BY <1>1, <2>1 DEF Stored
<1>7. Installed
  <2>1. CASE InstallFlush
    <3>1. bg' \in Job
          BY <1>2, <2>1, AfterFlushFacts DEF InstallFlush
    <3>2. Installs
          BY <1>3, <2>1, <3>1, InstallPromotes DEF InstallFlush, Installs, boundVars
    <3> QED BY <3>2, InstallFacts
  <2>2. CASE InstallMerge
    <3>1. bg' \in Job
          BY <2>2, EndCallFacts DEF InstallMerge
    <3>2. Installs
          BY <1>3, <2>2, <3>1, InstallPromotes DEF InstallMerge, Installs, boundVars, memVars
    <3> QED BY <3>2, InstallFacts
  <2> QED BY <2>1, <2>2
<1>8. EndsUpTo'
  <2> PICK m : m = manifests[current]
      OBVIOUS
  <2> PICK m2 : m2 = manifests'[current]
      OBVIOUS
  <2>1. m2.edits = m.edits /\ Ends(m2) \subseteq Ends(m)
        BY <1>7 DEF Installed
  <2>2. \A k \in Ends(m) : k > 0 => UpTo(Tabled(tables, After(m.edits, k)), m.edits[k].last)
        BY <1>2 DEF Numbered, EndsUpTo
  <2>3. \A k \in Ends(m2) : k > 0 => UpTo(Tabled(tables', After(m2.edits, k)), m2.edits[k].last)
        BY <1>5, <2>1, <2>2 DEF UpTo
  <2> QED BY <1>1, <2>3 DEF EndsUpTo
<1>9. \A e : Underway(e) => Underway(e)'
      BY <1>1, <1>3, SameGroup
<1>10. last_sequence' >= last_sequence
       BY <1>1, EntryTypes
<1>11. Stays
       BY <1>1, <1>2, <1>5, <1>6, <1>8, <1>9, <1>10 DEF Stays
<1> QED BY <1>11, StaysNumbered

\* In whatever a recovery would read now a number names one write.
LEMMA EndsAreUnique ==
    ASSUME Inv, Numbered, current # 0, NEW k \in Ends(manifests[current]), k > 0
    PROVE  /\ Unique(Tabled(tables, After(manifests[current].edits, k))
                     \union Logged(logs, From(logs, manifests[current].edits[k].log)))
           /\ UpTo(Tabled(tables, After(manifests[current].edits, k)),
                   manifests[current].edits[k].last)
<1> PICK S : S = After(manifests[current].edits, k)
    OBVIOUS
<1> PICK L : L = manifests[current].edits[k].log
    OBVIOUS
<1>1. CASE ~Running
      BY <1>1 DEF Numbered, EndsUnique, EndsUpTo
<1>2. CASE Running
  <2>1. Tabled(tables, S) \subseteq Stored
    <3>1. Tabled(tables, S) \subseteq Tabled(tables, DOMAIN tables)
          BY EntryPlaces
    <3> QED BY <3>1 DEF Stored
  <2>2. Logged(logs, From(logs, L)) \subseteq AllLogged
        BY EntryPlaces DEF AllLogged
  <2>3. Tabled(tables, S) \union Logged(logs, From(logs, L)) \subseteq Stored \union AllLogged
        BY <2>1, <2>2
  <2>4. Unique(Stored \union AllLogged)
        BY <1>2 DEF Numbered, Numbering
  <2>5. Unique(Tabled(tables, S) \union Logged(logs, From(logs, L)))
        BY <2>3, <2>4, Fewer
  <2> QED BY <2>5 DEF Numbered, EndsUpTo
<1> QED BY <1>1, <1>2

\* The memory is lost: the parts about it hold.
LEMMA LostNumbered ==
    ASSUME MemoryLost, EndsUpTo', EndsUnique' PROVE Numbered'
<1>1. ~Running' /\ ~Recovering'
      BY DEF MemoryLost, Running, Recovering
<1> QED BY <1>1 DEF Numbered, Replaying, Numbering

\* The database is closed, or its process ends.
LEMMA ProcessEndsNumbered ==
    ASSUME Inv, Inv', Numbered, Closed \/ ProcessCrash PROVE Numbered'
<1>1. MemoryLost /\ UNCHANGED <<logs, tables, manifests, current>>
      BY DEF Closed, ProcessCrash, diskVars
<1>2. EndsUpTo'
      BY <1>1, SameEntries DEF Numbered
<1>3. EndsUnique'
  <2>1. CASE current = 0
        BY <1>1, <2>1 DEF Numbered, EndsUnique
  <2>2. CASE current # 0
    <3>1. \A k \in Ends(manifests[current]) :
             k > 0 => Unique(Tabled(tables, After(manifests[current].edits, k))
                             \union Logged(logs, From(logs, manifests[current].edits[k].log)))
          BY <2>2, EndsAreUnique
    <3> QED BY <1>1, <2>2, <3>1 DEF EndsUnique
  <2> QED BY <2>1, <2>2
<1> QED BY <1>1, <1>2, <1>3, LostNumbered

\* What is left of a log after a crash was in it before.
LEMMA CutEntries ==
    ASSUME NEW g \in Log, g.synced <= Len(g.recs), NEW k \in g.synced .. Len(g.recs),
           NEW g2, g2 = [recs |-> SubSeq(g.recs, 1, k), synced |-> k]
    PROVE  EntriesOf(g2) \subseteq EntriesOf(g)
<1>1. g.recs \in Seq(FiniteEntries) /\ g.synced \in Nat /\ Len(g.recs) \in Nat
      BY DEF Log
<1>2. k \in Nat /\ k <= Len(g.recs)
      BY <1>1
<1> PICK s : s = SubSeq(g.recs, 1, k)
    OBVIOUS
<1>3. DOMAIN s = 1 .. k /\ \A i \in 1 .. k : i \in DOMAIN g.recs /\ s[i] = g.recs[i]
      BY <1>1, <1>2
<1>4. g2.recs = s
      OBVIOUS
<1> QED BY <1>3, <1>4, EntryPlaces

\* The machine stops.
LEMMA MachineCrashNumbered ==
    ASSUME Inv, Inv', Numbered, MachineCrash PROVE Numbered'
<1>1. MemoryLost /\ UNCHANGED <<tables, current>>
      BY DEF MachineCrash
<1>2. PICK keep :
         /\ \A n \in DOMAIN logs : keep[n] \in logs[n].synced .. Len(logs[n].recs)
         /\ logs' = [n \in DOMAIN logs |->
                        [recs |-> SubSeq(logs[n].recs, 1, keep[n]), synced |-> keep[n]]]
      BY DEF MachineCrash, Cut
<1>3. PICK left :
         manifests' = [n \in DOMAIN manifests |->
             LET m == manifests[n]
                 k == IF left \in m.synced .. Len(m.edits) THEN left ELSE Len(m.edits)
             IN  [edits |-> SubSeq(m.edits, 1, k), synced |-> k]]
      BY DEF MachineCrash, Cut
<1>4. /\ DOMAIN logs' = DOMAIN logs
      /\ \A n \in DOMAIN logs : EntriesOf(logs'[n]) \subseteq EntriesOf(logs[n])
  <2>1. DOMAIN logs' = DOMAIN logs
        BY <1>2
  <2>2. ASSUME NEW n \in DOMAIN logs PROVE EntriesOf(logs'[n]) \subseteq EntriesOf(logs[n])
    <3>1. PICK g2 : g2 = logs'[n]
          OBVIOUS
    <3>2. PICK g : g = logs[n]
          OBVIOUS
    <3>3. PICK k : k = keep[n]
          OBVIOUS
    <3>4. g \in Log /\ g.synced <= Len(g.recs) /\ k \in g.synced .. Len(g.recs)
          /\ g2 = [recs |-> SubSeq(g.recs, 1, k), synced |-> k]
          BY <1>2, <3>1, <3>2, <3>3 DEF Inv, Typed, LogsType
    <3> QED BY <3>1, <3>2, <3>4, CutEntries
  <2> QED BY <2>1, <2>2
<1>5. CASE current = 0
  <2>1. EndsUpTo' /\ EndsUnique'
        BY <1>1, <1>4, <1>5 DEF Numbered, EndsUpTo, EndsUnique
  <2> QED BY <1>1, <2>1, LostNumbered
<1>6. CASE current # 0
  <2> PICK m : m = manifests[current]
      OBVIOUS
  <2> PICK m2 : m2 = manifests'[current]
      OBVIOUS
  <2>1. /\ current \in DOMAIN manifests /\ m \in Manifest /\ m.synced <= Len(m.edits)
        /\ m.edits \in Seq(Edit) /\ m.synced \in Nat /\ Len(m.edits) \in Nat
        /\ Ends(m) \subseteq 0 .. Len(m.edits) /\ Len(m.edits) \in Ends(m)
        BY <1>6, CurrentFacts
  <2>2. PICK k : k = IF left \in m.synced .. Len(m.edits) THEN left ELSE Len(m.edits)
        OBVIOUS
  <2>3. k \in Ends(m)
        BY <2>1, <2>2 DEF Ends
  <2>4. m2 = [edits |-> SubSeq(m.edits, 1, k), synced |-> k]
        BY <1>3, <2>1, <2>2
  <2>5. m2.edits = SubSeq(m.edits, 1, k) /\ m2.synced = k
        BY <2>1, <2>3, <2>4, ManifestCut
  <2>6. /\ Len(m2.edits) = k /\ (\A i \in 1 .. k : m2.edits[i] = m.edits[i])
        /\ After(m2.edits, k) = After(m.edits, k) /\ k \in Nat
        BY <2>1, <2>3, <2>5, AfterCut
  <2>7. Ends(m2) = {k}
        BY <2>5, <2>6 DEF Ends
  <2>8. k > 0 => /\ m2.edits[k] = m.edits[k]
                 /\ Unique(Tabled(tables, After(m.edits, k))
                           \union Logged(logs, From(logs, m.edits[k].log)))
                 /\ UpTo(Tabled(tables, After(m.edits, k)), m.edits[k].last)
        BY <1>6, <2>3, <2>6, EndsAreUnique
  <2>9. \A L : Logged(logs', From(logs', L)) \subseteq Logged(logs, From(logs, L))
    <3>1. \A L : From(logs', L) = From(logs, L) /\ From(logs, L) \subseteq DOMAIN logs
          BY <1>4 DEF From
    <3> QED BY <1>4, <3>1, FewerLogged
  <2>10. ASSUME NEW j \in Ends(m2), j > 0
         PROVE  /\ Unique(Tabled(tables, After(m2.edits, j))
                          \union Logged(logs', From(logs', m2.edits[j].log)))
                /\ UpTo(Tabled(tables, After(m2.edits, j)), m2.edits[j].last)
    <3>1. j = k /\ k > 0
          BY <2>7, <2>10
    <3>2. PICK L : L = m.edits[k].log
          OBVIOUS
    <3>3. Tabled(tables, After(m.edits, k)) \union Logged(logs', From(logs', L))
             \subseteq Tabled(tables, After(m.edits, k)) \union Logged(logs, From(logs, L))
          BY <2>9
    <3>4. Unique(Tabled(tables, After(m.edits, k)) \union Logged(logs', From(logs', L)))
          BY <2>8, <3>1, <3>2, <3>3, Fewer
    <3> QED BY <2>6, <2>8, <3>1, <3>2, <3>4
  <2>11. EndsUpTo' /\ EndsUnique'
         BY <1>1, <1>6, <2>10 DEF EndsUpTo, EndsUnique
  <2> QED BY <1>1, <2>11, LostNumbered
<1> QED BY <1>5, <1>6

\* While the database is down or being opened only the files matter.
LEMMA OpeningNumbered ==
    ASSUME ~Running', EndsUpTo', EndsUnique', Recovering' => Replaying' PROVE Numbered'
BY DEF Numbered, Numbering, Replaying

\* NewDB: the first manifest has no tables, and there are no logs.
LEMMA NewDBNumbered ==
    ASSUME Inv, Numbered, NewDB PROVE Numbered'
<1> PICK e : e = [NoEdit EXCEPT !.next = 2]
    OBVIOUS
<1> PICK m : m = [edits |-> <<e>>, synced |-> 0]
    OBVIOUS
<1>1. /\ phase' = "down" /\ current = 0 /\ manifests' = Put(manifests, 1, m) /\ current' = 1
      /\ UNCHANGED <<logs, tables>>
      BY DEF NewDB, phaseVars
<1>2. ~Running' /\ ~Recovering'
      BY <1>1 DEF Running, Recovering
<1>3. Ends(m) = {0, 1} /\ After(m.edits, 0) = {} /\ After(m.edits, 1) = {}
      BY FirstManifest
<1>4. manifests'[current'] = m
      BY <1>1 DEF Put
<1>5. DOMAIN logs = {}
      BY <1>1 DEF Numbered, EndsUnique
<1>6. Tabled(tables, {}) = {} /\ \A L : Logged(logs, From(logs, L)) = {}
      BY <1>5 DEF Tabled, Logged
<1>7. EndsUpTo' /\ EndsUnique'
      BY <1>1, <1>3, <1>4, <1>6 DEF EndsUpTo, EndsUnique, UpTo, Unique
<1> QED BY <1>2, <1>7, OpeningNumbered

\* createDB deletes all files.
LEMMA PurgeNumbered ==
    ASSUME Inv, Numbered, OpenDamaged \/ OpenFails PROVE Numbered'
<1>1. phase' = "down" /\ current' = 0 /\ DOMAIN logs' = {}
      BY PurgeFacts DEF OpenDamaged, OpenFails, MemoryLost, phaseVars
<1>2. ~Running' /\ ~Recovering'
      BY <1>1 DEF Running, Recovering
<1>3. EndsUpTo' /\ EndsUnique'
      BY <1>1, <1>2 DEF EndsUpTo, EndsUnique
<1> QED BY <1>2, <1>3, OpeningNumbered

\* VersionSet::Recover takes the last number from the manifest.
LEMMA RecoverNumbered ==
    ASSUME Inv, Inv', Numbered, Recover PROVE Numbered'
<1> PICK m : m = manifests[current]
    OBVIOUS
<1> PICK N : N = Len(m.edits)
    OBVIOUS
<1>1. /\ phase = "down" /\ current # 0 /\ ~Damaged /\ phase' = "replay"
      /\ last_sequence' = Last(m.edits).last /\ replay' = From(logs, Last(m.edits).log)
      /\ version' = Replay(m.edits)
      /\ UNCHANGED <<logs, tables, manifests, current, edit>>
      BY DEF Recover, diskVars, bgVars, From
<1>2. ~Running /\ ~Running'
      BY <1>1 DEF Running
<1>3. Last(m.edits) = m.edits[N]
      BY DEF Last
<1>4. N \in Nat /\ N \in Ends(m) /\ m.edits \in Seq(Edit)
      BY <1>1, CurrentFacts
<1>5. N > 0
  <2>1. m.edits # <<>>
        BY <1>1 DEF Damaged
  <2> QED BY <1>4, <2>1
<1>6. TablesOf(version') \union edit'.add0 = After(m.edits, N)
  <2>1. edit'.add0 = {}
        BY <1>1, <1>2, NoEditFacts DEF Inv, Idle
  <2> QED BY <1>1, <1>4, <2>1, AfterAll
<1>7. /\ Unique(Tabled(tables, After(m.edits, N)) \union Logged(logs, From(logs, m.edits[N].log)))
      /\ UpTo(Tabled(tables, After(m.edits, N)), m.edits[N].last)
      BY <1>1, <1>4, <1>5, EndsAreUnique
<1>8. Replaying'
      BY <1>1, <1>3, <1>6, <1>7 DEF Replaying
<1>9. EndsUpTo' /\ EndsUnique'
      BY <1>1, <1>2 DEF Numbered, EndsUpTo, EndsUnique
<1> QED BY <1>2, <1>8, <1>9, OpeningNumbered

\* The oldest log that is left becomes a table, and its numbers count.
LEMMA RecoverLogFileNumbered ==
    ASSUME Inv, Inv', Numbered, RecoverLogFile PROVE Numbered'
<1> PICK n : n = Min(replay)
    OBVIOUS
<1> PICK E : E = UNION Range(logs[n].recs)
    OBVIOUS
<1> PICK z : z = next_file_number
    OBVIOUS
<1> PICK table : table = IF E = {} THEN {} ELSE {z}
    OBVIOUS
<1> PICK S : S = TablesOf(version) \union edit.add0
    OBVIOUS
<1> PICK l : l = last_sequence
    OBVIOUS
<1> PICK l2 : l2 = last_sequence'
    OBVIOUS
<1>1. /\ phase = "replay" /\ phase' = "replay" /\ replay # {} /\ replay' = replay \ {n}
      /\ tables' = [t \in DOMAIN tables \union table |-> IF t \in table THEN E ELSE tables[t]]
      /\ edit' = [edit EXCEPT !.add0 = @ \union table]
      /\ l2 = Max({e.seq : e \in E} \union {l})
      /\ UNCHANGED <<logs, manifests, current, version>>
      BY DEF RecoverLogFile
<1>2. ~Running /\ ~Running' /\ Recovering /\ phase # "down" /\ current # 0
      BY <1>1 DEF Running, Recovering, Inv, Numbers
<1>3. /\ replay \subseteq DOMAIN logs /\ n \in replay /\ logs[n] \in Log
  <2>1. replay \subseteq DOMAIN logs /\ replay \subseteq Nat /\ logs \in [DOMAIN logs -> Log]
        BY <1>2 DEF Inv, Typed, Numbers, LogsType
  <2>2. n \in replay
        BY <1>1, <2>1, MinIsMember
  <2> QED BY <2>1, <2>2
<1>4. E \subseteq Entry /\ IsFiniteSet(E)
      BY <1>3, LogEntries
<1>5. E \subseteq Logged(logs, replay)
  <2>1. E = EntriesOf(logs[n])
        BY DEF EntriesOf, Range
  <2> QED BY <1>3, <2>1, EntryPlaces
<1>6. l \in Nat /\ l2 \in Nat /\ l <= l2 /\ \A e \in E : e.seq <= l2
  <2>1. l \in Nat
        BY DEF Inv, Typed, NumbersType
  <2> QED BY <1>1, <1>4, <2>1, GreatestSequence
<1>7. z \in Nat /\ ~(z < z)
      BY DEF Inv, Typed, NumbersType
<1>8. z \notin S /\ S \subseteq DOMAIN tables
      BY <1>2, <1>7 DEF Inv, Numbers, Recovered
<1>9. /\ DOMAIN tables' = DOMAIN tables \union table /\ table \subseteq {z}
      /\ \A t \in DOMAIN tables : t # z => tables'[t] = tables[t]
      /\ table # {} => tables'[z] = E
      BY <1>1
<1>10. TablesOf(version') \union edit'.add0 = S \union table
  <2>1. edit \in Edit
        BY DEF Inv, Typed, MemoryType
  <2>2. edit'.add0 = edit.add0 \union table
        BY <1>1, <2>1 DEF Edit
  <2> QED BY <1>1, <2>2
<1>11. Tabled(tables', S \union table) \subseteq Tabled(tables, S) \union E
  <2> SUFFICES ASSUME NEW e \in Tabled(tables', S \union table), e \notin E
               PROVE  e \in Tabled(tables, S)
      OBVIOUS
  <2>1. PICK t \in S \union table : t \in DOMAIN tables' /\ e \in tables'[t]
        BY EntryPlaces
  <2>2. t \in S /\ t # z
        BY <1>8, <1>9, <2>1
  <2>3. t \in DOMAIN tables /\ e \in tables[t]
        BY <1>8, <1>9, <2>1, <2>2
  <2> QED BY <2>2, <2>3, EntryPlaces
<1>12. /\ Unique(Tabled(tables, S) \union Logged(logs, replay))
       /\ UpTo(Tabled(tables, S), l)
       BY <1>2 DEF Numbered, Replaying
<1>13. Unique(Tabled(tables', S \union table) \union Logged(logs, replay'))
  <2>1. Logged(logs, replay') \subseteq Logged(logs, replay)
        BY <1>1, EntryPlaces
  <2>2. Tabled(tables', S \union table) \union Logged(logs, replay')
           \subseteq Tabled(tables, S) \union Logged(logs, replay)
        BY <1>5, <1>11, <2>1
  <2> QED BY <1>12, <2>2, Fewer
<1>14. UpTo(Tabled(tables', S \union table), l2)
  <2> SUFFICES ASSUME NEW e \in Tabled(tables', S \union table) PROVE e.seq <= l2
      BY DEF UpTo
  <2>1. CASE e \in E
        BY <1>6, <2>1
  <2>2. CASE e \in Tabled(tables, S)
    <3>1. e.seq <= l
          BY <1>12, <2>2 DEF UpTo
    <3>2. e.seq \in Nat
          BY <2>2, EntryTypes
    <3> QED BY <1>6, <3>1, <3>2
  <2> QED BY <1>11, <2>1, <2>2
<1>15. Replaying'
  <2>1. phase' = "replay" /\ logs' = logs
        BY <1>1
  <2> QED BY <1>10, <1>13, <1>14, <2>1 DEF Replaying
<1> PICK m : m = manifests[current]
    OBVIOUS
<1>16. ASSUME NEW k \in Ends(m), k > 0
       PROVE  Tabled(tables', After(m.edits, k)) = Tabled(tables, After(m.edits, k))
  <2> PICK T : T = After(m.edits, k)
      OBVIOUS
  <2>1. z \notin T
        BY <1>2, <1>7 DEF Inv, Numbers
  <2>2. \A t \in T : (t \in DOMAIN tables' <=> t \in DOMAIN tables)
                     /\ (t \in DOMAIN tables => tables'[t] = tables[t])
        BY <1>9, <2>1
  <2>3. \A e : e \in Tabled(tables', T) <=> e \in Tabled(tables, T)
        BY <2>2, EntryPlaces
  <2> QED BY <2>3
<1>17. EndsUpTo' /\ EndsUnique'
  <2>1. \A k \in Ends(m) : k > 0 => UpTo(Tabled(tables', After(m.edits, k)), m.edits[k].last)
        BY <1>2, <1>16 DEF Numbered, EndsUpTo
  <2>2. \A k \in Ends(m) :
           k > 0 => Unique(Tabled(tables', After(m.edits, k))
                           \union Logged(logs, From(logs, m.edits[k].log)))
        BY <1>2, <1>16 DEF Numbered, EndsUnique
  <2> QED BY <1>1, <1>2, <2>1, <2>2 DEF EndsUpTo, EndsUnique
<1> QED BY <1>2, <1>15, <1>17, OpeningNumbered

\* DB::Open makes a new log, which is empty.
LEMMA NewLogNumbered ==
    ASSUME Inv, Inv', Numbered, NewLog PROVE Numbered'
<1> PICK z : z = next_file_number
    OBVIOUS
<1>1. /\ phase = "replay" /\ replay = {} /\ replay' = {} /\ phase' = "recovered"
      /\ logs' = Put(logs, z, [recs |-> <<>>, synced |-> 0])
      /\ logfile_number' = z /\ next_file_number' = z + 1
      /\ edit' = [edit EXCEPT !.log = z, !.next = z + 1, !.last = last_sequence]
      /\ UNCHANGED <<tables, manifests, current, version, last_sequence>>
      BY DEF NewLog
<1>2. ~Running /\ ~Running' /\ Recovering /\ phase # "down" /\ current # 0
      BY <1>1 DEF Running, Recovering, Inv, Numbers
<1>3. edit'.add0 = edit.add0 /\ edit'.last = last_sequence
  <2>1. edit \in Edit
        BY DEF Inv, Typed, MemoryType
  <2> QED BY <1>1, <2>1 DEF Edit
<1>4. logs'[z].recs = <<>>
      BY <1>1, NewLogEmpty
<1>5. Replaying'
  <2>1. /\ Unique(Tabled(tables, TablesOf(version) \union edit.add0) \union Logged(logs, {}))
        /\ UpTo(Tabled(tables, TablesOf(version) \union edit.add0), last_sequence)
        BY <1>1, <1>2 DEF Numbered, Replaying
  <2>2. Logged(logs', {}) = {} /\ Logged(logs, {}) = {}
        BY DEF Logged
  <2> QED BY <1>1, <1>3, <1>4, <2>1, <2>2 DEF Replaying
<1>6. \A L : Logged(logs', From(logs', L)) \subseteq Logged(logs, From(logs, L))
  <2> SUFFICES ASSUME NEW L, NEW e \in Logged(logs', From(logs', L))
               PROVE  e \in Logged(logs, From(logs, L))
      OBVIOUS
  <2>1. PICK n \in From(logs', L) : n \in DOMAIN logs' /\ e \in EntriesOf(logs'[n])
        BY EntryPlaces
  <2>2. n \in DOMAIN logs /\ e \in EntriesOf(logs[n])
        BY <1>1, <2>1, NewLogEmpty
  <2>3. n \in From(logs, L)
        BY <2>1, <2>2 DEF From
  <2> QED BY <2>2, <2>3, EntryPlaces
<1> PICK m : m = manifests[current]
    OBVIOUS
<1>7. ASSUME NEW k \in Ends(m), k > 0
      PROVE  Unique(Tabled(tables, After(m.edits, k))
                    \union Logged(logs', From(logs', m.edits[k].log)))
  <2> PICK L : L = m.edits[k].log
      OBVIOUS
  <2> PICK F : F = Tabled(tables, After(m.edits, k))
      OBVIOUS
  <2>1. Unique(F \union Logged(logs, From(logs, L)))
        BY <1>2, <1>7 DEF Numbered, EndsUnique
  <2>2. F \union Logged(logs', From(logs', L)) \subseteq F \union Logged(logs, From(logs, L))
        BY <1>6
  <2>3. Unique(F \union Logged(logs', From(logs', L)))
        BY <2>1, <2>2, Fewer
  <2> QED BY <2>3
<1>8. EndsUpTo' /\ EndsUnique'
      BY <1>1, <1>2, <1>7 DEF Numbered, EndsUpTo, EndsUnique
<1> QED BY <1>2, <1>5, <1>8, OpeningNumbered

\* Manifest m is a snapshot that a recovery can start from.
SnapshotNumbered(m) ==
    \A k \in Ends(m) :
        /\ Unique(Tabled(tables, After(m.edits, k)) \union Logged(logs, From(logs, m.edits[k].log)))
        /\ UpTo(Tabled(tables, After(m.edits, k)), m.edits[k].last)

\* The newest log, the only one that a snapshot still needs, is empty.
LEMMA SnapshotIsNumbered ==
    ASSUME Inv, Numbered, Recovering, phase # "replay"
    PROVE  /\ Logged(logs, From(logs, edit.log)) = {}
           /\ \A m : Snapshot(m) => SnapshotNumbered(m)
<1> PICK S : S = TablesOf(version) \union edit.add0
    OBVIOUS
<1>1. /\ phase # "down" /\ replay = {} /\ DOMAIN logs \subseteq Nat /\ logfile_number \in Nat
      /\ (\A n \in DOMAIN logs : n < next_file_number)
      BY DEF Recovering, Inv, Typed, Numbers, LogsType, NumbersType
<1>2. /\ next_file_number = logfile_number + 1 /\ logs[logfile_number].recs = <<>>
      /\ edit.last = last_sequence /\ edit.log = logfile_number
      BY DEF Numbered, Replaying, Inv, Recovered
<1>3. Unique(Tabled(tables, S) \union Logged(logs, {})) /\ UpTo(Tabled(tables, S), last_sequence)
      BY <1>1 DEF Numbered, Replaying
<1>4. ASSUME NEW e \in Logged(logs, From(logs, edit.log)) PROVE FALSE
  <2>1. PICK n \in DOMAIN logs : n >= edit.log /\ e \in EntriesOf(logs[n])
        BY <1>4, EntryPlaces DEF From
  <2>2. n \in Nat /\ n < logfile_number + 1 /\ n >= logfile_number
        BY <1>1, <1>2, <2>1
  <2>3. n = logfile_number
        BY <1>1, <2>2
  <2>4. DOMAIN logs[n].recs = {}
        BY <1>2, <2>3
  <2> QED BY <2>1, <2>4, EntryPlaces
<1>5. Logged(logs, From(logs, edit.log)) = {} /\ Logged(logs, {}) = {}
      BY <1>4 DEF Logged
<1>6. ASSUME NEW m, Snapshot(m) PROVE SnapshotNumbered(m)
  <2>1. Ends(m) = {2} /\ m.edits[2] = edit /\ After(m.edits, 2) = S
        BY <1>6 DEF Snapshot, Ends
  <2> QED BY <1>2, <1>3, <1>5, <2>1 DEF SnapshotNumbered
<1> QED BY <1>5, <1>6

\* LogAndApply writes a new manifest, and CURRENT names it.
LEMMA SnapshotStepNumbered ==
    ASSUME Inv, Inv', Numbered, WriteSnapshot \/ SetCurrentFile PROVE Numbered'
<1>1. /\ phase \in {"recovered", "manifest"} /\ phase' \in {"manifest", "current"}
      /\ UNCHANGED <<logs, tables, replay, logfile_number, next_file_number>>
      /\ UNCHANGED <<manifest_file_number, version, last_sequence, edit>>
      BY DEF WriteSnapshot, SetCurrentFile, memVars, versionVars, bgVars
<1>2. /\ ~Running /\ ~Running' /\ Recovering /\ Recovering' /\ phase # "replay"
      /\ phase' # "replay" /\ current # 0 /\ current' # 0
      BY <1>1 DEF Running, Recovering, Inv, Numbers
<1>3. Replaying'
      BY <1>1, <1>2 DEF Numbered, Replaying
<1> PICK f : f = manifest_file_number
    OBVIOUS
<1> PICK m : m = manifests'[f]
    OBVIOUS
<1>4. Snapshot(m)
      BY <1>1, <1>2 DEF Inv, Recovered, Snapshot
<1>5. SnapshotNumbered(m)
      BY <1>2, <1>4, SnapshotIsNumbered
<1>6. manifests'[current'] = m \/ (current' = current /\ manifests'[current] = manifests[current])
  <2>1. CASE SetCurrentFile
        BY <2>1 DEF SetCurrentFile
  <2>2. CASE WriteSnapshot
    <3>1. current \in DOMAIN manifests
          BY <1>2, CurrentFacts
    <3> QED BY <2>2, <3>1 DEF WriteSnapshot, Put
  <2> QED BY <2>1, <2>2
<1>7. CASE manifests'[current'] = m
  <2>1. EndsUpTo' /\ EndsUnique'
        BY <1>1, <1>2, <1>5, <1>7 DEF EndsUpTo, EndsUnique, SnapshotNumbered
  <2> QED BY <1>2, <1>3, <2>1, OpeningNumbered
<1>8. CASE current' = current /\ manifests'[current] = manifests[current]
  <2>1. EndsUpTo' /\ EndsUnique'
        BY <1>1, <1>2, <1>8 DEF EndsUpTo, EndsUnique, Numbered
  <2> QED BY <1>2, <1>3, <2>1, OpeningNumbered
<1> QED BY <1>6, <1>7, <1>8

\* The database is open with the tables of the recovery, an empty memtable and
\* an empty log.
LEMMA OpenNumbered ==
    ASSUME Inv, Inv', Numbered, Open PROVE Numbered'
<1> PICK m : m = manifests[current]
    OBVIOUS
<1> PICK v : v = Apply(version, edit)
    OBVIOUS
<1> PICK L : L = edit.log
    OBVIOUS
<1> PICK S : S = TablesOf(version) \union edit.add0
    OBVIOUS
<1>1. /\ phase = "current" /\ phase' = "open" /\ DeleteObsoleteFiles(manifests, v, L, {}, {})
      /\ UNCHANGED <<current, mem, imm, last_sequence>>
      BY DEF Open, memVars
<1>2. /\ ~Running /\ Running' /\ Recovering /\ ~Recovering' /\ phase # "replay"
      /\ current # 0 /\ current' # 0
      BY <1>1 DEF Running, Recovering, Inv, Numbers
<1>3. /\ iterators = {} /\ mem = {} /\ imm = {} /\ bg_error = FALSE /\ edit.del = {}
      /\ edit.add1 = {}
      BY <1>2, NobodyWrites
<1>4. TablesOf(v) = S
  <2>1. version \in Version /\ edit \in Edit
        BY DEF Inv, Typed, MemoryType
  <2> QED BY <1>3, <2>1, ApplyTables
<1>5. /\ DOMAIN tables' \subseteq S /\ DOMAIN logs' \subseteq DOMAIN logs
      /\ (\A n \in DOMAIN logs' : logs'[n] = logs[n] /\ n >= L)
      /\ (\A T : Tabled(tables', T) \subseteq Tabled(tables, T))
  <2>1. KeptTables(v, {}, {}) = S
        BY <1>3, <1>4 DEF KeptTables
  <2> QED BY <1>1, <1>3, <2>1, DeleteAdds
<1>6. AllLogged' = {}
  <2>1. DOMAIN logs' \subseteq From(logs, L)
        BY <1>5 DEF From
  <2>2. Logged(logs', DOMAIN logs') \subseteq Logged(logs, From(logs, L))
        BY <1>5, <2>1, FewerLogged
  <2> QED BY <1>2, <2>2, SnapshotIsNumbered DEF AllLogged
<1>7. Stored' \subseteq Tabled(tables, S)
  <2>1. Tabled(tables', DOMAIN tables') \subseteq Tabled(tables, DOMAIN tables')
        BY <1>5
  <2>2. Tabled(tables, DOMAIN tables') \subseteq Tabled(tables, S)
        BY <1>5, EntryPlaces
  <2> QED BY <1>1, <1>3, <2>1, <2>2 DEF Stored
<1>8. /\ Unique(Tabled(tables, S) \union Logged(logs, replay))
      /\ UpTo(Tabled(tables, S), last_sequence)
      BY <1>2 DEF Numbered, Replaying
<1>9. Unique(Stored' \union AllLogged') /\ UpTo(Stored', last_sequence)
  <2>1. Stored' \union AllLogged' \subseteq Tabled(tables, S) \union Logged(logs, replay)
        BY <1>6, <1>7
  <2> QED BY <1>7, <1>8, <2>1, Fewer
<1>10. Numbering'
       BY <1>1, <1>6, <1>9 DEF Numbering, Unique, UpTo
<1>11. EndsUpTo'
  <2>1. Snapshot(m) /\ current = manifest_file_number
        BY <1>1, <1>2 DEF Inv, Recovered, Snapshot
  <2>2. SnapshotNumbered(m)
        BY <1>2, <2>1, SnapshotIsNumbered
  <2>3. manifests'[current] = m
    <3>1. current \in DOMAIN manifests /\ current \in DOMAIN manifests'
          BY <1>1, <1>2, CurrentFacts DEF Inv, Disk
    <3> QED BY <1>1, <3>1 DEF DeleteObsoleteFiles, Keep
  <2>4. \A k \in Ends(m) : UpTo(Tabled(tables', After(m.edits, k)), m.edits[k].last)
        BY <1>5, <2>2 DEF SnapshotNumbered, UpTo
  <2> QED BY <1>1, <2>3, <2>4 DEF EndsUpTo
<1>12. EndsUnique' /\ Replaying'
       BY <1>2 DEF EndsUnique, Replaying
<1> QED BY <1>10, <1>11, <1>12 DEF Numbered

\* The numbers are as they should be before the first open.
LEMMA InitNumbered ==
    ASSUME Init PROVE Numbered
<1>1. ~Running /\ ~Recovering /\ current = 0 /\ DOMAIN logs = {}
      BY DEF Init, Running, Recovering
<1> QED BY <1>1 DEF Numbered, EndsUpTo, EndsUnique, Replaying, Numbering

\* Every step keeps them.
LEMMA NextNumbered ==
    ASSUME Inv, Inv', Numbered, Next PROVE Numbered'
<1>1. ASSUME NEW w \in Writers,
             \/ Write(w) \/ WriterStep(w)
             \/ AddRecordFails(w) \/ SyncLogFails(w) \/ RoomSwitchFails(w)
      PROVE  Numbered'
      BY <1>1, WriteNumbered, RoomNumbered, SwitchNumbered, AddRecordNumbered,
         SyncLogNumbered, SyncFailsNumbered, InsertNumbered DEF WriterStep
<1>2. CASE BackgroundStep
      BY <1>2, TouchlessSteps, FlushNumbered, MergeNumbered, InstallNumbered DEF BackgroundStep
<1>3. CASE TableFails \/ MergeFails \/ SyncManifestFails \/ NewIterator \/ Close
      BY <1>3, TouchlessSteps
<1>4. ASSUME NEW i \in iterators, CleanupIteratorState(i) PROVE Numbered'
      BY <1>4, TouchlessSteps
<1>5. CASE Closed \/ ProcessCrash \/ MachineCrash \/ OpenFails
      BY <1>5, ProcessEndsNumbered, MachineCrashNumbered, PurgeNumbered
<1>6. CASE OpenStep
      BY <1>6, NewDBNumbered, PurgeNumbered, RecoverNumbered, RecoverLogFileNumbered,
         NewLogNumbered, SnapshotStepNumbered, OpenNumbered DEF OpenStep
<1> QED BY <1>1, <1>2, <1>3, <1>4, <1>5, <1>6 DEF Next

(***************************************************************************)
(* Sequence numbers are handed out and recovered as Numbered says, with    *)
(* any number of writers, failures and crashes (DBImpl::Write, Recover).   *)
(***************************************************************************)
THEOREM LevelDBNumbered == Spec => [](Inv /\ Numbered)
<1>1. Init => Inv /\ Numbered
      BY InitInv, InitNumbered
<1>2. (Inv /\ Numbered) /\ [Next]_vars => (Inv /\ Numbered)'
  <2> SUFFICES ASSUME Inv, Numbered, [Next]_vars PROVE Inv' /\ Numbered'
      OBVIOUS
  <2>1. CASE Next
        BY <2>1, NextInv, NextNumbered
  <2>2. CASE UNCHANGED vars
    <3>1. /\ UNCHANGED <<logs, tables, manifests, current, phase, replay, mem, imm>>
          /\ UNCHANGED <<group, request, pc, last_sequence, next_file_number>>
          /\ UNCHANGED <<logfile_number, version, edit>>
          BY <2>2 DEF vars, diskVars, phaseVars, queueVars, memVars, versionVars, bgVars
    <3>2. Stored' = Stored /\ AllLogged' = AllLogged /\ \A e : Underway(e) => Underway(e)'
          BY <3>1, SameEntries, SameGroup
    <3>3. EndsUpTo' /\ EndsUnique' /\ Replaying' /\ Numbering'
      <4>1. EndsUpTo' /\ EndsUnique'
            BY <3>1 DEF Numbered, EndsUpTo, EndsUnique, Running
      <4>2. Replaying'
            BY <3>1 DEF Numbered, Replaying, Recovering
      <4>3. Numbering'
            BY <3>1, <3>2 DEF Numbered, Numbering, Running
      <4> QED BY <4>1, <4>2, <4>3
    <3> QED BY <2>2, <3>3, StutterInv DEF Numbered
  <2> QED BY <2>1, <2>2
<1> QED BY <1>1, <1>2, PTL DEF Spec

(***************************************************************************)
(* In an open database a sequence number names one write, and none is      *)
(* above the last one that was handed out, whatever failed or crashed      *)
(* before (SequencesUnique).                                               *)
(***************************************************************************)
THEOREM LevelDBSequences == Spec => []SequencesUnique
<1>1. Inv /\ Numbered => SequencesUnique
  <2> SUFFICES ASSUME Inv, Numbered, phase = "open"
               PROVE  \A e, f \in Readable : /\ e.seq = f.seq => e.id = f.id
                                            /\ e.seq <= last_sequence
      BY DEF SequencesUnique
  <2>1. Unique(Stored \union AllLogged) /\ UpTo(Stored, last_sequence)
        BY DEF Numbered, Numbering, Running
  <2>2. Contents(TablesOf(version)) \subseteq Tabled(tables, DOMAIN tables)
        BY DEF Contents, Tabled
  <2>3. Readable \subseteq Stored
        BY <2>2 DEF Readable, Stored
  <2> QED BY <2>1, <2>3 DEF Unique, UpTo
<1> QED BY <1>1, LevelDBNumbered, PTL

=============================================================================
