------------------------ MODULE WorkspaceTreeProofs -------------------------
(***************************************************************************)
(* Proofs about WorkspaceTree, for any workspaces, clients and bounds: an  *)
(* acknowledged create or dataset change survives every power loss, a      *)
(* deleted workspace stays deleted, and a head reported current was        *)
(* trained on the dataset on disk.                                         *)
(*                                                                         *)
(* Nearly every action works on one workspace, so the inductive invariant  *)
(* is a conjunction over workspaces (Sound), and a workspace an action     *)
(* does not touch is dealt with once (FrameStep).  What the head publish   *)
(* holds between its read and its write of workspace.json is a part of its *)
(* own (Publishing).                                                       *)
(***************************************************************************)
EXTENDS WorkspaceTree, WellFoundedInduction, TLAPS

----------------------------------------------------------------------------
\* The inductive invariant.

Cored(m) == m # None /\ m.core # None

\* The workspaces whose cached revision the code keeps right.
Fine(w) == w \notin suspect /\ w \notin raced

\* A request of c is at one of these steps, on w.
On(c, pcs, w) == op[c].pc \in pcs /\ op[c].ws = w

BumpPcs == {"upCore", "tdTomb", "tdCore"}
WrittenPcs == {"upBytes", "upBytesSync", "tdStage", "tdSync"}
MovedPcs == {"upBytesSync", "tdSync"}
CorePcs == CreatePcs \cup PatchPcs \cup BumpPcs \cup WrittenPcs \cup {"getInsert"}

\* Between the rename of the bytes and the receipt.
Moved(w) == \E c \in Clients : On(c, MovedPcs, w)

\* Nothing runs while the daemon boots.
BootQuiet ==
    phase # "up" => /\ \A c \in Clients : op[c] = Idle
                    /\ train = NoTrain
                    /\ \A w \in Workspaces : cell[w] = None

\* A request names a workspace that was handed out, and carries a core from
\* the step that chose it to the last one that needs it.
OpsNamed ==
    /\ \A c \in Clients :
         /\ op[c].pc # "idle" => op[c].ws \in minted
         /\ op[c].pc = "idle" => op[c].ws = None
         /\ op[c].pc \in CorePcs => op[c].core # None
    /\ train.pc # "idle" => train.ws \in Workspaces
    /\ train.pc = "idle" => train.ws = None

\* The job registry admits one delete.
OneDelete ==
    \A c, d \in Clients :
        /\ op[c].pc \in TreeDeletePcs \cup WsDeletePcs
        /\ op[d].pc \in TreeDeletePcs \cup WsDeletePcs
        => c = d

\* No dataset number above B.
Below(B) ==
    /\ train.data <= B
    /\ \A w \in Workspaces :
         /\ acked[w] <= B
         /\ \A m \in treeMay[w] : m # None => m.data <= B
         /\ \A h \in heads[w] : h.data <= B

DataBounded == \E B \in Nat : Below(B)

InMay(w) == tree[w] \in treeMay[w]

\* The create of w is running and has not written workspace.json, or the id
\* has not been handed out: nobody else knows of it.
Unborn(w) == w \notin minted \/ \E c \in Clients : On(c, {"mkdir", "core"}, w)

Untouched(w) ==
    /\ cell[w] = None /\ heads[w] = {} /\ train.ws # w /\ acked[w] = 0
    /\ w \notin kept /\ w \notin doomed /\ w \notin deleted
    /\ w \notin raced /\ w \notin suspect /\ w \notin loose
    /\ \A m \in treeMay[w] : m = None \/ m = EmptyDir

Born(w) ==
    /\ Unborn(w) => Untouched(w)
    /\ \A c \in Clients : On(c, {"mkdir", "core"}, w) =>
         \A d \in Clients : op[d].ws = w => d = c
    /\ \A c \in Clients : On(c, {"core"}, w) => tree[w] = EmptyDir

\* What a power loss may leave of an acknowledged workspace is a workspace,
\* with the acknowledged dataset or a later one.
Durable(w) ==
    /\ w \in kept /\ w \notin doomed =>
         \A m \in treeMay[w] : m # None /\ m.core # None /\ m.data >= acked[w]
    /\ \A c \in Clients : On(c, {"dirSync"}, w) /\ w \notin doomed =>
         /\ tree[w] # None
         /\ \A m \in treeMay[w] : m # None => m.core # None /\ m.data >= acked[w]

\* A leased request keeps the workspace from being moved away.
Leased(w) ==
    /\ \A c, d \in Clients : ~(On(c, WsDeletePcs, w) /\ On(d, UploadLeased, w))
    /\ \A c \in Clients : On(c, UploadLeased \cup TreeDeletePcs, w) => Exists(w)

\* From the bump to the receipt a request owns the lock and the cell is
\* loaded, and no lock outlives its request.
Locked(w) ==
    /\ \A c \in Clients : On(c, BumpPcs \cup WrittenPcs, w) =>
         metaLock[w] = c /\ cell[w] # None
    /\ \A c \in Clients : metaLock[w] = c => op[c].ws = w

\* Nothing that could write workspace.json again outlives the move, except
\* a PATCH that had checked before.
Gone(w) ==
    /\ w \notin raced
    /\ w \in deleted \/ \E c \in Clients : On(c, {"wdSync", "wdEvict"}, w)
    => /\ ~Exists(w)
       /\ \A c \in Clients : ~On(c, PatchPcs, w)
       /\ w \in deleted \/ (\E c \in Clients : On(c, {"wdEvict"}, w))
            => \A m \in treeMay[w] : m = None \/ m.core = None

\* A PATCH has the workspace's lock and the cached revision in hand.
Patching(w) ==
    w \notin raced =>
      /\ \A c \in Clients : On(c, PatchPcs, w) => Exists(w)
      /\ \A c \in Clients : On(c, {"patchCore"}, w) =>
           /\ metaLock[w] = c /\ cell[w] # None
           /\ Fine(w) => op[c].core.rev = cell[w].rev

\* A core about to be inserted in an empty cell is the one on disk.
Inserting(w) ==
    w \notin raced =>
      \A c \in Clients : On(c, {"getInsert", "dirSync"}, w) =>
        cell[w] # None \/ ~Exists(w) \/ op[c].core = tree[w].core

\* Unless bytes are on the move or a folder's entry is not on disk, a power
\* loss does not change the dataset.
DataOne(w) ==
    Fine(w) /\ w \notin loose /\ Exists(w) /\ ~Moved(w) =>
      \A m \in treeMay[w] : m # None => m.data = tree[w].data

\* The cache is never ahead of the disk.
CellBelow(w) ==
    Fine(w) /\ Exists(w) =>
      \A m \in treeMay[w] : Cored(m) => CellOf(w).rev <= m.core.rev

\* The next revision, and its place on disk before any byte moves.
Bumping(w) ==
    Fine(w) =>
      /\ \A c \in Clients : On(c, BumpPcs \cup WrittenPcs, w) =>
           op[c].core.rev = cell[w].rev + 1
      /\ \A c \in Clients : On(c, WrittenPcs, w) =>
           \A m \in treeMay[w] : m # None => m.core = op[c].core

\* No head is ahead of the disk, and one at its revision has its dataset,
\* which for a dataset with an unsynced folder is said of the cache only.
HeadsBelow(w) ==
    Fine(w) =>
      \A m \in treeMay[w] : Cored(m) =>
        \A h \in heads[w] : /\ h.rev <= m.core.rev
                            /\ h.rev = m.core.rev /\ w \notin loose
                                 => h.data = m.data

\* The same of the cache.
HeadsCell(w) ==
    Fine(w) /\ Exists(w) =>
      \A h \in heads[w] :
        /\ h.rev <= CellOf(w).rev
        /\ ~Moved(w) /\ h.rev = CellOf(w).rev => h.data = tree[w].data

\* And of the head a training run is about to publish.
Training(w) ==
    train.pc # "idle" /\ train.ws = w /\ Fine(w) /\ Exists(w) =>
      /\ cell[w] # None /\ train.rev <= cell[w].rev
      /\ train.pc = "publish" /\ ~Moved(w) /\ train.rev = cell[w].rev
           => train.data = tree[w].data

Sound(w) ==
    /\ InMay(w) /\ Born(w) /\ Durable(w) /\ Leased(w) /\ Locked(w)
    /\ Gone(w) /\ Patching(w) /\ Inserting(w)
    /\ DataOne(w) /\ CellBelow(w) /\ Bumping(w)
    /\ HeadsBelow(w) /\ HeadsCell(w) /\ Training(w)

Inv ==
    /\ TypeOK /\ BootQuiet /\ OpsNamed /\ OneDelete /\ DataBounded
    /\ \A w \in Workspaces : Sound(w)

\* The head publish has the lock and the core on disk in hand, unless a
\* delete came between.
Publishing ==
    /\ \A w \in Workspaces :
         metaLock[w] = Trainer => train.pc = "core" /\ train.ws = w
    /\ train.pc = "core" =>
         /\ train.core # None
         /\ train.ws \notin raced =>
              /\ metaLock[train.ws] = Trainer /\ Exists(train.ws)
              /\ train.core = tree[train.ws].core

----------------------------------------------------------------------------
\* Numbers.

LEMMA LeastElement ==
  ASSUME NEW T, T \subseteq Nat, T # {}
  PROVE  \E x \in T : \A y \in T : x <= y
  <1>1. PICK x \in T : \A y \in T : ~ (<<y, x>> \in OpToRel(<, Nat))
    BY NatLessThanWellFounded, WFMin
  <1>2. \A y \in T : ~ (y < x)
    BY <1>1 DEF OpToRel
  <1> QED
    BY <1>2

\* A set of numbers with a bound has a largest.
LEMMA MaxFacts ==
  ASSUME NEW S \in SUBSET Nat, S # {}, NEW B \in Nat, \A x \in S : x <= B
  PROVE  Max(S) \in S /\ \A y \in S : y <= Max(S)
  <1> DEFINE Up == {b \in Nat : \A x \in S : x <= b}
  <1>1. PICK b \in Up : \A y \in Up : b <= y
    BY LeastElement, B \in Up, Up \subseteq Nat, Up # {}
  <1>2. b \in Nat /\ \A x \in S : x \in Nat /\ x <= b
    BY <1>1
  <1>3. b \in S
    <2> SUFFICES ASSUME b \notin S PROVE FALSE
      OBVIOUS
    <2>1. PICK x \in S : TRUE
      OBVIOUS
    <2>2. \A y \in S : y < b
      BY <1>2
    <2>3. b - 1 \in Nat /\ \A y \in S : y <= b - 1
      BY <2>1, <2>2, <1>2
    <2> QED
      BY <2>3, <1>1, <1>2
  <1> QED
    BY <1>2, <1>3 DEF Max

\* The next dataset number is above the acknowledged one, and one above a
\* bound at most.
LEMMA NextDataFacts ==
  ASSUME TypeOK, NEW B \in Nat, Below(B), NEW w \in Workspaces
  PROVE  /\ NextData(w) \in Nat /\ NextData(w) > acked[w]
         /\ NextData(w) <= B + 1
  <1> DEFINE D == {m.data : m \in treeMay[w] \ {None}}
             H == {h.data : h \in heads[w]}
             R == IF train.ws = w THEN {train.data} ELSE {}
             S == {0, acked[w]} \cup D \cup H \cup R
  <1>1. \A m \in treeMay[w] \ {None} : m.data \in Nat /\ m.data <= B
    BY DEF TypeOK, Below, Dirs
  <1>2. \A h \in heads[w] : h.data \in Nat /\ h.data <= B
    BY DEF TypeOK, Below
  <1>3. acked[w] \in Nat /\ acked[w] <= B /\ train.data \in Nat /\ train.data <= B
    BY DEF TypeOK, Below, Runs
  <1>4. \A x \in S : x \in Nat /\ x <= B
    BY <1>1, <1>2, <1>3
  <1>5. Max(S) \in S /\ \A y \in S : y <= Max(S)
    BY <1>4, MaxFacts, acked[w] \in S
  <1>6. Max(S) \in Nat /\ Max(S) <= B /\ acked[w] <= Max(S)
    BY <1>4, <1>5
  <1>7. NextData(w) = 1 + Max(S)
    BY DEF NextData
  <1> HIDE DEF S
  <1> QED
    BY <1>3, <1>6, <1>7

----------------------------------------------------------------------------
\* The disk.

LEMMA DirFields ==
  ASSUME NEW d \in Dirs
  PROVE  /\ d # None /\ d.data \in Nat /\ d.core \in Cores \cup {None}
         /\ \A k \in Cores \cup {None} : [d EXCEPT !.core = k] \in Dirs
         /\ \A k \in Cores \cup {None} : [d EXCEPT !.core = k].core = k
         /\ \A k \in Cores \cup {None} : [d EXCEPT !.core = k].data = d.data
         /\ \A v \in Nat : [d EXCEPT !.data = v] \in Dirs
         /\ \A v \in Nat : [d EXCEPT !.data = v].data = v
         /\ \A v \in Nat : [d EXCEPT !.data = v].core = d.core
  BY NoneAssumption DEF Dirs

\* The directory a create leaves before its metadata is written.
LEMMA EmptyDirFacts ==
  EmptyDir \in Dirs /\ EmptyDir # None /\ EmptyDir.core = None /\ EmptyDir.data = 0
  BY NoneAssumption DEF EmptyDir, Dirs

\* put_atomic of workspace.json.
LEMMA PutCoreFacts ==
  ASSUME TypeOK, NEW w \in Workspaces, InMay(w), tree[w] # None,
         NEW k \in Cores, PutCore(w, k)
  PROVE  /\ tree' \in [Workspaces -> Dirs \cup {None}]
         /\ treeMay' \in [Workspaces -> SUBSET (Dirs \cup {None})]
         /\ InMay(w)'
         /\ tree'[w] # None /\ tree'[w].core = k /\ tree'[w].data = tree[w].data
         /\ \A m \in treeMay'[w] : m # None =>
              /\ m.core = k
              /\ \E o \in treeMay[w] : o # None /\ m.data = o.data
         /\ None \in treeMay'[w] => None \in treeMay[w]
         /\ \A v \in Workspaces \ {w} :
              tree'[v] = tree[v] /\ treeMay'[v] = treeMay[v]
  <1> DEFINE f(m) == IF m = None THEN None ELSE [m EXCEPT !.core = k]
  <1>1. tree[w] \in Dirs /\ tree[w] \in treeMay[w]
    BY DEF TypeOK, InMay
  <1>2. tree'[w] = [tree[w] EXCEPT !.core = k]
    BY DEF PutCore, TypeOK
  <1>3. treeMay'[w] = {f(m) : m \in treeMay[w]}
    BY DEF PutCore, TypeOK
  <1>4. \A m \in treeMay[w] : m = None \/ m \in Dirs
    BY DEF TypeOK
  <1>5. \A m \in treeMay[w] : f(m) \in Dirs \cup {None}
    BY <1>4, DirFields
  <1>6. tree'[w] \in Dirs /\ tree'[w] \in treeMay'[w]
    BY <1>1, <1>2, <1>3, DirFields
  <1>7. /\ tree' \in [Workspaces -> Dirs \cup {None}]
        /\ treeMay' \in [Workspaces -> SUBSET (Dirs \cup {None})]
    <2>1. tree' = [tree EXCEPT ![w] = [tree[w] EXCEPT !.core = k]]
      BY DEF PutCore, TypeOK
    <2>2. treeMay' = [treeMay EXCEPT ![w] = {f(m) : m \in treeMay[w]}]
      BY DEF PutCore, TypeOK
    <2>3. {f(m) : m \in treeMay[w]} \in SUBSET (Dirs \cup {None})
      BY <1>5
    <2> QED
      BY <2>1, <2>2, <2>3, <1>1, <1>2, <1>6 DEF TypeOK
  <1>8. \A m \in treeMay'[w] : m # None =>
              /\ m.core = k
              /\ \E o \in treeMay[w] : o # None /\ m.data = o.data
    <2> SUFFICES ASSUME NEW m \in treeMay'[w], m # None
                 PROVE  m.core = k /\ \E o \in treeMay[w] : o # None /\ m.data = o.data
      OBVIOUS
    <2>1. PICK o \in treeMay[w] : m = f(o)
      BY <1>3
    <2>2. o \in Dirs /\ o # None /\ m = [o EXCEPT !.core = k]
      BY <1>4, <2>1
    <2> QED
      BY <2>2, DirFields
  <1>9. None \in treeMay'[w] => None \in treeMay[w]
    BY <1>3, <1>4, DirFields
  <1>10. \A v \in Workspaces \ {w} : tree'[v] = tree[v] /\ treeMay'[v] = treeMay[v]
    BY DEF PutCore, TypeOK
  <1>11. tree'[w] # None /\ tree'[w].core = k /\ tree'[w].data = tree[w].data
    BY <1>1, <1>2, DirFields
  <1> QED
    BY <1>6, <1>7, <1>8, <1>9, <1>10, <1>11 DEF InMay

\* The same when the fsync fails: a power loss may also undo it.
LEMMA PutCoreNoFsyncFacts ==
  ASSUME TypeOK, NEW w \in Workspaces, InMay(w), tree[w] # None,
         NEW k \in Cores, PutCoreNoFsync(w, k)
  PROVE  /\ tree' \in [Workspaces -> Dirs \cup {None}]
         /\ treeMay' \in [Workspaces -> SUBSET (Dirs \cup {None})]
         /\ InMay(w)'
         /\ tree'[w] # None /\ tree'[w].core = k /\ tree'[w].data = tree[w].data
         /\ \A m \in treeMay'[w] :
              \/ m \in treeMay[w]
              \/ /\ m # None /\ m.core = k
                 /\ \E o \in treeMay[w] : o # None /\ m.data = o.data
         /\ \A v \in Workspaces \ {w} :
              tree'[v] = tree[v] /\ treeMay'[v] = treeMay[v]
  <1> DEFINE f(m) == [m EXCEPT !.core = k]
             New == {f(m) : m \in treeMay[w] \ {None}}
  <1>1. tree[w] \in Dirs /\ tree[w] \in treeMay[w]
    BY DEF TypeOK, InMay
  <1>2. tree'[w] = f(tree[w])
    BY DEF PutCoreNoFsync, TypeOK
  <1>3. treeMay'[w] = treeMay[w] \cup New
    BY DEF PutCoreNoFsync, TypeOK
  <1>4. \A m \in treeMay[w] \ {None} : m \in Dirs
    BY DEF TypeOK
  <1>5. New \subseteq Dirs
    BY <1>4, DirFields
  <1>6. tree'[w] \in Dirs /\ tree'[w] \in treeMay'[w]
    <2>1. tree[w] \in treeMay[w] \ {None}
      BY <1>1
    <2>2. f(tree[w]) \in New
      BY <2>1
    <2> QED
      BY <1>2, <1>3, <1>5, <2>2
  <1>7. /\ tree' \in [Workspaces -> Dirs \cup {None}]
        /\ treeMay' \in [Workspaces -> SUBSET (Dirs \cup {None})]
    <2>1. tree' = [tree EXCEPT ![w] = f(tree[w])]
      BY DEF PutCoreNoFsync, TypeOK
    <2>2. treeMay' = [treeMay EXCEPT ![w] = treeMay[w] \cup New]
      BY DEF PutCoreNoFsync, TypeOK
    <2>3. treeMay[w] \cup New \in SUBSET (Dirs \cup {None})
      BY <1>5 DEF TypeOK
    <2> QED
      BY <2>1, <2>2, <2>3, <1>1, <1>2, <1>6 DEF TypeOK
  <1>8. ASSUME NEW m \in New
        PROVE  m # None /\ m.core = k /\ \E o \in treeMay[w] : o # None /\ m.data = o.data
    <2>1. PICK o \in treeMay[w] \ {None} : m = f(o)
      OBVIOUS
    <2> QED
      BY <1>4, <2>1, DirFields
  <1>9. \A v \in Workspaces \ {w} : tree'[v] = tree[v] /\ treeMay'[v] = treeMay[v]
    BY DEF PutCoreNoFsync, TypeOK
  <1>10. tree'[w] # None /\ tree'[w].core = k /\ tree'[w].data = tree[w].data
    BY <1>1, <1>2, DirFields
  <1> HIDE DEF New
  <1> QED
    BY <1>3, <1>6, <1>7, <1>8, <1>9, <1>10 DEF InMay

\* A rename among the dataset's files.
LEMMA RenameDataFacts ==
  ASSUME TypeOK, NEW w \in Workspaces, InMay(w), tree[w] # None,
         NEW n \in Nat, RenameData(w, n)
  PROVE  /\ tree' \in [Workspaces -> Dirs \cup {None}]
         /\ treeMay' \in [Workspaces -> SUBSET (Dirs \cup {None})]
         /\ InMay(w)'
         /\ tree'[w] # None /\ tree'[w].core = tree[w].core /\ tree'[w].data = n
         /\ \A m \in treeMay'[w] :
              \/ m \in treeMay[w]
              \/ /\ m # None /\ m.data \in {n, n + 1}
                 /\ \E o \in treeMay[w] : o # None /\ m.core = o.core
         /\ \A v \in Workspaces \ {w} :
              tree'[v] = tree[v] /\ treeMay'[v] = treeMay[v]
  <1> DEFINE f(m, d) == [m EXCEPT !.data = d]
             New == {f(m, d) : m \in treeMay[w] \ {None}, d \in Variants(w, n)}
  <1>0. n \in Variants(w, n) /\ Variants(w, n) \subseteq {n, n + 1}
    BY DEF Variants
  <1>1. tree[w] \in Dirs /\ tree[w] \in treeMay[w]
    BY DEF TypeOK, InMay
  <1>2. tree'[w] = f(tree[w], n)
    BY DEF RenameData, TypeOK
  <1>3. treeMay'[w] = treeMay[w] \cup New
    BY DEF RenameData, TypeOK
  <1>4. \A m \in treeMay[w] \ {None} : m \in Dirs
    BY DEF TypeOK
  <1>5. New \subseteq Dirs
    BY <1>0, <1>4, DirFields
  <1>6. tree'[w] \in Dirs /\ tree'[w] \in treeMay'[w]
    <2>1. tree[w] \in treeMay[w] \ {None}
      BY <1>1
    <2>2. f(tree[w], n) \in New
      BY <1>0, <2>1
    <2> HIDE DEF New, f
    <2> QED
      BY <1>2, <1>3, <1>5, <2>2
  <1>7. /\ tree' \in [Workspaces -> Dirs \cup {None}]
        /\ treeMay' \in [Workspaces -> SUBSET (Dirs \cup {None})]
    <2>1. tree' = [tree EXCEPT ![w] = f(tree[w], n)]
      BY DEF RenameData, TypeOK
    <2>2. treeMay' = [treeMay EXCEPT ![w] = treeMay[w] \cup New]
      BY DEF RenameData, TypeOK
    <2>3. treeMay[w] \cup New \in SUBSET (Dirs \cup {None})
      BY <1>5 DEF TypeOK
    <2> QED
      BY <2>1, <2>2, <2>3, <1>1, <1>2, <1>6 DEF TypeOK
  <1>8. ASSUME NEW m \in New
        PROVE  /\ m # None /\ m.data \in {n, n + 1}
               /\ \E o \in treeMay[w] : o # None /\ m.core = o.core
    <2>1. PICK o \in treeMay[w] \ {None}, d \in Variants(w, n) : m = f(o, d)
      OBVIOUS
    <2> QED
      BY <1>0, <1>4, <2>1, DirFields
  <1>9. \A v \in Workspaces \ {w} : tree'[v] = tree[v] /\ treeMay'[v] = treeMay[v]
    BY DEF RenameData, TypeOK
  <1>10. tree'[w] # None /\ tree'[w].core = tree[w].core /\ tree'[w].data = n
    BY <1>1, <1>2, DirFields
  <1> HIDE DEF New
  <1> QED
    BY <1>3, <1>6, <1>7, <1>8, <1>9, <1>10 DEF InMay

\* fsync of the dataset directory.
LEMMA FsyncDataFacts ==
  ASSUME TypeOK, NEW w \in Workspaces, InMay(w), tree[w] # None,
         NEW datas \in SUBSET Nat, tree[w].data \in datas, FsyncData(w, datas)
  PROVE  /\ treeMay' \in [Workspaces -> SUBSET (Dirs \cup {None})]
         /\ tree[w] \in treeMay'[w]
         /\ \A m \in treeMay'[w] : m # None =>
              /\ m.data \in datas
              /\ \E o \in treeMay[w] : o # None /\ m.core = o.core
         /\ None \in treeMay'[w] => None \in treeMay[w]
         /\ \A v \in Workspaces \ {w} : treeMay'[v] = treeMay[v]
  <1> DEFINE f(m, d) == [m EXCEPT !.data = d]
             New == {f(m, d) : m \in treeMay[w] \ {None}, d \in datas}
  <1>1. tree[w] \in Dirs /\ tree[w] \in treeMay[w] \ {None}
    BY DEF TypeOK, InMay
  <1>2. /\ treeMay'[w] = (treeMay[w] \cap {None}) \cup New
        /\ treeMay' = [treeMay EXCEPT ![w] = (treeMay[w] \cap {None}) \cup New]
    BY DEF FsyncData, TypeOK
  <1>3. \A m \in treeMay[w] \ {None} : m \in Dirs
    BY DEF TypeOK
  <1>4. ASSUME NEW m \in New
        PROVE  /\ m \in Dirs /\ m # None /\ m.data \in datas
               /\ \E o \in treeMay[w] : o # None /\ m.core = o.core
    <2>1. PICK o \in treeMay[w] \ {None}, d \in datas : m = f(o, d)
      OBVIOUS
    <2> QED
      BY <1>3, <2>1, DirFields
  <1>5. tree[w] \in New
    <2>1. f(tree[w], tree[w].data) \in New
      BY <1>1
    <2>2. f(tree[w], tree[w].data) = tree[w]
      BY <1>1 DEF Dirs
    <2> HIDE DEF New, f
    <2> QED
      BY <2>1, <2>2
  <1>6. New \in SUBSET Dirs
    BY <1>4
  <1>7. \A v \in Workspaces \ {w} : treeMay'[v] = treeMay[v]
    BY <1>2 DEF TypeOK
  <1> HIDE DEF New
  <1>8. treeMay' \in [Workspaces -> SUBSET (Dirs \cup {None})]
    BY <1>2, <1>6 DEF TypeOK
  <1> QED
    BY <1>2, <1>4, <1>5, <1>7, <1>8

\* The fsync of the changed folder, as far as it reaches: what a power loss
\* may leave afterwards is at the acknowledged dataset, or what it was.
LEMMA FsyncFolderFacts ==
  ASSUME TypeOK, NEW w \in Workspaces, InMay(w), tree[w] # None, NEW reach,
         FsyncFolder(w, reach)
  PROVE  /\ treeMay' \in [Workspaces -> SUBSET (Dirs \cup {None})]
         /\ tree[w] \in treeMay'[w]
         /\ acked' \in [Workspaces -> Nat] /\ loose' \in SUBSET Workspaces
         /\ acked'[w] \in {acked[w], tree[w].data}
         /\ \A m \in treeMay'[w] : m # None =>
              \E o \in treeMay[w] :
                /\ o # None /\ m.core = o.core
                /\ \/ m.data = o.data /\ acked'[w] = acked[w]
                   \/ m.data \in {tree[w].data, tree[w].data + 1}
                      /\ acked'[w] = tree[w].data
         /\ w \notin loose' =>
              \A m \in treeMay'[w] : m # None => m.data = tree[w].data
         /\ None \in treeMay'[w] => None \in treeMay[w]
         /\ \A v \in Workspaces \ {w} :
              /\ treeMay'[v] = treeMay[v] /\ acked'[v] = acked[v]
              /\ (v \in loose') = (v \in loose)
  <1>1. tree[w].data \in Nat /\ tree[w] \in treeMay[w]
    BY DirFields DEF TypeOK, InMay
  <1>2. CASE reach = "none"
    <2>1. loose' = loose \cup {w} /\ UNCHANGED <<treeMay, acked>>
      BY <1>2 DEF FsyncFolder
    <2> QED
      BY <1>1, <2>1 DEF TypeOK
  <1>3. CASE reach = "folder"
    <2>1. /\ FsyncData(w, Variants(w, tree[w].data))
          /\ acked' = [acked EXCEPT ![w] = tree[w].data] /\ loose' = loose
      BY <1>3 DEF FsyncFolder
    <2>2. /\ Variants(w, tree[w].data) \in SUBSET Nat
          /\ tree[w].data \in Variants(w, tree[w].data)
          /\ Variants(w, tree[w].data) \subseteq {tree[w].data, tree[w].data + 1}
          /\ w \notin loose => Variants(w, tree[w].data) = {tree[w].data}
      BY <1>1 DEF Variants
    <2>3. /\ acked' \in [Workspaces -> Nat] /\ acked'[w] = tree[w].data
          /\ \A v \in Workspaces \ {w} : acked'[v] = acked[v]
      BY <1>1, <2>1 DEF TypeOK
    <2>4. /\ treeMay' \in [Workspaces -> SUBSET (Dirs \cup {None})]
          /\ tree[w] \in treeMay'[w]
          /\ \A m \in treeMay'[w] : m # None =>
               /\ m.data \in Variants(w, tree[w].data)
               /\ \E o \in treeMay[w] : o # None /\ m.core = o.core
          /\ None \in treeMay'[w] => None \in treeMay[w]
          /\ \A v \in Workspaces \ {w} : treeMay'[v] = treeMay[v]
      BY <2>1, <2>2, FsyncDataFacts
    <2> QED
      BY <1>1, <2>1, <2>2, <2>3, <2>4 DEF TypeOK
  <1>4. CASE reach = "above"
    <2>1. /\ FsyncData(w, {tree[w].data})
          /\ acked' = [acked EXCEPT ![w] = tree[w].data] /\ loose' = loose \ {w}
      BY <1>4 DEF FsyncFolder
    <2>2. {tree[w].data} \in SUBSET Nat
      BY <1>1
    <2>3. /\ acked' \in [Workspaces -> Nat] /\ acked'[w] = tree[w].data
          /\ \A v \in Workspaces \ {w} : acked'[v] = acked[v]
      BY <1>1, <2>1 DEF TypeOK
    <2>4. /\ treeMay' \in [Workspaces -> SUBSET (Dirs \cup {None})]
          /\ tree[w] \in treeMay'[w]
          /\ \A m \in treeMay'[w] : m # None =>
               /\ m.data \in {tree[w].data}
               /\ \E o \in treeMay[w] : o # None /\ m.core = o.core
          /\ None \in treeMay'[w] => None \in treeMay[w]
          /\ \A v \in Workspaces \ {w} : treeMay'[v] = treeMay[v]
      BY <2>1, <2>2, FsyncDataFacts
    <2> QED
      BY <1>1, <2>1, <2>3, <2>4 DEF TypeOK
  <1> QED
    BY <1>2, <1>3, <1>4 DEF FsyncFolder

\* create_dir_all.
LEMMA MkdirFacts ==
  ASSUME TypeOK, NEW w \in Workspaces, InMay(w), Mkdir(w)
  PROVE  /\ tree' \in [Workspaces -> Dirs \cup {None}]
         /\ treeMay' \in [Workspaces -> SUBSET (Dirs \cup {None})]
         /\ InMay(w)'
         /\ \/ tree[w] # None /\ tree'[w] = tree[w] /\ treeMay'[w] = treeMay[w]
            \/ /\ tree[w] = None /\ tree'[w] = EmptyDir
               /\ treeMay'[w] = treeMay[w] \cup {EmptyDir}
         /\ \A v \in Workspaces \ {w} :
              tree'[v] = tree[v] /\ treeMay'[v] = treeMay[v]
  BY EmptyDirFacts DEF Mkdir, TypeOK, InMay

----------------------------------------------------------------------------
\* Requests.

\* Nobody but c moves.
Others(c) == \A d \in Clients : d # c => op'[d] = op[d]

\* What the start of a request changes.
LEMMA StartFacts ==
  ASSUME TypeOK, NEW c \in Clients, NEW pc \in Pcs, NEW w \in Workspaces,
         NEW k \in Cores \cup {None}, NEW ids, Start(c, pc, w, k, ids)
  PROVE  /\ phase = "up" /\ op[c].pc = "idle" /\ op[c].ws = None
         /\ op'[c].pc = pc /\ op'[c].ws = w /\ op'[c].core = k
         /\ Others(c) /\ minted' = ids
         /\ op' \in [Clients -> Requests] /\ ops' \in 0..MaxOps
  <1> DEFINE r == [pc |-> pc, ws |-> w, core |-> k, job |-> ops + 1]
  <1>1. op' = [op EXCEPT ![c] = r] /\ ops' = ops + 1 /\ ops < MaxOps /\ ops \in Nat
    BY WorkspaceAssumption DEF Start, TypeOK
  <1>2. r \in Requests
    BY <1>1 DEF Requests
  <1>3. op'[c] = r
    BY <1>1 DEF TypeOK
  <1>4. op' \in [Clients -> Requests] /\ Others(c)
    BY <1>1, <1>2 DEF TypeOK, Others
  <1>5. ops' \in 0..MaxOps
    BY <1>1, WorkspaceAssumption
  <1> QED
    BY <1>3, <1>4, <1>5 DEF Start, Idle

\* What a request's next step changes.
LEMMA GotoFacts ==
  ASSUME TypeOK, NEW c \in Clients, NEW pc \in Pcs, Goto(c, pc)
  PROVE  /\ op'[c].pc = pc /\ op'[c].ws = op[c].ws /\ op'[c].core = op[c].core
         /\ Others(c) /\ minted' = minted /\ ops' = ops
         /\ op' \in [Clients -> Requests]
  <1>1. op[c] \in Requests
    BY DEF TypeOK
  <1>2. op' = [op EXCEPT ![c] = [op[c] EXCEPT !.pc = pc]]
    BY DEF Goto, TypeOK
  <1>3. [op[c] EXCEPT !.pc = pc] \in Requests
    BY <1>1 DEF Requests
  <1> QED
    BY <1>1, <1>2, <1>3 DEF TypeOK, Others, Goto, Requests

\* The same for a step that also takes up metadata.
LEMMA GotoWithFacts ==
  ASSUME TypeOK, NEW c \in Clients, NEW pc \in Pcs, NEW k \in Cores,
         GotoWith(c, pc, k)
  PROVE  /\ op'[c].pc = pc /\ op'[c].ws = op[c].ws /\ op'[c].core = k
         /\ Others(c) /\ minted' = minted /\ ops' = ops
         /\ op' \in [Clients -> Requests]
  <1>1. op[c] \in Requests
    BY DEF TypeOK
  <1>2. op' = [op EXCEPT ![c] = [op[c] EXCEPT !.pc = pc, !.core = k]]
    BY DEF GotoWith, TypeOK
  <1>3. [op[c] EXCEPT !.pc = pc, !.core = k] \in Requests
    BY <1>1 DEF Requests
  <1> QED
    BY <1>1, <1>2, <1>3 DEF TypeOK, Others, GotoWith, Requests

\* What the end of a request changes: it gives back the locks it holds.
LEMMA FinishFacts ==
  ASSUME TypeOK, OpsNamed, NEW c \in Clients, NEW w \in Workspaces, op[c].ws = w,
         \A v \in Workspaces : Locked(v), Finish(c)
  PROVE  /\ op'[c].pc = "idle" /\ op'[c].ws = None /\ op'[c].core = None
         /\ Others(c) /\ minted' = minted /\ ops' = ops
         /\ op' \in [Clients -> Requests]
         /\ regLock' \in Clients \cup {None}
         /\ metaLock' \in [Workspaces -> Clients \cup {None, Trainer}]
         /\ metaLock'[w] # c /\ metaLock'[w] \in {None, metaLock[w]}
         /\ metaLock[w] # c => metaLock'[w] = metaLock[w]
         /\ \A v \in Workspaces \ {w} : metaLock'[v] = metaLock[v]
  <1>1. Idle \in Requests /\ Idle.pc = "idle" /\ Idle.ws = None /\ Idle.core = None
    BY DEF Idle, Requests, Pcs
  <1>2. op' \in [Clients -> Requests] /\ op'[c] = Idle /\ Others(c)
    BY <1>1 DEF Finish, TypeOK, Others
  <1>3. /\ regLock' \in Clients \cup {None}
        /\ metaLock' \in [Workspaces -> Clients \cup {None, Trainer}]
    BY DEF Finish, TypeOK
  <1>4. \A v \in Workspaces : metaLock'[v] = IF metaLock[v] = c THEN None ELSE metaLock[v]
    BY DEF Finish
  <1>5. \A v \in Workspaces \ {w} : metaLock[v] # c
    BY DEF Locked
  <1>6. None # c
    BY WorkspaceAssumption
  <1> QED
    BY <1>1, <1>2, <1>3, <1>4, <1>5, <1>6 DEF Finish

----------------------------------------------------------------------------
\* The numbers of a workspace, out of TypeOK.

Numbers(w) ==
    /\ cell[w] = None \/ (cell[w] \in Cores /\ cell[w].rev \in Nat)
    /\ acked[w] \in Nat /\ train.rev \in Nat /\ train.data \in Nat
    /\ tree[w] = None \/ tree[w] \in Dirs
    /\ \A m \in treeMay[w] : m # None =>
         /\ m \in Dirs /\ m.data \in Nat
         /\ m.core = None \/ (m.core \in Cores /\ m.core.rev \in Nat)
    /\ \A h \in heads[w] : h.rev \in Nat /\ h.data \in Nat
    /\ \A c \in Clients : op[c].core = None \/ (op[c].core \in Cores /\ op[c].core.rev \in Nat)

\* Every revision in the state is a natural number.
LEMMA NumberFacts == TypeOK => \A w \in Workspaces : Numbers(w)
  <1> SUFFICES ASSUME TypeOK, NEW w \in Workspaces PROVE Numbers(w)
    OBVIOUS
  <1>1. \A k \in Cores : k.rev \in Nat
    BY DEF Cores
  <1>2. cell[w] \in Cores \cup {None} /\ acked[w] \in Nat
    BY DEF TypeOK
  <1>3. train.rev \in Nat /\ train.data \in Nat
    BY DEF TypeOK, Runs
  <1>4. tree[w] = None \/ tree[w] \in Dirs
    BY DEF TypeOK
  <1>5. \A m \in treeMay[w] : m # None =>
          m \in Dirs /\ m.data \in Nat /\ m.core \in Cores \cup {None}
    BY DirFields DEF TypeOK
  <1>6. \A h \in heads[w] : h.rev \in Nat /\ h.data \in Nat
    BY DEF TypeOK
  <1>7. \A c \in Clients : op[c].core \in Cores \cup {None}
    BY DEF TypeOK, Requests
  <1> QED
    BY <1>1, <1>2, <1>3, <1>4, <1>5, <1>6, <1>7 DEF Numbers

----------------------------------------------------------------------------
\* A workspace a step does not touch, or whose core it only loads.

Same(v) ==
    /\ tree'[v] = tree[v] /\ treeMay'[v] = treeMay[v]
    /\ cell'[v] = cell[v] \/ (Exists(v) /\ cell'[v] = CellOf(v))
    /\ metaLock'[v] = metaLock[v] /\ heads'[v] = heads[v] /\ acked'[v] = acked[v]
    /\ (v \in minted') = (v \in minted)
    /\ (v \in kept') = (v \in kept) /\ (v \in doomed') = (v \in doomed)
    /\ (v \in deleted') = (v \in deleted) /\ (v \in raced') = (v \in raced)
    /\ (v \in suspect') = (v \in suspect) /\ (v \in loose') = (v \in loose)
    /\ \A d \in Clients : op'[d] = op[d] \/ (op[d].ws # v /\ op'[d].ws # v)
    /\ train' = train \/ (train.ws # v /\ train'.ws # v)

\* A step that leaves the state of a workspace alone keeps all its parts.
LEMMA FrameStep ==
  ASSUME TypeOK, NEW v \in Workspaces, Sound(v), Same(v)
  PROVE  Sound(v)'
  <1>1. /\ InMay(v) /\ Born(v) /\ Durable(v) /\ Leased(v) /\ Locked(v)
        /\ Gone(v) /\ Patching(v) /\ Inserting(v)
        /\ DataOne(v) /\ CellBelow(v) /\ Bumping(v)
        /\ HeadsBelow(v) /\ HeadsCell(v) /\ Training(v)
    BY DEF Sound
  <1>2. \A pcs : \A d \in Clients : On(d, pcs, v)' <=> On(d, pcs, v)
    BY DEF On, Same
  <1>3. \A pcs : \A d \in Clients : On(d, pcs, v) => op'[d] = op[d]
    BY DEF On, Same
  <1>4. Exists(v)' <=> Exists(v)
    BY DEF Exists, Same
  <1>5. Fine(v)' <=> Fine(v)
    BY DEF Fine, Same
  <1>6. Moved(v)' <=> Moved(v)
    BY <1>2 DEF Moved
  <1>7. Exists(v) => CellOf(v)' = CellOf(v)
    BY DEF CellOf, Same, Exists
  <1>8. cell[v] # None => cell'[v] = cell[v]
    BY DEF Same, CellOf
  <1>9. Unborn(v)' <=> Unborn(v)
    BY <1>2 DEF Unborn, Same
  <1>10. InMay(v)'
    BY <1>1 DEF InMay, Same
  <1>11. Born(v)'
    <2>1. Unborn(v) => cell'[v] = None
      BY <1>1, EmptyDirFacts DEF Born, Untouched, Same, Exists, InMay
    <2>2. Unborn(v) => train'.ws # v
      BY <1>1 DEF Born, Untouched, Same
    <2>3. Unborn(v)' => Untouched(v)'
      BY <1>1, <1>9, <2>1, <2>2 DEF Born, Untouched, Same
    <2>4. \A d \in Clients : (op[d].ws = v)' => op[d].ws = v
      BY DEF Same
    <2> QED
      BY <1>1, <1>2, <2>3, <2>4 DEF Born, Same
  <1>12. Durable(v)'
    BY <1>1, <1>2 DEF Durable, Same
  <1>13. Leased(v)'
    BY <1>1, <1>2, <1>4 DEF Leased
  <1>14. Locked(v)'
    BY <1>1, <1>2, <1>8 DEF Locked, Same
  <1>15. Gone(v)'
    BY <1>1, <1>2, <1>4 DEF Gone, Same
  <1>16. Patching(v)'
    BY <1>1, <1>2, <1>3, <1>4, <1>5, <1>8 DEF Patching, Same
  <1>17. Inserting(v)'
    BY <1>1, <1>2, <1>3, <1>4, <1>8 DEF Inserting, Same
  <1>18. DataOne(v)'
    BY <1>1, <1>4, <1>5, <1>6 DEF DataOne, Same
  <1>19. CellBelow(v)'
    BY <1>1, <1>4, <1>5, <1>7 DEF CellBelow, Cored, Same
  <1>20. Bumping(v)'
    BY <1>1, <1>2, <1>3, <1>5, <1>8 DEF Bumping, Locked, Same, WrittenPcs, On
  <1>21. HeadsBelow(v)'
    BY <1>1, <1>5 DEF HeadsBelow, Cored, Same
  <1>22. HeadsCell(v)'
    BY <1>1, <1>4, <1>5, <1>6, <1>7 DEF HeadsCell, Same
  <1>23. Training(v)'
    BY <1>1, <1>4, <1>5, <1>6, <1>8 DEF Training, Same
  <1> QED
    BY <1>10, <1>11, <1>12, <1>13, <1>14, <1>15, <1>16, <1>17, <1>18, <1>19,
       <1>20, <1>21, <1>22, <1>23 DEF Sound


\* A head at the revision on disk was trained on the dataset one reads now,
\* durable or not.
LEMMA OwnTree ==
  ASSUME TypeOK, NEW v \in Workspaces, Sound(v), Fine(v), Exists(v),
         NEW h \in heads[v]
  PROVE  /\ h.rev <= tree[v].core.rev
         /\ h.rev = tree[v].core.rev => h.data = tree[v].data
  <1>1. /\ InMay(v) /\ Locked(v) /\ CellBelow(v) /\ Bumping(v) /\ HeadsCell(v)
        /\ Numbers(v)
    BY NumberFacts DEF Sound
  <1>2. tree[v] \in treeMay[v] /\ Cored(tree[v]) /\ tree[v].core.rev \in Nat
    BY <1>1 DEF InMay, Exists, Cored, Numbers
  <1>3. CellOf(v).rev \in Nat /\ CellOf(v).rev <= tree[v].core.rev
    BY <1>1, <1>2 DEF CellBelow, CellOf, Numbers
  <1>4. h.rev \in Nat /\ h.rev <= CellOf(v).rev
        /\ (~Moved(v) /\ h.rev = CellOf(v).rev => h.data = tree[v].data)
    BY <1>1 DEF HeadsCell, Numbers
  <1>5. Moved(v) => CellOf(v).rev < tree[v].core.rev
    <2> SUFFICES ASSUME NEW c \in Clients, On(c, MovedPcs, v)
                 PROVE  CellOf(v).rev < tree[v].core.rev
      BY DEF Moved
    <2>1. On(c, WrittenPcs, v) /\ On(c, BumpPcs \cup WrittenPcs, v)
      BY DEF On, MovedPcs, WrittenPcs
    <2>2. cell[v] # None /\ op[c].core.rev = cell[v].rev + 1
          /\ tree[v].core = op[c].core
      BY <1>1, <1>2, <2>1 DEF Locked, Bumping, Cored
    <2> QED
      BY <1>3, <2>2 DEF CellOf
  <1> QED
    BY <1>2, <1>3, <1>4, <1>5

\* create_with_tags makes the directory.
LEMMA CreateDirStep ==
  ASSUME Inv, NEW c \in Clients, CreateDir(c)
  PROVE  Inv'
  <1>1. PICK w \in Workspaces :
          op[c].ws = w /\ op[c].pc = "mkdir" /\ phase = "up"
    BY DEF Inv, OpsNamed, TypeOK, At, CreateDir
  <1>2. /\ None \notin Clients /\ None \notin Workspaces
        /\ TypeOK /\ OpsNamed /\ OneDelete /\ \A v \in Workspaces : Locked(v)
        /\ Numbers(w) /\ InMay(w) /\ Born(w) /\ Durable(w) /\ Leased(w) /\ Locked(w)
        /\ Gone(w) /\ Patching(w) /\ Inserting(w) /\ DataOne(w)
        /\ CellBelow(w) /\ Bumping(w) /\ HeadsBelow(w) /\ HeadsCell(w)
        /\ Training(w)
    BY NumberFacts, WorkspaceAssumption DEF Inv, Sound
  <1>3. /\ op'[c].pc = "core" /\ op'[c].ws = w /\ op'[c].core = op[c].core
        /\ Others(c) /\ op' \in [Clients -> Requests]
    BY <1>1, <1>2, GotoFacts DEF CreateDir, Pcs, On, CreatePcs, PatchPcs,
       UploadLeased, TreeDeletePcs, WsDeletePcs, BumpPcs, WrittenPcs,
       MovedPcs, CorePcs
  <1>4. UNCHANGED <<phase, tmp, tmpDurable, cell, regLock, metaLock, ops,
     minted, heads, train, trains, kept, acked, deleted, doomed, raced,
     suspect, loose, faults, crashes>>
    BY DEF CreateDir, diskVars, lockVars, reqVars, trainVars, ghostVars,
       bounds, Goto, GotoWith, Finish, Start, Acknowledge, Load, LoadListed,
       At
  <1>5. /\ tree' \in [Workspaces -> Dirs \cup {None}]
        /\ treeMay' \in [Workspaces -> SUBSET (Dirs \cup {None})]
        /\ InMay(w)'
        /\ \/ tree[w] # None /\ tree'[w] = tree[w] /\ treeMay'[w] = treeMay[w]
           \/ /\ tree[w] = None /\ tree'[w] = EmptyDir
              /\ treeMay'[w] = treeMay[w] \cup {EmptyDir}
        /\ \A v \in Workspaces \ {w} :
             tree'[v] = tree[v] /\ treeMay'[v] = treeMay[v]
    BY <1>1, <1>2, MkdirFacts DEF CreateDir
  <1>6. EmptyDir # None /\ EmptyDir.core = None /\ EmptyDir.data = 0
    BY EmptyDirFacts
  <1>7. TypeOK'
    BY <1>2, <1>1, <1>3, <1>4, <1>5, <1>6 DEF TypeOK
  <1>8. BootQuiet' /\ OpsNamed' /\ OneDelete'
    <2>1. BootQuiet' /\ OpsNamed'
      BY <1>2, <1>1, <1>3, <1>4, <1>5, <1>6 DEF BootQuiet, OpsNamed, TypeOK,
         Others, On, CreatePcs, PatchPcs, BumpPcs, WrittenPcs, CorePcs
    <2>2. OneDelete'
      BY <1>2, <1>1, <1>3, <1>4, <1>5, <1>6 DEF OneDelete, Others, On,
         TreeDeletePcs, WsDeletePcs
    <2> QED
      BY <2>1, <2>2
  <1>9. DataBounded'
    <2>1. PICK B \in Nat : Below(B)
      BY DEF Inv, DataBounded
    <2>2. Below(B)'
      BY <1>2, <2>1, <1>1, <1>3, <1>4, <1>5, <1>6, EmptyDirFacts DEF Below, InMay, Exists
    <2> QED
      BY <2>2 DEF DataBounded
  <1>10. \A v \in Workspaces \ {w} : Same(v)
    BY <1>2, <1>1, <1>3, <1>4, <1>5, <1>6 DEF Same, Others, TypeOK, OpsNamed
  <1>11. Sound(w)'
    <2>1. InMay(w)'
      BY <1>2, <1>1, <1>3, <1>4, <1>5, <1>6 DEF InMay, Others, On
    <2>2. Born(w)'
      BY <1>2, <1>1, <1>3, <1>4, <1>5, <1>6 DEF Born, Unborn, Untouched,
         OpsNamed, InMay, Others, On, CreatePcs, PatchPcs, BumpPcs,
         WrittenPcs, CorePcs
    <2>3. Durable(w)'
      BY <1>2, <1>1, <1>3, <1>4, <1>5, <1>6 DEF Durable, Born, Unborn,
         Untouched, Others, On
    <2>4. Leased(w)'
      BY <1>2, <1>1, <1>3, <1>4, <1>5, <1>6 DEF Leased, Exists, Born, Others,
         On, UploadLeased, TreeDeletePcs, WsDeletePcs
    <2>5. Locked(w)'
      BY <1>2, <1>1, <1>3, <1>4, <1>5, <1>6 DEF Locked, Born, Others, On,
         BumpPcs, WrittenPcs
    <2>6. Gone(w)'
      BY <1>2, <1>1, <1>3, <1>4, <1>5, <1>6 DEF Gone, Exists, Born, Unborn,
         Untouched, Others, On, PatchPcs
    <2>7. Patching(w)'
      BY <1>2, <1>1, <1>3, <1>4, <1>5, <1>6 DEF Patching, Exists, Fine, Born,
         Others, On, PatchPcs
    <2>8. Inserting(w)'
      BY <1>2, <1>1, <1>3, <1>4, <1>5, <1>6 DEF Inserting, Exists, Born,
         Others, On
    <2>9. DataOne(w)'
      BY <1>2, <1>1, <1>3, <1>4, <1>5, <1>6 DEF DataOne, Fine, Exists, Moved,
         Born, Unborn, Untouched, Others, On, MovedPcs
    <2>10. CellBelow(w)'
      BY <1>2, <1>1, <1>3, <1>4, <1>5, <1>6 DEF CellBelow, Fine, Exists,
         CellOf, Cored, Others, On
    <2>11. Bumping(w)'
      BY <1>2, <1>1, <1>3, <1>4, <1>5, <1>6 DEF Bumping, Fine, Born, Others,
         On, BumpPcs, WrittenPcs
    <2>12. HeadsBelow(w)'
      BY <1>2, <1>1, <1>3, <1>4, <1>5, <1>6 DEF HeadsBelow, Fine, Cored,
         Others, On
    <2>13. HeadsCell(w)'
      BY <1>2, <1>1, <1>3, <1>4, <1>5, <1>6 DEF HeadsCell, Fine, Exists,
         Moved, CellOf, Others, On, MovedPcs
    <2>14. Training(w)'
      BY <1>2, <1>1, <1>3, <1>4, <1>5, <1>6 DEF Training, Fine, Exists,
         Moved, Others, On, MovedPcs
    <2> QED
      BY <2>1, <2>2, <2>3, <2>4, <2>5, <2>6, <2>7, <2>8, <2>9, <2>10, <2>11,
         <2>12, <2>13, <2>14 DEF Sound
  <1> QED
    BY <1>2, <1>7, <1>8, <1>9, <1>10, <1>11, FrameStep DEF Inv

\* It writes workspace.json.
LEMMA CreateCoreStep ==
  ASSUME Inv, NEW c \in Clients, CreateCore(c)
  PROVE  Inv'
  <1>1. PICK w \in Workspaces :
          op[c].ws = w /\ op[c].pc = "core" /\ phase = "up"
    BY DEF Inv, OpsNamed, TypeOK, At, CreateCore
  <1>2. /\ None \notin Clients /\ None \notin Workspaces
        /\ TypeOK /\ OpsNamed /\ OneDelete /\ \A v \in Workspaces : Locked(v)
        /\ Numbers(w) /\ InMay(w) /\ Born(w) /\ Durable(w) /\ Leased(w) /\ Locked(w)
        /\ Gone(w) /\ Patching(w) /\ Inserting(w) /\ DataOne(w)
        /\ CellBelow(w) /\ Bumping(w) /\ HeadsBelow(w) /\ HeadsCell(w)
        /\ Training(w)
    BY NumberFacts, WorkspaceAssumption DEF Inv, Sound
  <1>3. /\ op'[c].pc = "dirSync" /\ op'[c].ws = w /\ op'[c].core = op[c].core
        /\ Others(c) /\ op' \in [Clients -> Requests]
    BY <1>1, <1>2, GotoFacts DEF CreateCore, Pcs, On, CreatePcs, PatchPcs,
       UploadLeased, TreeDeletePcs, WsDeletePcs, BumpPcs, WrittenPcs,
       MovedPcs, CorePcs
  <1>4. UNCHANGED <<phase, tmp, tmpDurable, cell, regLock, metaLock, ops,
     minted, heads, train, trains, kept, acked, deleted, doomed, raced,
     suspect, loose, faults, crashes>>
    BY DEF CreateCore, diskVars, lockVars, reqVars, trainVars, ghostVars,
       bounds, Goto, GotoWith, Finish, Start, Acknowledge, Load, LoadListed,
       At
  <1>5. op[c].core \in Cores /\ op[c].core # None /\ tree[w] = EmptyDir /\ EmptyDir # None /\ EmptyDir.data = 0
    BY <1>1, <1>2, NoneAssumption, EmptyDirFacts DEF OpsNamed, Numbers, Born,
       CorePcs, On, CreatePcs, PatchPcs, BumpPcs, WrittenPcs
  <1>6. /\ Untouched(w) /\ \A d \in Clients : op[d].ws = w => d = c
    BY <1>1, <1>2 DEF Born, Unborn, On
  <1>7. /\ tree' \in [Workspaces -> Dirs \cup {None}]
        /\ treeMay' \in [Workspaces -> SUBSET (Dirs \cup {None})]
        /\ InMay(w)'
        /\ tree'[w] # None /\ tree'[w].core = op[c].core /\ tree'[w].data = tree[w].data
        /\ \A m \in treeMay'[w] : m # None =>
             /\ m.core = op[c].core
             /\ \E o \in treeMay[w] : o # None /\ m.data = o.data
        /\ None \in treeMay'[w] => None \in treeMay[w]
        /\ \A v \in Workspaces \ {w} :
             tree'[v] = tree[v] /\ treeMay'[v] = treeMay[v]
    BY <1>1, <1>2, <1>5, PutCoreFacts DEF CreateCore
  <1>8. TypeOK'
    BY <1>2, <1>1, <1>3, <1>4, <1>5, <1>6, <1>7 DEF TypeOK
  <1>9. BootQuiet' /\ OpsNamed' /\ OneDelete'
    <2>1. BootQuiet' /\ OpsNamed'
      BY <1>2, <1>1, <1>3, <1>4, <1>5, <1>6, <1>7 DEF BootQuiet, OpsNamed,
         TypeOK, Others, On, CreatePcs, PatchPcs, BumpPcs, WrittenPcs,
         CorePcs
    <2>2. OneDelete'
      BY <1>2, <1>1, <1>3, <1>4, <1>5, <1>6, <1>7 DEF OneDelete, Others, On,
         TreeDeletePcs, WsDeletePcs
    <2> QED
      BY <2>1, <2>2
  <1>10. DataBounded'
    <2>1. PICK B \in Nat : Below(B)
      BY DEF Inv, DataBounded
    <2>2. Below(B)'
      BY <1>2, <2>1, <1>1, <1>3, <1>4, <1>5, <1>6, <1>7, EmptyDirFacts DEF Below, InMay, Exists
    <2> QED
      BY <2>2 DEF DataBounded
  <1>11. \A v \in Workspaces \ {w} : Same(v)
    BY <1>2, <1>1, <1>3, <1>4, <1>5, <1>6, <1>7 DEF Same, Others, TypeOK,
       OpsNamed
  <1>12. Sound(w)'
    <2>1. InMay(w)'
      BY <1>2, <1>1, <1>3, <1>4, <1>5, <1>6, <1>7 DEF InMay, Others, On
    <2>2. Born(w)'
      BY <1>2, <1>1, <1>3, <1>4, <1>5, <1>6, <1>7, EmptyDirFacts DEF Born,
         Unborn, Untouched, OpsNamed, Numbers, Others, On, CreatePcs,
         PatchPcs, BumpPcs, WrittenPcs, CorePcs
    <2>3. Durable(w)'
      BY <1>2, <1>1, <1>3, <1>4, <1>5, <1>6, <1>7, EmptyDirFacts DEF Durable,
         Untouched, Numbers, Others, On
    <2>4. Leased(w)'
      BY <1>2, <1>1, <1>3, <1>4, <1>5, <1>6, <1>7, EmptyDirFacts DEF Leased,
         Exists, Untouched, Numbers, Others, On, UploadLeased, TreeDeletePcs,
         WsDeletePcs
    <2>5. Locked(w)'
      BY <1>2, <1>1, <1>3, <1>4, <1>5, <1>6, <1>7 DEF Locked, Others, On,
         BumpPcs, WrittenPcs
    <2>6. Gone(w)'
      BY <1>2, <1>1, <1>3, <1>4, <1>5, <1>6, <1>7, EmptyDirFacts DEF Gone,
         Exists, Untouched, Numbers, Others, On, PatchPcs
    <2>7. Patching(w)'
      BY <1>2, <1>1, <1>3, <1>4, <1>5, <1>6, <1>7, EmptyDirFacts DEF
         Patching, Exists, Fine, Untouched, Numbers, Others, On, PatchPcs
    <2>8. Inserting(w)'
      BY <1>2, <1>1, <1>3, <1>4, <1>5, <1>6, <1>7, EmptyDirFacts DEF
         Inserting, Exists, Untouched, Numbers, Others, On
    <2>9. DataOne(w)'
      BY <1>2, <1>1, <1>3, <1>4, <1>5, <1>6, <1>7, EmptyDirFacts DEF DataOne,
         Fine, Exists, Moved, Untouched, Numbers, Others, On, MovedPcs
    <2>10. CellBelow(w)'
      BY <1>2, <1>1, <1>3, <1>4, <1>5, <1>6, <1>7, EmptyDirFacts DEF
         CellBelow, Fine, Exists, CellOf, Cored, Untouched, Numbers, Others,
         On
    <2>11. Bumping(w)'
      BY <1>2, <1>1, <1>3, <1>4, <1>5, <1>6, <1>7, EmptyDirFacts DEF Bumping,
         Fine, Untouched, Numbers, Others, On, BumpPcs, WrittenPcs
    <2>12. HeadsBelow(w)'
      BY <1>2, <1>1, <1>3, <1>4, <1>5, <1>6, <1>7, EmptyDirFacts DEF
         HeadsBelow, Fine, Cored, Untouched, Numbers, Others, On
    <2>13. HeadsCell(w)'
      BY <1>2, <1>1, <1>3, <1>4, <1>5, <1>6, <1>7, EmptyDirFacts DEF
         HeadsCell, Fine, Exists, Moved, CellOf, Untouched, Numbers, Others,
         On, MovedPcs
    <2>14. Training(w)'
      BY <1>2, <1>1, <1>3, <1>4, <1>5, <1>6, <1>7, EmptyDirFacts DEF
         Training, Fine, Exists, Moved, Untouched, Numbers, Others, On,
         MovedPcs
    <2> QED
      BY <2>1, <2>2, <2>3, <2>4, <2>5, <2>6, <2>7, <2>8, <2>9, <2>10, <2>11,
         <2>12, <2>13, <2>14 DEF Sound
  <1> QED
    BY <1>2, <1>8, <1>9, <1>10, <1>11, <1>12, FrameStep DEF Inv

\* Its answer.
LEMMA CreateDirSyncStep ==
  ASSUME Inv, NEW c \in Clients, CreateDirSync(c)
  PROVE  Inv'
  <1>1. PICK w \in Workspaces :
          op[c].ws = w /\ op[c].pc = "dirSync" /\ phase = "up"
    BY DEF Inv, OpsNamed, TypeOK, At, CreateDirSync
  <1>2. /\ None \notin Clients /\ None \notin Workspaces
        /\ TypeOK /\ OpsNamed /\ OneDelete /\ \A v \in Workspaces : Locked(v)
        /\ Numbers(w) /\ InMay(w) /\ Born(w) /\ Durable(w) /\ Leased(w) /\ Locked(w)
        /\ Gone(w) /\ Patching(w) /\ Inserting(w) /\ DataOne(w)
        /\ CellBelow(w) /\ Bumping(w) /\ HeadsBelow(w) /\ HeadsCell(w)
        /\ Training(w)
    BY NumberFacts, WorkspaceAssumption DEF Inv, Sound
  <1>3. /\ op'[c].pc = "idle" /\ op'[c].ws = None /\ Others(c)
        /\ op' \in [Clients -> Requests] /\ regLock' \in Clients \cup {None}
        /\ metaLock' \in [Workspaces -> Clients \cup {None, Trainer}]
        /\ metaLock'[w] # c /\ metaLock'[w] \in {None, metaLock[w]}
        /\ (metaLock[w] # c => metaLock'[w] = metaLock[w])
        /\ \A v \in Workspaces \ {w} : metaLock'[v] = metaLock[v]
    BY <1>1, <1>2, FinishFacts DEF CreateDirSync
  <1>4. UNCHANGED <<phase, tree, tmp, tmpDurable, ops, minted, heads, train,
     trains, acked, deleted, doomed, raced, loose, faults, crashes>>
    BY DEF CreateDirSync, diskVars, lockVars, reqVars, trainVars, ghostVars,
       bounds, Goto, GotoWith, Finish, Start, Acknowledge, Load, LoadListed,
       At
  <1>5. op[c].core \in Cores /\ op[c].core # None
    BY <1>1, <1>2, NoneAssumption DEF OpsNamed, Numbers, CorePcs, On,
       CreatePcs, PatchPcs, BumpPcs, WrittenPcs
  <1>6. /\ treeMay' \in [Workspaces -> SUBSET (Dirs \cup {None})]
        /\ tree[w] \in treeMay'[w] /\ treeMay'[w] \subseteq treeMay[w]
        /\ None \in treeMay'[w] => tree[w] = None
        /\ \A v \in Workspaces \ {w} : treeMay'[v] = treeMay[v]
    BY <1>1, <1>2 DEF CreateDirSync, TypeOK, InMay
  <1>7. /\ cell' \in [Workspaces -> Cores \cup {None}] /\ cell'[w] = op[c].core
        /\ \A v \in Workspaces \ {w} : cell'[v] = cell[v]
    BY <1>1, <1>2, <1>5 DEF CreateDirSync, TypeOK
  <1>8. /\ kept' = kept \cup {w}
        /\ suspect' = IF cell[w] = None THEN suspect ELSE suspect \cup {w}
    BY <1>1 DEF CreateDirSync
  <1>9. TypeOK'
    BY <1>2, <1>1, <1>3, <1>4, <1>5, <1>6, <1>7, <1>8 DEF TypeOK
  <1>10. BootQuiet' /\ OpsNamed' /\ OneDelete'
    <2>1. BootQuiet' /\ OpsNamed'
      BY <1>2, <1>1, <1>3, <1>4, <1>5, <1>6, <1>7, <1>8 DEF BootQuiet,
         OpsNamed, TypeOK, Others, On, CreatePcs, PatchPcs, BumpPcs,
         WrittenPcs, CorePcs
    <2>2. OneDelete'
      BY <1>2, <1>1, <1>3, <1>4, <1>5, <1>6, <1>7, <1>8 DEF OneDelete,
         Others, On, TreeDeletePcs, WsDeletePcs
    <2> QED
      BY <2>1, <2>2
  <1>11. DataBounded'
    <2>1. PICK B \in Nat : Below(B)
      BY DEF Inv, DataBounded
    <2>2. Below(B)'
      BY <1>2, <2>1, <1>1, <1>3, <1>4, <1>5, <1>6, <1>7, <1>8, EmptyDirFacts DEF Below, InMay, Exists
    <2> QED
      BY <2>2 DEF DataBounded
  <1>12. \A v \in Workspaces \ {w} : Same(v)
    BY <1>2, <1>1, <1>3, <1>4, <1>5, <1>6, <1>7, <1>8 DEF Same, Others,
       TypeOK, OpsNamed
  <1>13. Sound(w)'
    <2>1. InMay(w)'
      BY <1>2, <1>1, <1>3, <1>4, <1>5, <1>6, <1>7, <1>8 DEF InMay, Others, On
    <2>2. Born(w)'
      BY <1>2, <1>1, <1>3, <1>4, <1>5, <1>6, <1>7, <1>8 DEF Born, Unborn,
         Untouched, OpsNamed, Others, On, CreatePcs, PatchPcs, BumpPcs,
         WrittenPcs, CorePcs
    <2>3. Durable(w)'
      BY <1>2, <1>1, <1>3, <1>4, <1>5, <1>6, <1>7, <1>8 DEF Durable, Others,
         On
    <2>4. Leased(w)'
      BY <1>2, <1>1, <1>3, <1>4, <1>5, <1>6, <1>7, <1>8 DEF Leased, Exists,
         Others, On, UploadLeased, TreeDeletePcs, WsDeletePcs
    <2>5. Locked(w)'
      BY <1>2, <1>1, <1>3, <1>4, <1>5, <1>6, <1>7, <1>8 DEF Locked, Others,
         On, BumpPcs, WrittenPcs
    <2>6. Gone(w)'
      BY <1>2, <1>1, <1>3, <1>4, <1>5, <1>6, <1>7, <1>8 DEF Gone, Exists,
         Others, On, PatchPcs
    <2>7. Patching(w)'
      BY <1>2, <1>1, <1>3, <1>4, <1>5, <1>6, <1>7, <1>8 DEF Patching, Exists,
         Fine, Locked, Others, On, PatchPcs, BumpPcs, WrittenPcs
    <2>8. Inserting(w)'
      BY <1>2, <1>1, <1>3, <1>4, <1>5, <1>6, <1>7, <1>8 DEF Inserting,
         Exists, Others, On
    <2>9. DataOne(w)'
      BY <1>2, <1>1, <1>3, <1>4, <1>5, <1>6, <1>7, <1>8 DEF DataOne, Fine,
         Exists, Moved, Others, On, MovedPcs
    <2>10. CellBelow(w)'
      BY <1>2, <1>1, <1>3, <1>4, <1>5, <1>6, <1>7, <1>8 DEF CellBelow, Fine,
         Exists, CellOf, Cored, Numbers, Inserting, Others, On
    <2>11. Bumping(w)'
      BY <1>2, <1>1, <1>3, <1>4, <1>5, <1>6, <1>7, <1>8 DEF Bumping, Fine,
         Locked, Others, On, BumpPcs, WrittenPcs
    <2>12. HeadsBelow(w)'
      BY <1>2, <1>1, <1>3, <1>4, <1>5, <1>6, <1>7, <1>8 DEF HeadsBelow, Fine,
         Cored, Others, On
    <2>13. HeadsCell(w)'
      BY <1>2, <1>1, <1>3, <1>4, <1>5, <1>6, <1>7, <1>8 DEF HeadsCell, Fine,
         Exists, Moved, CellOf, Inserting, Others, On, MovedPcs
    <2>14. Training(w)'
      BY <1>2, <1>1, <1>3, <1>4, <1>5, <1>6, <1>7, <1>8 DEF Training, Fine,
         Exists, Moved, Inserting, Others, On, MovedPcs
    <2> QED
      BY <2>1, <2>2, <2>3, <2>4, <2>5, <2>6, <2>7, <2>8, <2>9, <2>10, <2>11,
         <2>12, <2>13, <2>14 DEF Sound
  <1> QED
    BY <1>2, <1>9, <1>10, <1>11, <1>12, <1>13, FrameStep DEF Inv


\* A request that returns without another write leaves the rest as it was,
\* unless its bytes had moved: then the workspace is suspect.
LEMMA EndStep ==
  ASSUME Inv, NEW c \in Clients,
         op[c].pc # "idle",
         phase = "up",
         TypeOK',
         Finish(c),
         UNCHANGED <<tree, treeMay, cell, heads, train, trains, kept, acked, deleted,
                     doomed, raced, loose, crashes, phase>>,
         suspect' = suspect \/ suspect' = suspect \cup {op[c].ws},
         On(c, MovedPcs, op[c].ws) => op[c].ws \in suspect'
  PROVE  Inv'
  <1>1. PICK w \in Workspaces :
          op[c].ws = w /\ op[c].pc # "idle" /\ phase = "up"
    BY DEF Inv, OpsNamed, TypeOK
  <1>2. /\ None \notin Clients /\ None \notin Workspaces
        /\ TypeOK /\ OpsNamed /\ OneDelete /\ \A v \in Workspaces : Locked(v)
        /\ Numbers(w) /\ InMay(w) /\ Born(w) /\ Durable(w) /\ Leased(w) /\ Locked(w)
        /\ Gone(w) /\ Patching(w) /\ Inserting(w) /\ DataOne(w)
        /\ CellBelow(w) /\ Bumping(w) /\ HeadsBelow(w) /\ HeadsCell(w)
        /\ Training(w)
    BY NumberFacts, WorkspaceAssumption DEF Inv, Sound
  <1>3. /\ op'[c].pc = "idle" /\ op'[c].ws = None /\ Others(c)
        /\ op' \in [Clients -> Requests] /\ regLock' \in Clients \cup {None}
        /\ metaLock' \in [Workspaces -> Clients \cup {None, Trainer}]
        /\ metaLock'[w] # c /\ metaLock'[w] \in {None, metaLock[w]}
        /\ (metaLock[w] # c => metaLock'[w] = metaLock[w])
        /\ \A v \in Workspaces \ {w} : metaLock'[v] = metaLock[v]
        /\ minted' = minted
    BY <1>1, <1>2, FinishFacts
  <1>4. UNCHANGED <<phase, tree, treeMay, cell, heads, train, trains, kept,
     acked, deleted, doomed, raced, loose, crashes>>
    OBVIOUS
  <1>5. /\ suspect' = suspect \/ suspect' = suspect \cup {w}
        /\ On(c, MovedPcs, w) => w \in suspect'
    BY <1>1
  <1>6. TypeOK'
    OBVIOUS
  <1>7. BootQuiet' /\ OpsNamed' /\ OneDelete'
    <2>1. BootQuiet' /\ OpsNamed'
      BY <1>2, <1>1, <1>3, <1>4, <1>5 DEF BootQuiet, OpsNamed, TypeOK,
         Others, On, CreatePcs, PatchPcs, BumpPcs, WrittenPcs, MovedPcs,
         CorePcs
    <2>2. OneDelete'
      BY <1>2, <1>1, <1>3, <1>4, <1>5 DEF OneDelete, Others, On,
         TreeDeletePcs, WsDeletePcs, MovedPcs
    <2> QED
      BY <2>1, <2>2
  <1>8. DataBounded'
    <2>1. PICK B \in Nat : Below(B)
      BY DEF Inv, DataBounded
    <2>2. Below(B)'
      BY <1>2, <2>1, <1>1, <1>3, <1>4, <1>5, EmptyDirFacts DEF Below, InMay, Exists
    <2> QED
      BY <2>2 DEF DataBounded
  <1>9. \A v \in Workspaces \ {w} : Same(v)
    BY <1>2, <1>1, <1>3, <1>4, <1>5 DEF Same, Others, TypeOK, OpsNamed
  <1>10. Sound(w)'
    <2>1. InMay(w)'
      BY <1>2, <1>1, <1>3, <1>4, <1>5 DEF InMay, Others, On, MovedPcs
    <2>2. Born(w)'
      BY <1>2, <1>1, <1>3, <1>4, <1>5 DEF Born, Unborn, Untouched, OpsNamed,
         Others, On, CreatePcs, PatchPcs, BumpPcs, WrittenPcs, MovedPcs,
         CorePcs
    <2>3. Durable(w)'
      BY <1>2, <1>1, <1>3, <1>4, <1>5 DEF Durable, Others, On, MovedPcs
    <2>4. Leased(w)'
      BY <1>2, <1>1, <1>3, <1>4, <1>5 DEF Leased, Exists, Others, On,
         UploadLeased, TreeDeletePcs, WsDeletePcs, MovedPcs
    <2>5. Locked(w)'
      BY <1>2, <1>1, <1>3, <1>4, <1>5 DEF Locked, Others, On, BumpPcs,
         WrittenPcs, MovedPcs
    <2>6. Gone(w)'
      BY <1>2, <1>1, <1>3, <1>4, <1>5 DEF Gone, Exists, Others, On, PatchPcs,
         MovedPcs
    <2>7. Patching(w)'
      BY <1>2, <1>1, <1>3, <1>4, <1>5 DEF Patching, Exists, Fine, Others, On,
         PatchPcs, MovedPcs
    <2>8. Inserting(w)'
      BY <1>2, <1>1, <1>3, <1>4, <1>5 DEF Inserting, Exists, Others, On,
         MovedPcs
    <2>9. DataOne(w)'
      BY <1>2, <1>1, <1>3, <1>4, <1>5 DEF DataOne, Fine, Exists, Moved,
         Others, On, MovedPcs
    <2>10. CellBelow(w)'
      BY <1>2, <1>1, <1>3, <1>4, <1>5 DEF CellBelow, Fine, Exists, CellOf,
         Cored, Others, On, MovedPcs
    <2>11. Bumping(w)'
      BY <1>2, <1>1, <1>3, <1>4, <1>5 DEF Bumping, Fine, Others, On, BumpPcs,
         WrittenPcs, MovedPcs
    <2>12. HeadsBelow(w)'
      BY <1>2, <1>1, <1>3, <1>4, <1>5 DEF HeadsBelow, Fine, Cored, Others,
         On, MovedPcs
    <2>13. HeadsCell(w)'
      BY <1>2, <1>1, <1>3, <1>4, <1>5 DEF HeadsCell, Fine, Exists, Moved,
         CellOf, Others, On, MovedPcs
    <2>14. Training(w)'
      BY <1>2, <1>1, <1>3, <1>4, <1>5 DEF Training, Fine, Exists, Moved,
         Others, On, MovedPcs
    <2> QED
      BY <2>1, <2>2, <2>3, <2>4, <2>5, <2>6, <2>7, <2>8, <2>9, <2>10, <2>11,
         <2>12, <2>13, <2>14 DEF Sound
  <1> QED
    BY <1>2, <1>6, <1>7, <1>8, <1>9, <1>10, FrameStep DEF Inv

\* PATCH takes the lock and the cell.
LEMMA PatchCellStep ==
  ASSUME Inv, NEW c \in Clients, PatchCell(c), CanLoad(op[c].ws)
  PROVE  Inv'
  <1>1. PICK w \in Workspaces :
          op[c].ws = w /\ op[c].pc = "patchCell" /\ phase = "up"
    BY DEF Inv, OpsNamed, TypeOK, At, PatchCell
  <1>2. /\ None \notin Clients /\ None \notin Workspaces
        /\ TypeOK /\ OpsNamed /\ OneDelete /\ \A v \in Workspaces : Locked(v)
        /\ Numbers(w) /\ InMay(w) /\ Born(w) /\ Durable(w) /\ Leased(w) /\ Locked(w)
        /\ Gone(w) /\ Patching(w) /\ Inserting(w) /\ DataOne(w)
        /\ CellBelow(w) /\ Bumping(w) /\ HeadsBelow(w) /\ HeadsCell(w)
        /\ Training(w)
    BY NumberFacts, WorkspaceAssumption DEF Inv, Sound
  <1>3. /\ op'[c].pc = "patchCore" /\ op'[c].ws = w /\ op'[c].core = Core(op[c].core.name, CellOf(w).rev)
        /\ Others(c) /\ op' \in [Clients -> Requests]
        /\ op'[c].core # None /\ op'[c].core.rev = CellOf(w).rev
    <2>1. CellOf(w).rev \in Nat /\ op[c].core.name \in Names
      BY <1>1, <1>2, NoneAssumption DEF CellOf, CanLoad, Exists, Numbers, InMay, OpsNamed, CorePcs, PatchPcs, Cores
    <2>2. Core(op[c].core.name, CellOf(w).rev) \in Cores
      BY <2>1 DEF Core, Cores
    <2>3. GotoWith(c, "patchCore", Core(op[c].core.name, CellOf(w).rev))
      BY <1>1 DEF PatchCell
    <2>4. /\ Core(op[c].core.name, CellOf(w).rev).rev = CellOf(w).rev
          /\ Core(op[c].core.name, CellOf(w).rev) # None
      BY <2>2, NoneAssumption DEF Core
    <2>5. "patchCore" \in Pcs
      BY DEF Pcs, PatchPcs
    <2> QED
      BY <1>1, <1>2, <2>2, <2>3, <2>4, <2>5, GotoWithFacts
  <1>4. UNCHANGED <<phase, tree, treeMay, tmp, tmpDurable, regLock, ops,
     minted, heads, train, trains, kept, acked, deleted, doomed, raced,
     suspect, loose, faults, crashes>>
    BY DEF PatchCell, diskVars, lockVars, reqVars, trainVars, ghostVars,
       bounds, Goto, GotoWith, Finish, Start, Acknowledge, Load, LoadListed,
       At
  <1>5. /\ cell' \in [Workspaces -> Cores \cup {None}] /\ cell'[w] = CellOf(w)
        /\ CellOf(w) \in Cores /\ CellOf(w) # None /\ CellOf(w).rev \in Nat
        /\ \A v \in Workspaces \ {w} : cell'[v] = cell[v]
    <2>1. CellOf(w) \in Cores /\ CellOf(w) # None
      BY <1>1, <1>2, NoneAssumption DEF CellOf, CanLoad, Exists, Numbers, InMay, Leased
    <2>2. CellOf(w).rev \in Nat
      BY <2>1 DEF Cores
    <2>3. cell' = [cell EXCEPT ![w] = CellOf(w)]
      BY <1>1 DEF PatchCell, Load
    <2> QED
      BY <1>2, <2>1, <2>2, <2>3 DEF TypeOK
  <1>6. /\ metaLock[w] = None /\ metaLock'[w] = c
        /\ metaLock' \in [Workspaces -> Clients \cup {None, Trainer}]
        /\ \A v \in Workspaces \ {w} : metaLock'[v] = metaLock[v]
    BY <1>1, <1>2 DEF PatchCell, TypeOK
  <1>7. TypeOK'
    BY <1>2, <1>1, <1>3, <1>4, <1>5, <1>6 DEF TypeOK
  <1>8. BootQuiet' /\ OpsNamed' /\ OneDelete'
    <2>1. BootQuiet' /\ OpsNamed'
      BY <1>2, <1>1, <1>3, <1>4, <1>5, <1>6 DEF BootQuiet, OpsNamed, TypeOK,
         Others, On, CreatePcs, PatchPcs, BumpPcs, WrittenPcs, CorePcs
    <2>2. OneDelete'
      BY <1>2, <1>1, <1>3, <1>4, <1>5, <1>6 DEF OneDelete, Others, On,
         TreeDeletePcs, WsDeletePcs
    <2> QED
      BY <2>1, <2>2
  <1>9. DataBounded'
    BY <1>4 DEF Inv, DataBounded, Below
  <1>10. \A v \in Workspaces \ {w} : Same(v)
    BY <1>2, <1>1, <1>3, <1>4, <1>5, <1>6 DEF Same, Others, TypeOK, OpsNamed
  <1>11. Sound(w)'
    <2>1. InMay(w)'
      BY <1>2, <1>1, <1>3, <1>4, <1>5, <1>6 DEF InMay, Others, On
    <2>2. Born(w)'
      BY <1>2, <1>1, <1>3, <1>4, <1>5, <1>6, EmptyDirFacts DEF Born, Unborn,
         Untouched, OpsNamed, CanLoad, Exists, InMay, Others, On, CreatePcs,
         PatchPcs, BumpPcs, WrittenPcs, CorePcs
    <2>3. Durable(w)'
      BY <1>2, <1>1, <1>3, <1>4, <1>5, <1>6 DEF Durable, Others, On
    <2>4. Leased(w)'
      BY <1>2, <1>1, <1>3, <1>4, <1>5, <1>6 DEF Leased, Exists, Others, On,
         UploadLeased, TreeDeletePcs, WsDeletePcs
    <2>5. Locked(w)'
      BY <1>2, <1>1, <1>3, <1>4, <1>5, <1>6 DEF Locked, Others, On, BumpPcs,
         WrittenPcs
    <2>6. Gone(w)'
      BY <1>2, <1>1, <1>3, <1>4, <1>5, <1>6 DEF Gone, Exists, Others, On,
         PatchPcs
    <2>7. Patching(w)'
      BY <1>2, <1>1, <1>3, <1>4, <1>5, <1>6 DEF Patching, Exists, Fine,
         CellOf, Others, On, PatchPcs
    <2>8. Inserting(w)'
      BY <1>2, <1>1, <1>3, <1>4, <1>5, <1>6 DEF Inserting, Exists, CellOf,
         Others, On
    <2>9. DataOne(w)'
      BY <1>2, <1>1, <1>3, <1>4, <1>5, <1>6 DEF DataOne, Fine, Exists, Moved,
         Others, On, MovedPcs
    <2>10. CellBelow(w)'
      BY <1>2, <1>1, <1>3, <1>4, <1>5, <1>6 DEF CellBelow, Fine, Exists,
         CellOf, Cored, Others, On
    <2>11. Bumping(w)'
      BY <1>2, <1>1, <1>3, <1>4, <1>5, <1>6 DEF Bumping, Fine, Locked,
         Others, On, BumpPcs, WrittenPcs
    <2>12. HeadsBelow(w)'
      BY <1>2, <1>1, <1>3, <1>4, <1>5, <1>6 DEF HeadsBelow, Fine, Cored,
         Others, On
    <2>13. HeadsCell(w)'
      BY <1>2, <1>1, <1>3, <1>4, <1>5, <1>6 DEF HeadsCell, Fine, Exists,
         Moved, CellOf, Others, On, MovedPcs
    <2>14. Training(w)'
      BY <1>2, <1>1, <1>3, <1>4, <1>5, <1>6 DEF Training, Fine, Exists,
         Moved, CellOf, Others, On, MovedPcs
    <2> QED
      BY <2>1, <2>2, <2>3, <2>4, <2>5, <2>6, <2>7, <2>8, <2>9, <2>10, <2>11,
         <2>12, <2>13, <2>14 DEF Sound
  <1> QED
    BY <1>2, <1>7, <1>8, <1>9, <1>10, <1>11, FrameStep DEF Inv

\* PATCH writes workspace.json.
LEMMA PatchCoreStep ==
  ASSUME Inv, NEW c \in Clients, PatchCore(c), tree[op[c].ws] # None
  PROVE  Inv'
  <1>1. PICK w \in Workspaces :
          op[c].ws = w /\ op[c].pc = "patchCore" /\ phase = "up"
    BY DEF Inv, OpsNamed, TypeOK, At, PatchCore
  <1>2. /\ None \notin Clients /\ None \notin Workspaces
        /\ TypeOK /\ OpsNamed /\ OneDelete /\ \A v \in Workspaces : Locked(v)
        /\ Numbers(w) /\ InMay(w) /\ Born(w) /\ Durable(w) /\ Leased(w) /\ Locked(w)
        /\ Gone(w) /\ Patching(w) /\ Inserting(w) /\ DataOne(w)
        /\ CellBelow(w) /\ Bumping(w) /\ HeadsBelow(w) /\ HeadsCell(w)
        /\ Training(w)
    BY NumberFacts, WorkspaceAssumption DEF Inv, Sound
  <1>3. /\ op'[c].pc = "idle" /\ op'[c].ws = None /\ Others(c)
        /\ op' \in [Clients -> Requests] /\ regLock' \in Clients \cup {None}
        /\ metaLock' \in [Workspaces -> Clients \cup {None, Trainer}]
        /\ metaLock'[w] # c /\ metaLock'[w] \in {None, metaLock[w]}
        /\ (metaLock[w] # c => metaLock'[w] = metaLock[w])
        /\ \A v \in Workspaces \ {w} : metaLock'[v] = metaLock[v]
    BY <1>1, <1>2, FinishFacts DEF PatchCore
  <1>4. UNCHANGED <<phase, tmp, tmpDurable, ops, minted, heads, train,
     trains, kept, acked, deleted, doomed, raced, suspect, loose, faults, crashes>>
    BY DEF PatchCore, diskVars, lockVars, reqVars, trainVars, ghostVars,
       bounds, Goto, GotoWith, Finish, Start, Acknowledge, Load, LoadListed,
       At
  <1>5. op[c].core \in Cores /\ op[c].core # None /\ tree[w] # None
    BY <1>1, <1>2, NoneAssumption DEF OpsNamed, Numbers, CorePcs, CreatePcs,
       PatchPcs, BumpPcs, WrittenPcs
  <1>6. /\ tree' \in [Workspaces -> Dirs \cup {None}]
        /\ treeMay' \in [Workspaces -> SUBSET (Dirs \cup {None})]
        /\ InMay(w)'
        /\ tree'[w] # None /\ tree'[w].core = op[c].core /\ tree'[w].data = tree[w].data
        /\ \A m \in treeMay'[w] : m # None =>
             /\ m.core = op[c].core
             /\ \E o \in treeMay[w] : o # None /\ m.data = o.data
        /\ None \in treeMay'[w] => None \in treeMay[w]
        /\ \A v \in Workspaces \ {w} :
             tree'[v] = tree[v] /\ treeMay'[v] = treeMay[v]
    BY <1>1, <1>2, <1>5, PutCoreFacts DEF PatchCore
  <1>7. /\ cell' \in [Workspaces -> Cores \cup {None}]
        /\ cell'[w] = IF cell[w] # None THEN op[c].core ELSE None
        /\ \A v \in Workspaces \ {w} : cell'[v] = cell[v]
    BY <1>1, <1>2, <1>5 DEF PatchCore, TypeOK
  <1>8. TypeOK'
    BY <1>2, <1>1, <1>3, <1>4, <1>5, <1>6, <1>7 DEF TypeOK
  <1>9. BootQuiet' /\ OpsNamed' /\ OneDelete'
    <2>1. BootQuiet' /\ OpsNamed'
      BY <1>2, <1>1, <1>3, <1>4, <1>5, <1>6, <1>7 DEF BootQuiet, OpsNamed,
         TypeOK, Others, On, CreatePcs, PatchPcs, BumpPcs, WrittenPcs,
         CorePcs
    <2>2. OneDelete'
      BY <1>2, <1>1, <1>3, <1>4, <1>5, <1>6, <1>7 DEF OneDelete, Others, On,
         TreeDeletePcs, WsDeletePcs
    <2> QED
      BY <2>1, <2>2
  <1>10. DataBounded'
    <2>1. PICK B \in Nat : Below(B)
      BY DEF Inv, DataBounded
    <2>2. Below(B)'
      BY <1>2, <2>1, <1>1, <1>3, <1>4, <1>5, <1>6, <1>7, EmptyDirFacts DEF Below, InMay, Exists
    <2> QED
      BY <2>2 DEF DataBounded
  <1>11. \A v \in Workspaces \ {w} : Same(v)
    BY <1>2, <1>1, <1>3, <1>4, <1>5, <1>6, <1>7 DEF Same, Others, TypeOK,
       OpsNamed
  <1>12. Sound(w)'
    <2>1. InMay(w)'
      BY <1>2, <1>1, <1>3, <1>4, <1>5, <1>6, <1>7 DEF InMay, Others, On
    <2>2. Born(w)'
      BY <1>2, <1>1, <1>3, <1>4, <1>5, <1>6, <1>7 DEF Born, Unborn,
         Untouched, OpsNamed, Others, On, CreatePcs, PatchPcs, BumpPcs,
         WrittenPcs, CorePcs
    <2>3. Durable(w)'
      BY <1>2, <1>1, <1>3, <1>4, <1>5, <1>6, <1>7 DEF Durable, Others, On
    <2>4. Leased(w)'
      BY <1>2, <1>1, <1>3, <1>4, <1>5, <1>6, <1>7 DEF Leased, Exists, Others,
         On, UploadLeased, TreeDeletePcs, WsDeletePcs
    <2>5. Locked(w)'
      BY <1>2, <1>1, <1>3, <1>4, <1>5, <1>6, <1>7 DEF Locked, Others, On,
         BumpPcs, WrittenPcs
    <2>6. Gone(w)'
      BY <1>2, <1>1, <1>3, <1>4, <1>5, <1>6, <1>7 DEF Gone, Exists, Patching,
         Others, On, PatchPcs
    <2>7. Patching(w)'
      BY <1>2, <1>1, <1>3, <1>4, <1>5, <1>6, <1>7 DEF Patching, Exists, Fine,
         Locked, Others, On, PatchPcs, BumpPcs, WrittenPcs
    <2>8. Inserting(w)'
      BY <1>2, <1>1, <1>3, <1>4, <1>5, <1>6, <1>7 DEF Inserting, Exists,
         Locked, Patching, Others, On, PatchPcs, BumpPcs, WrittenPcs
    <2>9. DataOne(w)'
      BY <1>2, <1>1, <1>3, <1>4, <1>5, <1>6, <1>7 DEF DataOne, Fine, Exists,
         Moved, Locked, Patching, InMay, Others, On, PatchPcs, BumpPcs,
         WrittenPcs, MovedPcs
    <2>10. CellBelow(w)'
      BY <1>2, <1>1, <1>3, <1>4, <1>5, <1>6, <1>7 DEF CellBelow, Fine,
         Exists, CellOf, Cored, Numbers, Patching, Others, On, PatchPcs
    <2>11. Bumping(w)'
      BY <1>2, <1>1, <1>3, <1>4, <1>5, <1>6, <1>7 DEF Bumping, Fine,
         Patching, Locked, Others, On, PatchPcs, BumpPcs, WrittenPcs
    <2>12. HeadsBelow(w)'
      BY <1>2, <1>1, <1>3, <1>4, <1>5, <1>6, <1>7 DEF HeadsBelow, Fine,
         Cored, Numbers, Patching, HeadsCell, CellOf, Exists, DataOne, Moved,
         Locked, InMay, Others, On, PatchPcs, BumpPcs, WrittenPcs, MovedPcs
    <2>13. HeadsCell(w)'
      BY <1>2, <1>1, <1>3, <1>4, <1>5, <1>6, <1>7 DEF HeadsCell, Fine,
         Exists, Moved, CellOf, Patching, Others, On, PatchPcs, MovedPcs
    <2>14. Training(w)'
      BY <1>2, <1>1, <1>3, <1>4, <1>5, <1>6, <1>7 DEF Training, Fine, Exists,
         Moved, Patching, Others, On, PatchPcs, MovedPcs
    <2> QED
      BY <2>1, <2>2, <2>3, <2>4, <2>5, <2>6, <2>7, <2>8, <2>9, <2>10, <2>11,
         <2>12, <2>13, <2>14 DEF Sound
  <1> QED
    BY <1>2, <1>8, <1>9, <1>10, <1>11, <1>12, FrameStep DEF Inv


\* The body goes to a temporary file.
LEMMA UploadTmpStep ==
  ASSUME Inv, NEW c \in Clients, UploadTmp(c)
  PROVE  Inv'
  <1>1. PICK w \in Workspaces :
          op[c].ws = w /\ op[c].pc = "upTmp" /\ phase = "up"
    BY DEF Inv, OpsNamed, TypeOK, At, UploadTmp
  <1>2. /\ None \notin Clients /\ None \notin Workspaces
        /\ TypeOK /\ OpsNamed /\ OneDelete /\ \A v \in Workspaces : Locked(v)
        /\ Numbers(w) /\ InMay(w) /\ Born(w) /\ Durable(w) /\ Leased(w) /\ Locked(w)
        /\ Gone(w) /\ Patching(w) /\ Inserting(w) /\ DataOne(w)
        /\ CellBelow(w) /\ Bumping(w) /\ HeadsBelow(w) /\ HeadsCell(w)
        /\ Training(w)
    BY NumberFacts, WorkspaceAssumption DEF Inv, Sound
  <1>3. /\ op'[c].pc \in {"upLease", "idle"} /\ op'[c].ws \in {w, None}
        /\ (op'[c].pc = "idle" <=> op'[c].ws = None)
        /\ Others(c) /\ op' \in [Clients -> Requests] /\ minted' = minted
        /\ regLock' \in Clients \cup {None}
        /\ metaLock' \in [Workspaces -> Clients \cup {None, Trainer}]
        /\ metaLock'[w] = c => op'[c].ws = w
        /\ metaLock'[w] \in {None, metaLock[w]}
        /\ metaLock[w] # c => metaLock'[w] = metaLock[w]
        /\ \A v \in Workspaces \ {w} : metaLock'[v] = metaLock[v]
    <2>1. CASE Goto(c, "upLease") /\ UNCHANGED lockVars
      BY <1>1, <1>2, <2>1, GotoFacts DEF Pcs, lockVars, TypeOK
    <2>2. CASE Finish(c)
      BY <1>1, <1>2, <2>2, FinishFacts
    <2> QED
      BY <2>1, <2>2 DEF UploadTmp
  <1>4. UNCHANGED <<phase, tmp, tmpDurable, cell, ops, minted, heads, train,
     trains, kept, acked, deleted, doomed, raced, suspect, loose, faults, crashes>>
    BY DEF UploadTmp, diskVars, lockVars, reqVars, trainVars, ghostVars,
       bounds, Goto, GotoWith, Finish, Start, Acknowledge, Load, LoadListed,
       At
  <1>5. /\ tree' \in [Workspaces -> Dirs \cup {None}]
        /\ treeMay' \in [Workspaces -> SUBSET (Dirs \cup {None})]
        /\ InMay(w)'
        /\ \/ tree[w] # None /\ tree'[w] = tree[w] /\ treeMay'[w] = treeMay[w]
           \/ /\ tree[w] = None /\ tree'[w] = EmptyDir
              /\ treeMay'[w] = treeMay[w] \cup {EmptyDir}
        /\ \A v \in Workspaces \ {w} :
             tree'[v] = tree[v] /\ treeMay'[v] = treeMay[v]
    BY <1>1, <1>2, MkdirFacts DEF UploadTmp
  <1>6. EmptyDir # None /\ EmptyDir.core = None /\ EmptyDir.data = 0
    BY EmptyDirFacts
  <1>7. TypeOK'
    BY <1>2, <1>1, <1>3, <1>4, <1>5, <1>6 DEF TypeOK
  <1>8. BootQuiet' /\ OpsNamed' /\ OneDelete'
    <2>1. BootQuiet' /\ OpsNamed'
      BY <1>2, <1>1, <1>3, <1>4, <1>5, <1>6 DEF BootQuiet, OpsNamed, TypeOK,
         Others, On, CreatePcs, PatchPcs, BumpPcs, WrittenPcs, CorePcs
    <2>2. OneDelete'
      BY <1>2, <1>1, <1>3, <1>4, <1>5, <1>6 DEF OneDelete, Others, On,
         TreeDeletePcs, WsDeletePcs
    <2> QED
      BY <2>1, <2>2
  <1>9. DataBounded'
    <2>1. PICK B \in Nat : Below(B)
      BY DEF Inv, DataBounded
    <2>2. Below(B)'
      BY <1>2, <2>1, <1>1, <1>3, <1>4, <1>5, <1>6, EmptyDirFacts DEF Below, InMay, Exists
    <2> QED
      BY <2>2 DEF DataBounded
  <1>10. \A v \in Workspaces \ {w} : Same(v)
    BY <1>2, <1>1, <1>3, <1>4, <1>5, <1>6 DEF Same, Others, TypeOK, OpsNamed
  <1>11. Sound(w)'
    <2>1. InMay(w)'
      BY <1>2, <1>1, <1>3, <1>4, <1>5, <1>6 DEF InMay, Others, On
    <2>2. Born(w)'
      BY <1>2, <1>1, <1>3, <1>4, <1>5, <1>6 DEF Born, Unborn, Untouched,
         OpsNamed, InMay, Others, On, CreatePcs, PatchPcs, BumpPcs,
         WrittenPcs, CorePcs
    <2>3. Durable(w)'
      BY <1>2, <1>1, <1>3, <1>4, <1>5, <1>6 DEF Durable, InMay, Others, On
    <2>4. Leased(w)'
      BY <1>2, <1>1, <1>3, <1>4, <1>5, <1>6 DEF Leased, Exists, Others, On,
         UploadLeased, TreeDeletePcs, WsDeletePcs
    <2>5. Locked(w)'
      BY <1>2, <1>1, <1>3, <1>4, <1>5, <1>6 DEF Locked, Others, On, BumpPcs,
         WrittenPcs
    <2>6. Gone(w)'
      BY <1>2, <1>1, <1>3, <1>4, <1>5, <1>6 DEF Gone, Exists, InMay, Others,
         On, PatchPcs
    <2>7. Patching(w)'
      BY <1>2, <1>1, <1>3, <1>4, <1>5, <1>6 DEF Patching, Exists, Fine,
         Locked, Others, On, PatchPcs, BumpPcs, WrittenPcs
    <2>8. Inserting(w)'
      BY <1>2, <1>1, <1>3, <1>4, <1>5, <1>6 DEF Inserting, Exists, Others, On
    <2>9. DataOne(w)'
      BY <1>2, <1>1, <1>3, <1>4, <1>5, <1>6 DEF DataOne, Fine, Exists, Moved,
         Others, On, MovedPcs
    <2>10. CellBelow(w)'
      BY <1>2, <1>1, <1>3, <1>4, <1>5, <1>6 DEF CellBelow, Fine, Exists,
         CellOf, Cored, Others, On
    <2>11. Bumping(w)'
      BY <1>2, <1>1, <1>3, <1>4, <1>5, <1>6 DEF Bumping, Fine, Leased,
         Exists, Others, On, UploadLeased, TreeDeletePcs, WsDeletePcs,
         BumpPcs, WrittenPcs
    <2>12. HeadsBelow(w)'
      BY <1>2, <1>1, <1>3, <1>4, <1>5, <1>6 DEF HeadsBelow, Fine, Cored,
         Others, On
    <2>13. HeadsCell(w)'
      BY <1>2, <1>1, <1>3, <1>4, <1>5, <1>6 DEF HeadsCell, Fine, Exists,
         Moved, CellOf, Others, On, MovedPcs
    <2>14. Training(w)'
      BY <1>2, <1>1, <1>3, <1>4, <1>5, <1>6 DEF Training, Fine, Exists,
         Moved, Others, On, MovedPcs
    <2> QED
      BY <2>1, <2>2, <2>3, <2>4, <2>5, <2>6, <2>7, <2>8, <2>9, <2>10, <2>11,
         <2>12, <2>13, <2>14 DEF Sound
  <1> QED
    BY <1>2, <1>7, <1>8, <1>9, <1>10, <1>11, FrameStep DEF Inv

\* The lease.
LEMMA UploadLeaseStep ==
  ASSUME Inv, NEW c \in Clients, UploadLease(c), LeaseFree(op[c].ws), Exists(op[c].ws)
  PROVE  Inv'
  <1>1. PICK w \in Workspaces :
          op[c].ws = w /\ op[c].pc = "upLease" /\ phase = "up"
    BY DEF Inv, OpsNamed, TypeOK, At, UploadLease
  <1>2. /\ None \notin Clients /\ None \notin Workspaces
        /\ TypeOK /\ OpsNamed /\ OneDelete /\ \A v \in Workspaces : Locked(v)
        /\ Numbers(w) /\ InMay(w) /\ Born(w) /\ Durable(w) /\ Leased(w) /\ Locked(w)
        /\ Gone(w) /\ Patching(w) /\ Inserting(w) /\ DataOne(w)
        /\ CellBelow(w) /\ Bumping(w) /\ HeadsBelow(w) /\ HeadsCell(w)
        /\ Training(w)
    BY NumberFacts, WorkspaceAssumption DEF Inv, Sound
  <1>3. /\ op'[c].pc = "upCell" /\ op'[c].ws = w /\ op'[c].core = op[c].core
        /\ Others(c) /\ op' \in [Clients -> Requests]
    BY <1>1, <1>2, GotoFacts DEF UploadLease, Pcs, On, CreatePcs, PatchPcs,
       UploadLeased, TreeDeletePcs, WsDeletePcs, BumpPcs, WrittenPcs,
       MovedPcs, CorePcs
  <1>4. UNCHANGED <<phase, tree, treeMay, tmp, tmpDurable, cell, regLock,
     metaLock, ops, minted, heads, train, trains, kept, acked, deleted,
     doomed, raced, suspect, loose, faults, crashes>>
    BY DEF UploadLease, diskVars, lockVars, reqVars, trainVars, ghostVars,
       bounds, Goto, GotoWith, Finish, Start, Acknowledge, Load, LoadListed,
       At
  <1>5. Exists(w) /\ \A d \in Clients : ~On(d, WsDeletePcs, w)
    BY <1>1 DEF LeaseFree, Running, On
  <1>6. TypeOK'
    BY <1>2, <1>1, <1>3, <1>4, <1>5 DEF TypeOK
  <1>7. BootQuiet' /\ OpsNamed' /\ OneDelete'
    <2>1. BootQuiet' /\ OpsNamed'
      BY <1>2, <1>1, <1>3, <1>4, <1>5 DEF BootQuiet, OpsNamed, TypeOK,
         Others, On, CreatePcs, PatchPcs, WsDeletePcs, BumpPcs, WrittenPcs,
         CorePcs
    <2>2. OneDelete'
      BY <1>2, <1>1, <1>3, <1>4, <1>5 DEF OneDelete, Others, On,
         TreeDeletePcs, WsDeletePcs
    <2> QED
      BY <2>1, <2>2
  <1>8. DataBounded'
    BY <1>4 DEF Inv, DataBounded, Below
  <1>9. \A v \in Workspaces \ {w} : Same(v)
    BY <1>2, <1>1, <1>3, <1>4, <1>5 DEF Same, Others, TypeOK, OpsNamed
  <1>10. Sound(w)'
    <2>1. InMay(w)'
      BY <1>2, <1>1, <1>3, <1>4, <1>5 DEF InMay, Others, On, WsDeletePcs
    <2>2. Born(w)'
      BY <1>2, <1>1, <1>3, <1>4, <1>5 DEF Born, Unborn, Untouched, OpsNamed,
         Others, On, CreatePcs, PatchPcs, WsDeletePcs, BumpPcs, WrittenPcs,
         CorePcs
    <2>3. Durable(w)'
      BY <1>2, <1>1, <1>3, <1>4, <1>5 DEF Durable, Others, On, WsDeletePcs
    <2>4. Leased(w)'
      BY <1>2, <1>1, <1>3, <1>4, <1>5 DEF Leased, Exists, Others, On,
         UploadLeased, TreeDeletePcs, WsDeletePcs
    <2>5. Locked(w)'
      BY <1>2, <1>1, <1>3, <1>4, <1>5 DEF Locked, Others, On, WsDeletePcs,
         BumpPcs, WrittenPcs
    <2>6. Gone(w)'
      BY <1>2, <1>1, <1>3, <1>4, <1>5 DEF Gone, Exists, Others, On, PatchPcs,
         WsDeletePcs
    <2>7. Patching(w)'
      BY <1>2, <1>1, <1>3, <1>4, <1>5 DEF Patching, Exists, Fine, Others, On,
         PatchPcs, WsDeletePcs
    <2>8. Inserting(w)'
      BY <1>2, <1>1, <1>3, <1>4, <1>5 DEF Inserting, Exists, Others, On,
         WsDeletePcs
    <2>9. DataOne(w)'
      BY <1>2, <1>1, <1>3, <1>4, <1>5 DEF DataOne, Fine, Exists, Moved,
         Others, On, WsDeletePcs, MovedPcs
    <2>10. CellBelow(w)'
      BY <1>2, <1>1, <1>3, <1>4, <1>5 DEF CellBelow, Fine, Exists, CellOf,
         Cored, Others, On, WsDeletePcs
    <2>11. Bumping(w)'
      BY <1>2, <1>1, <1>3, <1>4, <1>5 DEF Bumping, Fine, Others, On,
         WsDeletePcs, BumpPcs, WrittenPcs
    <2>12. HeadsBelow(w)'
      BY <1>2, <1>1, <1>3, <1>4, <1>5 DEF HeadsBelow, Fine, Cored, Others,
         On, WsDeletePcs
    <2>13. HeadsCell(w)'
      BY <1>2, <1>1, <1>3, <1>4, <1>5 DEF HeadsCell, Fine, Exists, Moved,
         CellOf, Others, On, WsDeletePcs, MovedPcs
    <2>14. Training(w)'
      BY <1>2, <1>1, <1>3, <1>4, <1>5 DEF Training, Fine, Exists, Moved,
         Others, On, WsDeletePcs, MovedPcs
    <2> QED
      BY <2>1, <2>2, <2>3, <2>4, <2>5, <2>6, <2>7, <2>8, <2>9, <2>10, <2>11,
         <2>12, <2>13, <2>14 DEF Sound
  <1> QED
    BY <1>2, <1>6, <1>7, <1>8, <1>9, <1>10, FrameStep DEF Inv

\* An upload or a dataset delete takes the lock and the cell and chooses the
\* next revision.
LEMMA BumpStep ==
  ASSUME Inv, NEW c \in Clients, NEW q \in {"upCore", "tdTomb"},
         phase = "up",
         op[c].pc \in {"upCell", "tdCell"},
         (q = "upCore" <=> op[c].pc = "upCell"),
         metaLock[op[c].ws] = None,
         metaLock' = [metaLock EXCEPT ![op[c].ws] = c],
         Load(op[c].ws),
         GotoWith(c, q, Bumped(op[c].ws)),
         UNCHANGED <<phase, tree, treeMay, tmp, tmpDurable, regLock, heads, train,
                     trains, kept, acked, deleted, doomed, raced, suspect, loose, faults,
                     crashes>>
  PROVE  Inv'
  <1>1. PICK w \in Workspaces :
          op[c].ws = w /\ op[c].pc \in {"upCell", "tdCell"} /\ phase = "up"
    BY DEF Inv, OpsNamed, TypeOK
  <1>2. /\ None \notin Clients /\ None \notin Workspaces
        /\ TypeOK /\ OpsNamed /\ OneDelete /\ \A v \in Workspaces : Locked(v)
        /\ Numbers(w) /\ InMay(w) /\ Born(w) /\ Durable(w) /\ Leased(w) /\ Locked(w)
        /\ Gone(w) /\ Patching(w) /\ Inserting(w) /\ DataOne(w)
        /\ CellBelow(w) /\ Bumping(w) /\ HeadsBelow(w) /\ HeadsCell(w)
        /\ Training(w)
    BY NumberFacts, WorkspaceAssumption DEF Inv, Sound
  <1>3. /\ op'[c].pc \in {"upCore", "tdTomb"} /\ op'[c].ws = w
        /\ (op'[c].pc = "upCore" <=> op[c].pc = "upCell")
        /\ op'[c].core # None /\ op'[c].core.rev = CellOf(w).rev + 1
        /\ Others(c) /\ op' \in [Clients -> Requests] /\ minted' = minted
        /\ ops' = ops
    <2>1. CellOf(w) \in Cores
      BY <1>1, <1>2, NoneAssumption DEF CellOf, Exists, Numbers, InMay, Leased,
         On, UploadLeased, TreeDeletePcs
    <2>2. Bumped(w) \in Cores /\ Bumped(w) # None
      BY <2>1, NoneAssumption DEF Bumped, Core, Cores
    <2>3. Bumped(w).rev = CellOf(w).rev + 1
      BY DEF Bumped, Core
    <2>4. q \in Pcs
      BY DEF Pcs, UploadLeased, TreeDeletePcs
    <2> QED
      BY <1>1, <1>2, <2>2, <2>3, <2>4, GotoWithFacts
  <1>4. UNCHANGED <<phase, tree, treeMay, tmp, tmpDurable, regLock, heads,
     train, trains, kept, acked, deleted, doomed, raced, suspect, loose, faults,
     crashes>>
    OBVIOUS
  <1>5. /\ cell' \in [Workspaces -> Cores \cup {None}] /\ cell'[w] = CellOf(w)
        /\ CellOf(w) \in Cores /\ CellOf(w) # None /\ CellOf(w).rev \in Nat
        /\ \A v \in Workspaces \ {w} : cell'[v] = cell[v]
    <2>1. CellOf(w) \in Cores /\ CellOf(w) # None
      BY <1>1, <1>2, NoneAssumption DEF CellOf, CanLoad, Exists, Numbers, InMay, Leased, On, UploadLeased, TreeDeletePcs
    <2>2. CellOf(w).rev \in Nat
      BY <2>1 DEF Cores
    <2>3. cell' = [cell EXCEPT ![w] = CellOf(w)]
      BY <1>1 DEF Load
    <2> QED
      BY <1>2, <2>1, <2>2, <2>3 DEF TypeOK
  <1>6. /\ metaLock[w] = None /\ metaLock'[w] = c
        /\ metaLock' \in [Workspaces -> Clients \cup {None, Trainer}]
        /\ \A v \in Workspaces \ {w} : metaLock'[v] = metaLock[v]
    BY <1>1, <1>2 DEF TypeOK
  <1>7. TypeOK'
    BY <1>2, <1>1, <1>3, <1>4, <1>5, <1>6 DEF TypeOK
  <1>8. BootQuiet' /\ OpsNamed' /\ OneDelete'
    <2>1. BootQuiet' /\ OpsNamed'
      BY <1>2, <1>1, <1>3, <1>4, <1>5, <1>6 DEF BootQuiet, OpsNamed, TypeOK,
         Others, On, CreatePcs, PatchPcs, BumpPcs, WrittenPcs, CorePcs
    <2>2. OneDelete'
      BY <1>2, <1>1, <1>3, <1>4, <1>5, <1>6 DEF OneDelete, Others, On,
         TreeDeletePcs, WsDeletePcs
    <2> QED
      BY <2>1, <2>2
  <1>9. DataBounded'
    BY <1>4 DEF Inv, DataBounded, Below
  <1>10. \A v \in Workspaces \ {w} : Same(v)
    BY <1>2, <1>1, <1>3, <1>4, <1>5, <1>6 DEF Same, Others, TypeOK, OpsNamed
  <1>11. Sound(w)'
    <2>1. InMay(w)'
      BY <1>2, <1>1, <1>3, <1>4, <1>5, <1>6 DEF InMay, Others, On
    <2>2. Born(w)'
      BY <1>2, <1>1, <1>3, <1>4, <1>5, <1>6 DEF Born, Unborn, Untouched,
         OpsNamed, Others, On, CreatePcs, PatchPcs, BumpPcs, WrittenPcs,
         CorePcs
    <2>3. Durable(w)'
      BY <1>2, <1>1, <1>3, <1>4, <1>5, <1>6 DEF Durable, Others, On
    <2>4. Leased(w)'
      BY <1>2, <1>1, <1>3, <1>4, <1>5, <1>6 DEF Leased, Exists, Others, On,
         UploadLeased, TreeDeletePcs, WsDeletePcs
    <2>5. Locked(w)'
      BY <1>2, <1>1, <1>3, <1>4, <1>5, <1>6 DEF Locked, Others, On, BumpPcs,
         WrittenPcs
    <2>6. Gone(w)'
      BY <1>2, <1>1, <1>3, <1>4, <1>5, <1>6 DEF Gone, Exists, Others, On,
         PatchPcs
    <2>7. Patching(w)'
      BY <1>2, <1>1, <1>3, <1>4, <1>5, <1>6 DEF Patching, Exists, Fine,
         Locked, CellOf, Others, On, PatchPcs, BumpPcs, WrittenPcs
    <2>8. Inserting(w)'
      BY <1>2, <1>1, <1>3, <1>4, <1>5, <1>6 DEF Inserting, Exists, CellOf,
         Others, On
    <2>9. DataOne(w)'
      BY <1>2, <1>1, <1>3, <1>4, <1>5, <1>6 DEF DataOne, Fine, Exists, Moved,
         Others, On, MovedPcs
    <2>10. CellBelow(w)'
      BY <1>2, <1>1, <1>3, <1>4, <1>5, <1>6 DEF CellBelow, Fine, Exists,
         CellOf, Cored, Others, On
    <2>11. Bumping(w)'
      BY <1>2, <1>1, <1>3, <1>4, <1>5, <1>6 DEF Bumping, Fine, Locked,
         CellOf, Others, On, BumpPcs, WrittenPcs
    <2>12. HeadsBelow(w)'
      BY <1>2, <1>1, <1>3, <1>4, <1>5, <1>6 DEF HeadsBelow, Fine, Cored,
         Others, On
    <2>13. HeadsCell(w)'
      BY <1>2, <1>1, <1>3, <1>4, <1>5, <1>6 DEF HeadsCell, Fine, Exists,
         Moved, CellOf, Others, On, MovedPcs
    <2>14. Training(w)'
      BY <1>2, <1>1, <1>3, <1>4, <1>5, <1>6 DEF Training, Fine, Exists,
         Moved, CellOf, Others, On, MovedPcs
    <2> QED
      BY <2>1, <2>2, <2>3, <2>4, <2>5, <2>6, <2>7, <2>8, <2>9, <2>10, <2>11,
         <2>12, <2>13, <2>14 DEF Sound
  <1> QED
    BY <1>2, <1>7, <1>8, <1>9, <1>10, <1>11, FrameStep DEF Inv

\* It writes the revision.
LEMMA WriteCoreStep ==
  ASSUME Inv, NEW c \in Clients, NEW q \in {"upBytes", "tdStage"},
         phase = "up",
         op[c].pc \in {"upCore", "tdCore"},
         (q = "upBytes" <=> op[c].pc = "upCore"),
         PutCore(op[c].ws, op[c].core),
         Goto(c, q),
         UNCHANGED <<phase, tmp, tmpDurable, cell, regLock, metaLock, heads, train,
                     trains, kept, acked, deleted, doomed, raced, suspect, loose, faults,
                     crashes>>
  PROVE  Inv'
  <1>1. PICK w \in Workspaces :
          op[c].ws = w /\ op[c].pc \in {"upCore", "tdCore"} /\ (q = "upBytes" <=> op[c].pc = "upCore") /\ phase = "up"
    BY DEF Inv, OpsNamed, TypeOK
  <1>2. /\ None \notin Clients /\ None \notin Workspaces
        /\ TypeOK /\ OpsNamed /\ OneDelete /\ \A v \in Workspaces : Locked(v)
        /\ Numbers(w) /\ InMay(w) /\ Born(w) /\ Durable(w) /\ Leased(w) /\ Locked(w)
        /\ Gone(w) /\ Patching(w) /\ Inserting(w) /\ DataOne(w)
        /\ CellBelow(w) /\ Bumping(w) /\ HeadsBelow(w) /\ HeadsCell(w)
        /\ Training(w)
    BY NumberFacts, WorkspaceAssumption DEF Inv, Sound
  <1>3. /\ op'[c].pc = q /\ op'[c].ws = w /\ op'[c].core = op[c].core
        /\ Others(c) /\ op' \in [Clients -> Requests] /\ minted' = minted
        /\ ops' = ops
    BY <1>1, <1>2, GotoFacts DEF Pcs, UploadLeased, TreeDeletePcs
  <1>4. UNCHANGED <<phase, tmp, tmpDurable, cell, regLock, metaLock, heads,
     train, trains, kept, acked, deleted, doomed, raced, suspect, loose, faults,
     crashes>>
    OBVIOUS
  <1>5. op[c].core \in Cores /\ op[c].core # None /\ tree[w] # None
    BY <1>1, <1>2, NoneAssumption DEF OpsNamed, Numbers, Leased, Exists, On,
       CreatePcs, PatchPcs, UploadLeased, TreeDeletePcs, WsDeletePcs,
       BumpPcs, WrittenPcs, CorePcs
  <1>6. /\ tree' \in [Workspaces -> Dirs \cup {None}]
        /\ treeMay' \in [Workspaces -> SUBSET (Dirs \cup {None})]
        /\ InMay(w)'
        /\ tree'[w] # None /\ tree'[w].core = op[c].core /\ tree'[w].data = tree[w].data
        /\ \A m \in treeMay'[w] : m # None =>
             /\ m.core = op[c].core
             /\ \E o \in treeMay[w] : o # None /\ m.data = o.data
        /\ None \in treeMay'[w] => None \in treeMay[w]
        /\ \A v \in Workspaces \ {w} :
             tree'[v] = tree[v] /\ treeMay'[v] = treeMay[v]
    BY <1>1, <1>2, <1>5, PutCoreFacts
  <1>7. TypeOK'
    BY <1>2, <1>1, <1>3, <1>4, <1>5, <1>6 DEF TypeOK
  <1>8. BootQuiet' /\ OpsNamed' /\ OneDelete'
    <2>1. BootQuiet' /\ OpsNamed'
      BY <1>2, <1>1, <1>3, <1>4, <1>5, <1>6 DEF BootQuiet, OpsNamed, TypeOK,
         Others, On, CreatePcs, PatchPcs, BumpPcs, WrittenPcs, CorePcs
    <2>2. OneDelete'
      BY <1>2, <1>1, <1>3, <1>4, <1>5, <1>6 DEF OneDelete, Others, On,
         TreeDeletePcs, WsDeletePcs
    <2> QED
      BY <2>1, <2>2
  <1>9. DataBounded'
    <2>1. PICK B \in Nat : Below(B)
      BY DEF Inv, DataBounded
    <2>2. Below(B)'
      BY <1>2, <2>1, <1>1, <1>3, <1>4, <1>5, <1>6, EmptyDirFacts DEF Below, InMay, Exists
    <2> QED
      BY <2>2 DEF DataBounded
  <1>10. \A v \in Workspaces \ {w} : Same(v)
    BY <1>2, <1>1, <1>3, <1>4, <1>5, <1>6 DEF Same, Others, TypeOK, OpsNamed
  <1>11. Sound(w)'
    <2>1. InMay(w)'
      BY <1>2, <1>1, <1>3, <1>4, <1>5, <1>6 DEF InMay, Others, On
    <2>2. Born(w)'
      BY <1>2, <1>1, <1>3, <1>4, <1>5, <1>6 DEF Born, Unborn, Untouched,
         OpsNamed, Others, On, CreatePcs, PatchPcs, BumpPcs, WrittenPcs,
         CorePcs
    <2>3. Durable(w)'
      BY <1>2, <1>1, <1>3, <1>4, <1>5, <1>6 DEF Durable, Others, On
    <2>4. Leased(w)'
      BY <1>2, <1>1, <1>3, <1>4, <1>5, <1>6 DEF Leased, Exists, Others, On,
         UploadLeased, TreeDeletePcs, WsDeletePcs
    <2>5. Locked(w)'
      BY <1>2, <1>1, <1>3, <1>4, <1>5, <1>6 DEF Locked, Others, On, BumpPcs,
         WrittenPcs
    <2>6. Gone(w)'
      BY <1>2, <1>1, <1>3, <1>4, <1>5, <1>6 DEF Gone, Exists, Leased, Others,
         On, PatchPcs, UploadLeased, TreeDeletePcs, WsDeletePcs
    <2>7. Patching(w)'
      BY <1>2, <1>1, <1>3, <1>4, <1>5, <1>6 DEF Patching, Exists, Fine,
         Locked, Leased, Others, On, PatchPcs, UploadLeased, TreeDeletePcs,
         WsDeletePcs, BumpPcs, WrittenPcs
    <2>8. Inserting(w)'
      BY <1>2, <1>1, <1>3, <1>4, <1>5, <1>6 DEF Inserting, Exists, Locked,
         Others, On, BumpPcs, WrittenPcs
    <2>9. DataOne(w)'
      BY <1>2, <1>1, <1>3, <1>4, <1>5, <1>6 DEF DataOne, Fine, Exists, Moved,
         Leased, Locked, Others, On, UploadLeased, TreeDeletePcs,
         WsDeletePcs, BumpPcs, WrittenPcs, MovedPcs
    <2>10. CellBelow(w)'
      BY <1>2, <1>1, <1>3, <1>4, <1>5, <1>6 DEF CellBelow, Fine, Exists,
         CellOf, Cored, Bumping, Locked, Numbers, Others, On, BumpPcs,
         WrittenPcs
    <2>11. Bumping(w)'
      BY <1>2, <1>1, <1>3, <1>4, <1>5, <1>6 DEF Bumping, Fine, Locked,
         Others, On, BumpPcs, WrittenPcs
    <2>12. HeadsBelow(w)'
      BY <1>2, <1>1, <1>3, <1>4, <1>5, <1>6 DEF HeadsBelow, Fine, Cored,
         Bumping, Numbers, HeadsCell, Exists, CellOf, Leased, Locked, Others,
         On, UploadLeased, TreeDeletePcs, WsDeletePcs, BumpPcs, WrittenPcs
    <2>13. HeadsCell(w)'
      BY <1>2, <1>1, <1>3, <1>4, <1>5, <1>6 DEF HeadsCell, Fine, Exists,
         Moved, CellOf, Locked, Leased, Others, On, UploadLeased,
         TreeDeletePcs, WsDeletePcs, BumpPcs, WrittenPcs, MovedPcs
    <2>14. Training(w)'
      BY <1>2, <1>1, <1>3, <1>4, <1>5, <1>6 DEF Training, Fine, Exists,
         Moved, Locked, Leased, Others, On, UploadLeased, TreeDeletePcs,
         WsDeletePcs, BumpPcs, WrittenPcs, MovedPcs
    <2> QED
      BY <2>1, <2>2, <2>3, <2>4, <2>5, <2>6, <2>7, <2>8, <2>9, <2>10, <2>11,
         <2>12, <2>13, <2>14 DEF Sound
  <1> QED
    BY <1>2, <1>7, <1>8, <1>9, <1>10, <1>11, FrameStep DEF Inv


\* The staging directories keep their type.
LEMMA TmpFacts ==
  ASSUME TypeOK, NEW c \in Clients, op[c].ws \in Workspaces,
         NEW s \in {"root", "tree"},
         WriteTombstone(c, s) \/ MkStage(c, s) \/ Drain(c, s)
  PROVE  tmp' \in SUBSET Entries /\ tmpDurable' \in SUBSET Entries
  <1>1. op[c].job \in Nat
    BY DEF TypeOK, Requests
  <1>2. \A p \in {"tombstone", "stage"} : Entry(p, s, op[c].ws, op[c].job) \in Entries
    BY <1>1 DEF Entry, Entries
  <1> QED
    BY <1>2 DEF TypeOK, WriteTombstone, MkStage, Drain, FsyncTmp

\* The bytes move, to the dataset or out of it.
LEMMA MoveBytesStep ==
  ASSUME Inv, NEW c \in Clients, NEW q \in {"upBytesSync", "tdSync"},
         phase = "up",
         op[c].pc \in {"upBytes", "tdStage"},
         (q = "upBytesSync" <=> op[c].pc = "upBytes"),
         RenameData(op[c].ws, NextData(op[c].ws)),
         Goto(c, q),
         tmp' \in SUBSET Entries,
         tmpDurable' \in SUBSET Entries,
         UNCHANGED <<phase, cell, regLock, metaLock, heads, train, trains, kept,
                     acked, deleted, doomed, raced, suspect, loose, faults, crashes>>
  PROVE  Inv'
  <1>1. PICK w \in Workspaces :
          op[c].ws = w /\ op[c].pc \in {"upBytes", "tdStage"} /\ (q = "upBytesSync" <=> op[c].pc = "upBytes") /\ phase = "up"
    BY DEF Inv, OpsNamed, TypeOK
  <1>2. /\ None \notin Clients /\ None \notin Workspaces
        /\ TypeOK /\ OpsNamed /\ OneDelete /\ \A v \in Workspaces : Locked(v)
        /\ Numbers(w) /\ InMay(w) /\ Born(w) /\ Durable(w) /\ Leased(w) /\ Locked(w)
        /\ Gone(w) /\ Patching(w) /\ Inserting(w) /\ DataOne(w)
        /\ CellBelow(w) /\ Bumping(w) /\ HeadsBelow(w) /\ HeadsCell(w)
        /\ Training(w)
    BY NumberFacts, WorkspaceAssumption DEF Inv, Sound
  <1>3. /\ op'[c].pc = q /\ op'[c].ws = w /\ op'[c].core = op[c].core
        /\ Others(c) /\ op' \in [Clients -> Requests] /\ minted' = minted
        /\ ops' = ops /\ tmp' \in SUBSET Entries /\ tmpDurable' \in SUBSET Entries
    BY <1>1, <1>2, GotoFacts DEF Pcs, UploadLeased, TreeDeletePcs
  <1>4. UNCHANGED <<phase, cell, regLock, metaLock, heads, train, trains,
     kept, acked, deleted, doomed, raced, suspect, loose, faults, crashes>>
    OBVIOUS
  <1>5. /\ tree[w] # None /\ tree[w].core # None
        /\ NextData(w) \in Nat /\ NextData(w) > acked[w]
    <2>1. tree[w] # None /\ tree[w].core # None
      BY <1>1, <1>2 DEF Leased, Exists, On, UploadLeased, TreeDeletePcs
    <2>2. PICK B \in Nat : Below(B)
      BY DEF Inv, DataBounded
    <2> QED
      BY <1>2, <2>1, <2>2, NextDataFacts
  <1>6. /\ tree' \in [Workspaces -> Dirs \cup {None}]
        /\ treeMay' \in [Workspaces -> SUBSET (Dirs \cup {None})]
        /\ InMay(w)'
        /\ tree'[w] # None /\ tree'[w].core = tree[w].core
        /\ tree'[w].data = NextData(w)
        /\ \A m \in treeMay'[w] :
             \/ m \in treeMay[w]
             \/ /\ m # None /\ m.data \in {NextData(w), NextData(w) + 1}
                /\ \E o \in treeMay[w] : o # None /\ m.core = o.core
        /\ \A v \in Workspaces \ {w} :
             tree'[v] = tree[v] /\ treeMay'[v] = treeMay[v]
    BY <1>1, <1>2, <1>5, RenameDataFacts
  <1>7. TypeOK'
    BY <1>2, <1>1, <1>3, <1>4, <1>5, <1>6 DEF TypeOK
  <1>8. BootQuiet' /\ OpsNamed' /\ OneDelete'
    <2>1. BootQuiet' /\ OpsNamed'
      BY <1>2, <1>1, <1>3, <1>4, <1>5, <1>6 DEF BootQuiet, OpsNamed, TypeOK,
         Others, On, CreatePcs, PatchPcs, BumpPcs, WrittenPcs, CorePcs
    <2>2. OneDelete'
      BY <1>2, <1>1, <1>3, <1>4, <1>5, <1>6 DEF OneDelete, Others, On,
         TreeDeletePcs, WsDeletePcs
    <2> QED
      BY <2>1, <2>2
  <1>9. DataBounded'
    <2>1. PICK B \in Nat : Below(B)
      BY DEF Inv, DataBounded
    <2>2. NextData(w) \in Nat /\ NextData(w) <= B + 1 /\ B + 2 \in Nat
      BY <1>2, <2>1, NextDataFacts
    <2>3. Below(B + 2)'
      BY <1>2, <2>1, <2>2, <1>1, <1>3, <1>4, <1>5, <1>6, DirFields DEF Below, TypeOK, Runs
    <2> QED
      BY <2>2, <2>3 DEF DataBounded
  <1>10. \A v \in Workspaces \ {w} : Same(v)
    BY <1>2, <1>1, <1>3, <1>4, <1>5, <1>6 DEF Same, Others, TypeOK, OpsNamed
  <1>11. Sound(w)'
    <2>1. InMay(w)'
      BY <1>2, <1>1, <1>3, <1>4, <1>5, <1>6 DEF InMay, Others, On
    <2>2. Born(w)'
      BY <1>2, <1>1, <1>3, <1>4, <1>5, <1>6 DEF Born, Unborn, Untouched,
         OpsNamed, Others, On, CreatePcs, PatchPcs, BumpPcs, WrittenPcs,
         CorePcs
    <2>3. Durable(w)'
      BY <1>2, <1>1, <1>3, <1>4, <1>5, <1>6 DEF Durable, Numbers, Others, On
    <2>4. Leased(w)'
      BY <1>2, <1>1, <1>3, <1>4, <1>5, <1>6 DEF Leased, Exists, Others, On,
         UploadLeased, TreeDeletePcs, WsDeletePcs
    <2>5. Locked(w)'
      BY <1>2, <1>1, <1>3, <1>4, <1>5, <1>6 DEF Locked, Others, On, BumpPcs,
         WrittenPcs
    <2>6. Gone(w)'
      BY <1>2, <1>1, <1>3, <1>4, <1>5, <1>6 DEF Gone, Exists, Leased, Others,
         On, PatchPcs, UploadLeased, TreeDeletePcs, WsDeletePcs
    <2>7. Patching(w)'
      BY <1>2, <1>1, <1>3, <1>4, <1>5, <1>6 DEF Patching, Exists, Fine,
         Locked, Others, On, PatchPcs, BumpPcs, WrittenPcs
    <2>8. Inserting(w)'
      BY <1>2, <1>1, <1>3, <1>4, <1>5, <1>6 DEF Inserting, Exists, Others, On
    <2>9. DataOne(w)'
      BY <1>2, <1>1, <1>3, <1>4, <1>5, <1>6 DEF DataOne, Fine, Exists, Moved,
         Others, On, MovedPcs
    <2>10. CellBelow(w)'
      BY <1>2, <1>1, <1>3, <1>4, <1>5, <1>6 DEF CellBelow, Fine, Exists,
         CellOf, Cored, Others, On
    <2>11. Bumping(w)'
      BY <1>2, <1>1, <1>3, <1>4, <1>5, <1>6 DEF Bumping, Fine, Others, On,
         BumpPcs, WrittenPcs
    <2>12. HeadsBelow(w)'
      BY <1>2, <1>1, <1>3, <1>4, <1>5, <1>6 DEF HeadsBelow, Fine, Cored,
         Numbers, Bumping, HeadsCell, CellOf, Exists, Locked, Others, On,
         BumpPcs, WrittenPcs
    <2>13. HeadsCell(w)'
      BY <1>2, <1>1, <1>3, <1>4, <1>5, <1>6 DEF HeadsCell, Fine, Exists,
         Moved, CellOf, Others, On, MovedPcs
    <2>14. Training(w)'
      BY <1>2, <1>1, <1>3, <1>4, <1>5, <1>6 DEF Training, Fine, Exists,
         Moved, Others, On, MovedPcs
    <2> QED
      BY <2>1, <2>2, <2>3, <2>4, <2>5, <2>6, <2>7, <2>8, <2>9, <2>10, <2>11,
         <2>12, <2>13, <2>14 DEF Sound
  <1> QED
    BY <1>2, <1>7, <1>8, <1>9, <1>10, <1>11, FrameStep DEF Inv

\* The fsync, the published core and the receipt.
LEMMA ReceiptStep ==
  ASSUME Inv, NEW c \in Clients, NEW reach,
         phase = "up",
         op[c].pc \in {"upBytesSync", "tdSync"},
         FsyncFolder(op[c].ws, reach),
         Acknowledge(c),
         \/ op[c].pc = "upBytesSync" /\ Finish(c)
         \/ /\ op[c].pc = "tdSync" /\ Goto(c, "tdDrain")
            /\ metaLock' = [metaLock EXCEPT ![op[c].ws] = None] /\ UNCHANGED regLock,
         UNCHANGED <<phase, tree, tmp, tmpDurable, heads, train, trains, faults, crashes>>
  PROVE  Inv'
  <1>1. PICK w \in Workspaces :
          op[c].ws = w /\ op[c].pc \in {"upBytesSync", "tdSync"} /\ phase = "up"
    BY DEF Inv, OpsNamed, TypeOK
  <1>2. /\ None \notin Clients /\ None \notin Workspaces
        /\ TypeOK /\ OpsNamed /\ OneDelete /\ \A v \in Workspaces : Locked(v)
        /\ Numbers(w) /\ InMay(w) /\ Born(w) /\ Durable(w) /\ Leased(w) /\ Locked(w)
        /\ Gone(w) /\ Patching(w) /\ Inserting(w) /\ DataOne(w)
        /\ CellBelow(w) /\ Bumping(w) /\ HeadsBelow(w) /\ HeadsCell(w)
        /\ Training(w)
    BY NumberFacts, WorkspaceAssumption DEF Inv, Sound
  <1>3. /\ \/ op[c].pc = "upBytesSync" /\ op'[c].pc = "idle" /\ op'[c].ws = None
           \/ op[c].pc = "tdSync" /\ op'[c].pc = "tdDrain" /\ op'[c].ws = w
        /\ Others(c) /\ op' \in [Clients -> Requests] /\ minted' = minted
        /\ ops' = ops /\ regLock' \in Clients \cup {None}
        /\ metaLock' \in [Workspaces -> Clients \cup {None, Trainer}]
        /\ metaLock[w] = c /\ metaLock'[w] = None
        /\ \A v \in Workspaces \ {w} : metaLock'[v] = metaLock[v]
    <2>1. metaLock[w] = c
      BY <1>1, <1>2 DEF Locked, On, WrittenPcs
    <2>2. CASE op[c].pc = "upBytesSync" /\ Finish(c)
      BY <1>1, <1>2, <2>1, <2>2, FinishFacts
    <2>3. CASE /\ op[c].pc = "tdSync" /\ Goto(c, "tdDrain")
               /\ metaLock' = [metaLock EXCEPT ![w] = None] /\ UNCHANGED regLock
      <3>1. "tdDrain" \in Pcs
        BY DEF Pcs, TreeDeletePcs
      <3> QED
        BY <1>1, <1>2, <2>1, <2>3, <3>1, GotoFacts DEF TypeOK
    <2> QED
      BY <1>1, <2>2, <2>3
  <1>4. UNCHANGED <<phase, tree, tmp, tmpDurable, heads, train, trains,
     faults, crashes>>
    OBVIOUS
  <1>5. /\ tree[w] # None /\ tree[w].core # None /\ cell[w] # None
        /\ op[c].core \in Cores /\ op[c].core # None
    BY <1>1, <1>2, NoneAssumption DEF OpsNamed, Numbers, Leased, Exists,
       Locked, On, CreatePcs, PatchPcs, UploadLeased, TreeDeletePcs,
       WsDeletePcs, BumpPcs, WrittenPcs, CorePcs
  <1>6. /\ treeMay' \in [Workspaces -> SUBSET (Dirs \cup {None})]
        /\ InMay(w)'
        /\ acked' \in [Workspaces -> Nat] /\ loose' \in SUBSET Workspaces
        /\ acked'[w] \in {acked[w], tree[w].data}
        /\ \A m \in treeMay'[w] : m # None =>
             \E o \in treeMay[w] :
               /\ o # None /\ m.core = o.core
               /\ \/ m.data = o.data /\ acked'[w] = acked[w]
                  \/ m.data \in {tree[w].data, tree[w].data + 1}
                     /\ acked'[w] = tree[w].data
        /\ w \notin loose' =>
             \A m \in treeMay'[w] : m # None => m.data = tree[w].data
        /\ None \in treeMay'[w] => None \in treeMay[w]
        /\ \A v \in Workspaces \ {w} :
             /\ treeMay'[v] = treeMay[v] /\ acked'[v] = acked[v]
             /\ (v \in loose') = (v \in loose)
        /\ tree[w].data \in Nat
    <2>1. tree[w].data \in Nat
      BY <1>2, <1>5 DEF Numbers, InMay
    <2>2. FsyncFolder(w, reach)
      BY <1>1
    <2> QED
      BY <1>2, <1>4, <1>5, <2>1, <2>2, FsyncFolderFacts DEF InMay
  <1>7. /\ cell' \in [Workspaces -> Cores \cup {None}] /\ cell'[w] = op[c].core
        /\ \A v \in Workspaces \ {w} : cell'[v] = cell[v]
        /\ UNCHANGED <<kept, deleted, doomed, raced, suspect>>
    BY <1>1, <1>2, <1>5 DEF Acknowledge, TypeOK
  <1>8. TypeOK'
    BY <1>2, <1>1, <1>3, <1>4, <1>5, <1>6, <1>7 DEF TypeOK
  <1>9. BootQuiet' /\ OpsNamed' /\ OneDelete'
    <2>1. BootQuiet' /\ OpsNamed'
      BY <1>2, <1>1, <1>3, <1>4, <1>5, <1>6, <1>7 DEF BootQuiet, OpsNamed,
         TypeOK, Others, On, CreatePcs, PatchPcs, BumpPcs, WrittenPcs,
         CorePcs
    <2>2. OneDelete'
      BY <1>2, <1>1, <1>3, <1>4, <1>5, <1>6, <1>7 DEF OneDelete, Others, On,
         TreeDeletePcs, WsDeletePcs
    <2> QED
      BY <2>1, <2>2
  <1>10. DataBounded'
    <2>1. PICK B \in Nat : Below(B)
      BY DEF Inv, DataBounded
    <2>2. B + 1 \in Nat /\ tree[w].data <= B
      BY <1>2, <1>5, <2>1 DEF Below, InMay
    <2>3. Below(B + 1)'
      <3>1. \A m \in treeMay'[w] : m # None => m.data <= B + 1
        BY <1>2, <1>6, <2>1, <2>2 DEF Below, Numbers
      <3>2. acked'[w] <= B + 1
        BY <1>2, <1>6, <2>1, <2>2 DEF Below, Numbers
      <3> QED
        BY <1>2, <1>4, <1>6, <2>1, <2>2, <3>1, <3>2, DirFields DEF Below, TypeOK, Runs
    <2> QED
      BY <2>2, <2>3 DEF DataBounded
  <1>11. \A v \in Workspaces \ {w} : Same(v)
    BY <1>2, <1>1, <1>3, <1>4, <1>5, <1>6, <1>7 DEF Same, Others, TypeOK,
       OpsNamed
  <1>12. Sound(w)'
    <2>1. InMay(w)'
      BY <1>2, <1>1, <1>3, <1>4, <1>5, <1>6, <1>7 DEF InMay, Others, On
    <2>2. Born(w)'
      BY <1>2, <1>1, <1>3, <1>4, <1>5, <1>6, <1>7 DEF Born, Unborn,
         Untouched, OpsNamed, Others, On, CreatePcs, PatchPcs, BumpPcs,
         WrittenPcs, CorePcs
    <2>3. Durable(w)'
      BY <1>2, <1>1, <1>3, <1>4, <1>5, <1>6, <1>7 DEF Durable, Numbers,
         InMay, Others, On
    <2>4. Leased(w)'
      BY <1>2, <1>1, <1>3, <1>4, <1>5, <1>6, <1>7 DEF Leased, Exists, Others,
         On, UploadLeased, TreeDeletePcs, WsDeletePcs
    <2>5. Locked(w)'
      BY <1>2, <1>1, <1>3, <1>4, <1>5, <1>6, <1>7 DEF Locked, Leased, Others,
         On, UploadLeased, TreeDeletePcs, WsDeletePcs, BumpPcs, WrittenPcs
    <2>6. Gone(w)'
      BY <1>2, <1>1, <1>3, <1>4, <1>5, <1>6, <1>7 DEF Gone, Exists, Leased,
         Others, On, PatchPcs, UploadLeased, TreeDeletePcs, WsDeletePcs
    <2>7. Patching(w)'
      BY <1>2, <1>1, <1>3, <1>4, <1>5, <1>6, <1>7 DEF Patching, Exists, Fine,
         Locked, Others, On, PatchPcs, BumpPcs, WrittenPcs
    <2>8. Inserting(w)'
      BY <1>2, <1>1, <1>3, <1>4, <1>5, <1>6, <1>7 DEF Inserting, Exists,
         Others, On
    <2>9. DataOne(w)'
      BY <1>2, <1>1, <1>3, <1>4, <1>5, <1>6, <1>7 DEF DataOne, Fine, Exists,
         Moved, Others, On, MovedPcs
    <2>10. CellBelow(w)'
      BY <1>2, <1>1, <1>3, <1>4, <1>5, <1>6, <1>7 DEF CellBelow, Fine,
         Exists, CellOf, Cored, Bumping, Numbers, Others, On, BumpPcs,
         WrittenPcs
    <2>11. Bumping(w)'
      BY <1>2, <1>1, <1>3, <1>4, <1>5, <1>6, <1>7 DEF Bumping, Fine, Locked,
         Others, On, BumpPcs, WrittenPcs
    <2>12. HeadsBelow(w)'
      BY <1>2, <1>1, <1>3, <1>4, <1>5, <1>6, <1>7 DEF HeadsBelow, Fine,
         Cored, Bumping, HeadsCell, Numbers, CellOf, Exists, Locked, Others,
         On, BumpPcs, WrittenPcs
    <2>13. HeadsCell(w)'
      BY <1>2, <1>1, <1>3, <1>4, <1>5, <1>6, <1>7 DEF HeadsCell, Fine,
         Exists, Moved, CellOf, Bumping, Numbers, Locked, Others, On,
         BumpPcs, WrittenPcs, MovedPcs
    <2>14. Training(w)'
      BY <1>2, <1>1, <1>3, <1>4, <1>5, <1>6, <1>7 DEF Training, Fine, Exists,
         Moved, Bumping, Numbers, Locked, Others, On, BumpPcs, WrittenPcs,
         MovedPcs
    <2> QED
      BY <2>1, <2>2, <2>3, <2>4, <2>5, <2>6, <2>7, <2>8, <2>9, <2>10, <2>11,
         <2>12, <2>13, <2>14 DEF Sound
  <1> QED
    BY <1>2, <1>8, <1>9, <1>10, <1>11, <1>12, FrameStep DEF Inv

\* The tombstone of a dataset delete.
LEMMA TreeDeleteTombStep ==
  ASSUME Inv, NEW c \in Clients, TreeDeleteTomb(c)
  PROVE  Inv'
  <1>1. PICK w \in Workspaces :
          op[c].ws = w /\ op[c].pc = "tdTomb" /\ phase = "up"
    BY DEF Inv, OpsNamed, TypeOK, At, TreeDeleteTomb
  <1>2. /\ None \notin Clients /\ None \notin Workspaces
        /\ TypeOK /\ OpsNamed /\ OneDelete /\ \A v \in Workspaces : Locked(v)
        /\ Numbers(w) /\ InMay(w) /\ Born(w) /\ Durable(w) /\ Leased(w) /\ Locked(w)
        /\ Gone(w) /\ Patching(w) /\ Inserting(w) /\ DataOne(w)
        /\ CellBelow(w) /\ Bumping(w) /\ HeadsBelow(w) /\ HeadsCell(w)
        /\ Training(w)
    BY NumberFacts, WorkspaceAssumption DEF Inv, Sound
  <1>3. /\ op'[c].pc = "tdCore" /\ op'[c].ws = w /\ op'[c].core = op[c].core
        /\ Others(c) /\ op' \in [Clients -> Requests]
    BY <1>1, <1>2, GotoFacts DEF TreeDeleteTomb, Pcs, On, CreatePcs,
       PatchPcs, UploadLeased, TreeDeletePcs, WsDeletePcs, BumpPcs,
       WrittenPcs, MovedPcs, CorePcs
  <1>4. UNCHANGED <<phase, tree, treeMay, cell, regLock, metaLock, ops,
     minted, heads, train, trains, kept, acked, deleted, doomed, raced,
     suspect, loose, faults, crashes>>
    BY DEF TreeDeleteTomb, diskVars, lockVars, reqVars, trainVars, ghostVars,
       bounds, Goto, GotoWith, Finish, Start, Acknowledge, Load, LoadListed,
       At
  <1>5. tmp' \in SUBSET Entries /\ tmpDurable' \in SUBSET Entries
    BY <1>1, <1>2, TmpFacts DEF TreeDeleteTomb
  <1>6. TypeOK'
    BY <1>2, <1>1, <1>3, <1>4, <1>5 DEF TypeOK
  <1>7. BootQuiet' /\ OpsNamed' /\ OneDelete'
    <2>1. BootQuiet' /\ OpsNamed'
      BY <1>2, <1>1, <1>3, <1>4, <1>5 DEF BootQuiet, OpsNamed, TypeOK,
         Others, On, CreatePcs, PatchPcs, BumpPcs, WrittenPcs, CorePcs
    <2>2. OneDelete'
      BY <1>2, <1>1, <1>3, <1>4, <1>5 DEF OneDelete, Others, On,
         TreeDeletePcs, WsDeletePcs
    <2> QED
      BY <2>1, <2>2
  <1>8. DataBounded'
    BY <1>4 DEF Inv, DataBounded, Below
  <1>9. \A v \in Workspaces \ {w} : Same(v)
    BY <1>2, <1>1, <1>3, <1>4, <1>5 DEF Same, Others, TypeOK, OpsNamed
  <1>10. Sound(w)'
    <2>1. InMay(w)'
      BY <1>2, <1>1, <1>3, <1>4, <1>5 DEF InMay, Others, On
    <2>2. Born(w)'
      BY <1>2, <1>1, <1>3, <1>4, <1>5 DEF Born, Unborn, Untouched, OpsNamed,
         Others, On, CreatePcs, PatchPcs, BumpPcs, WrittenPcs, CorePcs
    <2>3. Durable(w)'
      BY <1>2, <1>1, <1>3, <1>4, <1>5 DEF Durable, Others, On
    <2>4. Leased(w)'
      BY <1>2, <1>1, <1>3, <1>4, <1>5 DEF Leased, Exists, Others, On,
         UploadLeased, TreeDeletePcs, WsDeletePcs
    <2>5. Locked(w)'
      BY <1>2, <1>1, <1>3, <1>4, <1>5 DEF Locked, Others, On, BumpPcs,
         WrittenPcs
    <2>6. Gone(w)'
      BY <1>2, <1>1, <1>3, <1>4, <1>5 DEF Gone, Exists, Others, On, PatchPcs
    <2>7. Patching(w)'
      BY <1>2, <1>1, <1>3, <1>4, <1>5 DEF Patching, Exists, Fine, Others, On,
         PatchPcs
    <2>8. Inserting(w)'
      BY <1>2, <1>1, <1>3, <1>4, <1>5 DEF Inserting, Exists, Others, On
    <2>9. DataOne(w)'
      BY <1>2, <1>1, <1>3, <1>4, <1>5 DEF DataOne, Fine, Exists, Moved,
         Others, On, MovedPcs
    <2>10. CellBelow(w)'
      BY <1>2, <1>1, <1>3, <1>4, <1>5 DEF CellBelow, Fine, Exists, CellOf,
         Cored, Others, On
    <2>11. Bumping(w)'
      BY <1>2, <1>1, <1>3, <1>4, <1>5 DEF Bumping, Fine, Others, On, BumpPcs,
         WrittenPcs
    <2>12. HeadsBelow(w)'
      BY <1>2, <1>1, <1>3, <1>4, <1>5 DEF HeadsBelow, Fine, Cored, Others, On
    <2>13. HeadsCell(w)'
      BY <1>2, <1>1, <1>3, <1>4, <1>5 DEF HeadsCell, Fine, Exists, Moved,
         CellOf, Others, On, MovedPcs
    <2>14. Training(w)'
      BY <1>2, <1>1, <1>3, <1>4, <1>5 DEF Training, Fine, Exists, Moved,
         Others, On, MovedPcs
    <2> QED
      BY <2>1, <2>2, <2>3, <2>4, <2>5, <2>6, <2>7, <2>8, <2>9, <2>10, <2>11,
         <2>12, <2>13, <2>14 DEF Sound
  <1> QED
    BY <1>2, <1>6, <1>7, <1>8, <1>9, <1>10, FrameStep DEF Inv

\* The tombstone of a workspace delete.
LEMMA WsDeleteTombStep ==
  ASSUME Inv, NEW c \in Clients, WsDeleteTomb(c)
  PROVE  Inv'
  <1>1. PICK w \in Workspaces :
          op[c].ws = w /\ op[c].pc = "wdTomb" /\ phase = "up"
    BY DEF Inv, OpsNamed, TypeOK, At, WsDeleteTomb
  <1>2. /\ None \notin Clients /\ None \notin Workspaces
        /\ TypeOK /\ OpsNamed /\ OneDelete /\ \A v \in Workspaces : Locked(v)
        /\ Numbers(w) /\ InMay(w) /\ Born(w) /\ Durable(w) /\ Leased(w) /\ Locked(w)
        /\ Gone(w) /\ Patching(w) /\ Inserting(w) /\ DataOne(w)
        /\ CellBelow(w) /\ Bumping(w) /\ HeadsBelow(w) /\ HeadsCell(w)
        /\ Training(w)
    BY NumberFacts, WorkspaceAssumption DEF Inv, Sound
  <1>3. /\ op'[c].pc = "wdStage" /\ op'[c].ws = w /\ op'[c].core = op[c].core
        /\ Others(c) /\ op' \in [Clients -> Requests]
    BY <1>1, <1>2, GotoFacts DEF WsDeleteTomb, Pcs, On, CreatePcs, PatchPcs,
       UploadLeased, TreeDeletePcs, WsDeletePcs, BumpPcs, WrittenPcs,
       MovedPcs, CorePcs
  <1>4. UNCHANGED <<phase, tree, treeMay, cell, regLock, metaLock, ops,
     minted, heads, train, trains, kept, acked, deleted, doomed, raced,
     suspect, loose, faults, crashes>>
    BY DEF WsDeleteTomb, diskVars, lockVars, reqVars, trainVars, ghostVars,
       bounds, Goto, GotoWith, Finish, Start, Acknowledge, Load, LoadListed,
       At
  <1>5. tmp' \in SUBSET Entries /\ tmpDurable' \in SUBSET Entries
    BY <1>1, <1>2, TmpFacts DEF WsDeleteTomb
  <1>6. TypeOK'
    BY <1>2, <1>1, <1>3, <1>4, <1>5 DEF TypeOK
  <1>7. BootQuiet' /\ OpsNamed' /\ OneDelete'
    <2>1. BootQuiet' /\ OpsNamed'
      BY <1>2, <1>1, <1>3, <1>4, <1>5 DEF BootQuiet, OpsNamed, TypeOK,
         Others, On, CreatePcs, PatchPcs, BumpPcs, WrittenPcs, CorePcs
    <2>2. OneDelete'
      BY <1>2, <1>1, <1>3, <1>4, <1>5 DEF OneDelete, Others, On,
         TreeDeletePcs, WsDeletePcs
    <2> QED
      BY <2>1, <2>2
  <1>8. DataBounded'
    BY <1>4 DEF Inv, DataBounded, Below
  <1>9. \A v \in Workspaces \ {w} : Same(v)
    BY <1>2, <1>1, <1>3, <1>4, <1>5 DEF Same, Others, TypeOK, OpsNamed
  <1>10. Sound(w)'
    <2>1. InMay(w)'
      BY <1>2, <1>1, <1>3, <1>4, <1>5 DEF InMay, Others, On
    <2>2. Born(w)'
      BY <1>2, <1>1, <1>3, <1>4, <1>5 DEF Born, Unborn, Untouched, OpsNamed,
         Others, On, CreatePcs, PatchPcs, BumpPcs, WrittenPcs, CorePcs
    <2>3. Durable(w)'
      BY <1>2, <1>1, <1>3, <1>4, <1>5 DEF Durable, Others, On
    <2>4. Leased(w)'
      BY <1>2, <1>1, <1>3, <1>4, <1>5 DEF Leased, Exists, Others, On,
         UploadLeased, TreeDeletePcs, WsDeletePcs
    <2>5. Locked(w)'
      BY <1>2, <1>1, <1>3, <1>4, <1>5 DEF Locked, Others, On, BumpPcs,
         WrittenPcs
    <2>6. Gone(w)'
      BY <1>2, <1>1, <1>3, <1>4, <1>5 DEF Gone, Exists, Others, On, PatchPcs
    <2>7. Patching(w)'
      BY <1>2, <1>1, <1>3, <1>4, <1>5 DEF Patching, Exists, Fine, Others, On,
         PatchPcs
    <2>8. Inserting(w)'
      BY <1>2, <1>1, <1>3, <1>4, <1>5 DEF Inserting, Exists, Others, On
    <2>9. DataOne(w)'
      BY <1>2, <1>1, <1>3, <1>4, <1>5 DEF DataOne, Fine, Exists, Moved,
         Others, On, MovedPcs
    <2>10. CellBelow(w)'
      BY <1>2, <1>1, <1>3, <1>4, <1>5 DEF CellBelow, Fine, Exists, CellOf,
         Cored, Others, On
    <2>11. Bumping(w)'
      BY <1>2, <1>1, <1>3, <1>4, <1>5 DEF Bumping, Fine, Others, On, BumpPcs,
         WrittenPcs
    <2>12. HeadsBelow(w)'
      BY <1>2, <1>1, <1>3, <1>4, <1>5 DEF HeadsBelow, Fine, Cored, Others, On
    <2>13. HeadsCell(w)'
      BY <1>2, <1>1, <1>3, <1>4, <1>5 DEF HeadsCell, Fine, Exists, Moved,
         CellOf, Others, On, MovedPcs
    <2>14. Training(w)'
      BY <1>2, <1>1, <1>3, <1>4, <1>5 DEF Training, Fine, Exists, Moved,
         Others, On, MovedPcs
    <2> QED
      BY <2>1, <2>2, <2>3, <2>4, <2>5, <2>6, <2>7, <2>8, <2>9, <2>10, <2>11,
         <2>12, <2>13, <2>14 DEF Sound
  <1> QED
    BY <1>2, <1>6, <1>7, <1>8, <1>9, <1>10, FrameStep DEF Inv


\* The workspace directory is moved away.
LEMMA WsDeleteStageStep ==
  ASSUME Inv, NEW c \in Clients, WsDeleteStage(c)
  PROVE  Inv'
  <1>1. PICK w \in Workspaces :
          op[c].ws = w /\ op[c].pc = "wdStage" /\ phase = "up"
    BY DEF Inv, OpsNamed, TypeOK, At, WsDeleteStage
  <1>2. /\ None \notin Clients /\ None \notin Workspaces
        /\ TypeOK /\ OpsNamed /\ OneDelete /\ \A v \in Workspaces : Locked(v)
        /\ Numbers(w) /\ InMay(w) /\ Born(w) /\ Durable(w) /\ Leased(w) /\ Locked(w)
        /\ Gone(w) /\ Patching(w) /\ Inserting(w) /\ DataOne(w)
        /\ CellBelow(w) /\ Bumping(w) /\ HeadsBelow(w) /\ HeadsCell(w)
        /\ Training(w)
    BY NumberFacts, WorkspaceAssumption DEF Inv, Sound
  <1>3. /\ op'[c].pc = "wdSync" /\ op'[c].ws = w /\ op'[c].core = op[c].core
        /\ Others(c) /\ op' \in [Clients -> Requests]
    BY <1>1, <1>2, GotoFacts DEF WsDeleteStage, Pcs, On, CreatePcs, PatchPcs,
       UploadLeased, TreeDeletePcs, WsDeletePcs, BumpPcs, WrittenPcs,
       MovedPcs, CorePcs
  <1>4. UNCHANGED <<phase, cell, regLock, metaLock, ops, minted, heads,
     train, trains, kept, acked, deleted, suspect, loose, faults, crashes>>
    BY DEF WsDeleteStage, diskVars, lockVars, reqVars, trainVars, ghostVars,
       bounds, Goto, GotoWith, Finish, Start, Acknowledge, Load, LoadListed,
       At
  <1>5. tmp' \in SUBSET Entries /\ tmpDurable' \in SUBSET Entries
    BY <1>1, <1>2, TmpFacts DEF WsDeleteStage
  <1>6. /\ tree' \in [Workspaces -> Dirs \cup {None}]
        /\ treeMay' \in [Workspaces -> SUBSET (Dirs \cup {None})]
        /\ InMay(w)'
        /\ tree'[w] = None /\ treeMay'[w] = treeMay[w] \cup {None}
        /\ \A v \in Workspaces \ {w} :
             tree'[v] = tree[v] /\ treeMay'[v] = treeMay[v]
    BY <1>1, <1>2 DEF WsDeleteStage, TypeOK, InMay
  <1>7. /\ doomed' = doomed \cup {w}
        /\ raced' = raced \/ raced' = raced \cup {w}
        /\ w \notin raced' => \A d \in Clients : ~On(d, PatchPcs, w)
    BY <1>1 DEF WsDeleteStage, Running, On
  <1>8. TypeOK'
    BY <1>2, <1>1, <1>3, <1>4, <1>5, <1>6, <1>7 DEF TypeOK
  <1>9. BootQuiet' /\ OpsNamed' /\ OneDelete'
    <2>1. BootQuiet' /\ OpsNamed'
      BY <1>2, <1>1, <1>3, <1>4, <1>5, <1>6, <1>7 DEF BootQuiet, OpsNamed,
         TypeOK, Others, On, CreatePcs, PatchPcs, BumpPcs, WrittenPcs,
         CorePcs
    <2>2. OneDelete'
      BY <1>2, <1>1, <1>3, <1>4, <1>5, <1>6, <1>7 DEF OneDelete, Others, On,
         PatchPcs, TreeDeletePcs, WsDeletePcs
    <2> QED
      BY <2>1, <2>2
  <1>10. DataBounded'
    <2>1. PICK B \in Nat : Below(B)
      BY DEF Inv, DataBounded
    <2>2. Below(B)'
      BY <1>2, <2>1, <1>1, <1>3, <1>4, <1>5, <1>6, <1>7, EmptyDirFacts DEF Below, InMay, Exists
    <2> QED
      BY <2>2 DEF DataBounded
  <1>11. \A v \in Workspaces \ {w} : Same(v)
    BY <1>2, <1>1, <1>3, <1>4, <1>5, <1>6, <1>7 DEF Same, Others, TypeOK,
       OpsNamed
  <1>12. Sound(w)'
    <2>1. InMay(w)'
      BY <1>2, <1>1, <1>3, <1>4, <1>5, <1>6, <1>7 DEF InMay, Others, On,
         PatchPcs
    <2>2. Born(w)'
      BY <1>2, <1>1, <1>3, <1>4, <1>5, <1>6, <1>7 DEF Born, Unborn,
         Untouched, OpsNamed, Others, On, CreatePcs, PatchPcs, BumpPcs,
         WrittenPcs, CorePcs
    <2>3. Durable(w)'
      BY <1>2, <1>1, <1>3, <1>4, <1>5, <1>6, <1>7 DEF Durable, Others, On,
         PatchPcs
    <2>4. Leased(w)'
      BY <1>2, <1>1, <1>3, <1>4, <1>5, <1>6, <1>7 DEF Leased, Exists,
         OneDelete, Others, On, PatchPcs, UploadLeased, TreeDeletePcs,
         WsDeletePcs
    <2>5. Locked(w)'
      BY <1>2, <1>1, <1>3, <1>4, <1>5, <1>6, <1>7 DEF Locked, Leased, Others,
         On, PatchPcs, UploadLeased, TreeDeletePcs, WsDeletePcs, BumpPcs,
         WrittenPcs
    <2>6. Gone(w)'
      BY <1>2, <1>1, <1>3, <1>4, <1>5, <1>6, <1>7 DEF Gone, Exists, Leased,
         OneDelete, Others, On, PatchPcs, UploadLeased, TreeDeletePcs,
         WsDeletePcs
    <2>7. Patching(w)'
      BY <1>2, <1>1, <1>3, <1>4, <1>5, <1>6, <1>7 DEF Patching, Exists, Fine,
         Others, On, PatchPcs
    <2>8. Inserting(w)'
      BY <1>2, <1>1, <1>3, <1>4, <1>5, <1>6, <1>7 DEF Inserting, Exists,
         Others, On, PatchPcs
    <2>9. DataOne(w)'
      BY <1>2, <1>1, <1>3, <1>4, <1>5, <1>6, <1>7 DEF DataOne, Fine, Exists,
         Moved, Others, On, PatchPcs, MovedPcs
    <2>10. CellBelow(w)'
      BY <1>2, <1>1, <1>3, <1>4, <1>5, <1>6, <1>7 DEF CellBelow, Fine,
         Exists, CellOf, Cored, Others, On, PatchPcs
    <2>11. Bumping(w)'
      BY <1>2, <1>1, <1>3, <1>4, <1>5, <1>6, <1>7 DEF Bumping, Fine, Others,
         On, PatchPcs, BumpPcs, WrittenPcs
    <2>12. HeadsBelow(w)'
      BY <1>2, <1>1, <1>3, <1>4, <1>5, <1>6, <1>7 DEF HeadsBelow, Fine,
         Cored, Others, On, PatchPcs
    <2>13. HeadsCell(w)'
      BY <1>2, <1>1, <1>3, <1>4, <1>5, <1>6, <1>7 DEF HeadsCell, Fine,
         Exists, Moved, CellOf, Others, On, PatchPcs, MovedPcs
    <2>14. Training(w)'
      BY <1>2, <1>1, <1>3, <1>4, <1>5, <1>6, <1>7 DEF Training, Fine, Exists,
         Moved, Others, On, PatchPcs, MovedPcs
    <2> QED
      BY <2>1, <2>2, <2>3, <2>4, <2>5, <2>6, <2>7, <2>8, <2>9, <2>10, <2>11,
         <2>12, <2>13, <2>14 DEF Sound
  <1> QED
    BY <1>2, <1>8, <1>9, <1>10, <1>11, <1>12, FrameStep DEF Inv

\* The move is made durable.
LEMMA WsDeleteSyncStep ==
  ASSUME Inv, NEW c \in Clients, WsDeleteSync(c)
  PROVE  Inv'
  <1>1. PICK w \in Workspaces :
          op[c].ws = w /\ op[c].pc = "wdSync" /\ phase = "up"
    BY DEF Inv, OpsNamed, TypeOK, At, WsDeleteSync
  <1>2. /\ None \notin Clients /\ None \notin Workspaces
        /\ TypeOK /\ OpsNamed /\ OneDelete /\ \A v \in Workspaces : Locked(v)
        /\ Numbers(w) /\ InMay(w) /\ Born(w) /\ Durable(w) /\ Leased(w) /\ Locked(w)
        /\ Gone(w) /\ Patching(w) /\ Inserting(w) /\ DataOne(w)
        /\ CellBelow(w) /\ Bumping(w) /\ HeadsBelow(w) /\ HeadsCell(w)
        /\ Training(w)
    BY NumberFacts, WorkspaceAssumption DEF Inv, Sound
  <1>3. /\ op'[c].pc = "wdEvict" /\ op'[c].ws = w /\ op'[c].core = op[c].core
        /\ Others(c) /\ op' \in [Clients -> Requests]
    BY <1>1, <1>2, GotoFacts DEF WsDeleteSync, Pcs, On, CreatePcs, PatchPcs,
       UploadLeased, TreeDeletePcs, WsDeletePcs, BumpPcs, WrittenPcs,
       MovedPcs, CorePcs
  <1>4. UNCHANGED <<phase, tree, cell, regLock, metaLock, ops, minted, heads,
     train, trains, kept, acked, deleted, doomed, raced, suspect, loose, faults,
     crashes>>
    BY DEF WsDeleteSync, diskVars, lockVars, reqVars, trainVars, ghostVars,
       bounds, Goto, GotoWith, Finish, Start, Acknowledge, Load, LoadListed,
       At
  <1>5. tmp' \in SUBSET Entries /\ tmpDurable' \in SUBSET Entries
    BY <1>1, <1>2 DEF WsDeleteSync, TypeOK
  <1>6. /\ treeMay' \in [Workspaces -> SUBSET (Dirs \cup {None})]
        /\ treeMay'[w] = {tree[w]}
        /\ \A v \in Workspaces \ {w} : treeMay'[v] = treeMay[v]
    BY <1>1, <1>2 DEF WsDeleteSync, TypeOK
  <1>7. TypeOK'
    BY <1>2, <1>1, <1>3, <1>4, <1>5, <1>6 DEF TypeOK
  <1>8. BootQuiet' /\ OpsNamed' /\ OneDelete'
    <2>1. BootQuiet' /\ OpsNamed'
      BY <1>2, <1>1, <1>3, <1>4, <1>5, <1>6 DEF BootQuiet, OpsNamed, TypeOK,
         Others, On, CreatePcs, PatchPcs, BumpPcs, WrittenPcs, CorePcs
    <2>2. OneDelete'
      BY <1>2, <1>1, <1>3, <1>4, <1>5, <1>6 DEF OneDelete, Others, On,
         TreeDeletePcs, WsDeletePcs
    <2> QED
      BY <2>1, <2>2
  <1>9. DataBounded'
    <2>1. PICK B \in Nat : Below(B)
      BY DEF Inv, DataBounded
    <2>2. Below(B)'
      BY <1>2, <2>1, <1>1, <1>3, <1>4, <1>5, <1>6, EmptyDirFacts DEF Below, InMay, Exists
    <2> QED
      BY <2>2 DEF DataBounded
  <1>10. \A v \in Workspaces \ {w} : Same(v)
    BY <1>2, <1>1, <1>3, <1>4, <1>5, <1>6 DEF Same, Others, TypeOK, OpsNamed
  <1>11. Sound(w)'
    <2>1. InMay(w)'
      BY <1>2, <1>1, <1>3, <1>4, <1>5, <1>6 DEF InMay, Others, On
    <2>2. Born(w)'
      BY <1>2, <1>1, <1>3, <1>4, <1>5, <1>6 DEF Born, Unborn, Untouched,
         OpsNamed, InMay, Others, On, CreatePcs, PatchPcs, BumpPcs,
         WrittenPcs, CorePcs
    <2>3. Durable(w)'
      BY <1>2, <1>1, <1>3, <1>4, <1>5, <1>6 DEF Durable, InMay, Others, On
    <2>4. Leased(w)'
      BY <1>2, <1>1, <1>3, <1>4, <1>5, <1>6 DEF Leased, Exists, OneDelete,
         Others, On, UploadLeased, TreeDeletePcs, WsDeletePcs
    <2>5. Locked(w)'
      BY <1>2, <1>1, <1>3, <1>4, <1>5, <1>6 DEF Locked, Others, On, BumpPcs,
         WrittenPcs
    <2>6. Gone(w)'
      BY <1>2, <1>1, <1>3, <1>4, <1>5, <1>6 DEF Gone, Exists, Others, On,
         PatchPcs
    <2>7. Patching(w)'
      BY <1>2, <1>1, <1>3, <1>4, <1>5, <1>6 DEF Patching, Exists, Fine,
         Others, On, PatchPcs
    <2>8. Inserting(w)'
      BY <1>2, <1>1, <1>3, <1>4, <1>5, <1>6 DEF Inserting, Exists, Others, On
    <2>9. DataOne(w)'
      BY <1>2, <1>1, <1>3, <1>4, <1>5, <1>6 DEF DataOne, Fine, Exists, Moved,
         Others, On, MovedPcs
    <2>10. CellBelow(w)'
      BY <1>2, <1>1, <1>3, <1>4, <1>5, <1>6 DEF CellBelow, Fine, Exists,
         CellOf, Cored, InMay, Others, On
    <2>11. Bumping(w)'
      BY <1>2, <1>1, <1>3, <1>4, <1>5, <1>6 DEF Bumping, Fine, InMay, Others,
         On, BumpPcs, WrittenPcs
    <2>12. HeadsBelow(w)'
      BY <1>2, <1>1, <1>3, <1>4, <1>5, <1>6 DEF HeadsBelow, Fine, Cored,
         InMay, Others, On
    <2>13. HeadsCell(w)'
      BY <1>2, <1>1, <1>3, <1>4, <1>5, <1>6 DEF HeadsCell, Fine, Exists,
         Moved, CellOf, Others, On, MovedPcs
    <2>14. Training(w)'
      BY <1>2, <1>1, <1>3, <1>4, <1>5, <1>6 DEF Training, Fine, Exists,
         Moved, Others, On, MovedPcs
    <2> QED
      BY <2>1, <2>2, <2>3, <2>4, <2>5, <2>6, <2>7, <2>8, <2>9, <2>10, <2>11,
         <2>12, <2>13, <2>14 DEF Sound
  <1> QED
    BY <1>2, <1>7, <1>8, <1>9, <1>10, <1>11, FrameStep DEF Inv

\* The cache entry and the lock go, and the answer is given.
LEMMA WsDeleteEvictStep ==
  ASSUME Inv, NEW c \in Clients, WsDeleteEvict(c)
  PROVE  Inv'
  <1>1. PICK w \in Workspaces :
          op[c].ws = w /\ op[c].pc = "wdEvict" /\ phase = "up"
    BY DEF Inv, OpsNamed, TypeOK, At, WsDeleteEvict
  <1>2. /\ None \notin Clients /\ None \notin Workspaces
        /\ TypeOK /\ OpsNamed /\ OneDelete /\ \A v \in Workspaces : Locked(v)
        /\ Numbers(w) /\ InMay(w) /\ Born(w) /\ Durable(w) /\ Leased(w) /\ Locked(w)
        /\ Gone(w) /\ Patching(w) /\ Inserting(w) /\ DataOne(w)
        /\ CellBelow(w) /\ Bumping(w) /\ HeadsBelow(w) /\ HeadsCell(w)
        /\ Training(w)
    BY NumberFacts, WorkspaceAssumption DEF Inv, Sound
  <1>3. /\ op'[c].pc = "wdDrain" /\ op'[c].ws = w /\ op'[c].core = op[c].core
        /\ Others(c) /\ op' \in [Clients -> Requests]
    BY <1>1, <1>2, GotoFacts DEF WsDeleteEvict, Pcs, On, CreatePcs, PatchPcs,
       UploadLeased, TreeDeletePcs, WsDeletePcs, BumpPcs, WrittenPcs,
       MovedPcs, CorePcs
  <1>4. UNCHANGED <<phase, tree, treeMay, tmp, tmpDurable, regLock, ops,
     minted, heads, train, trains, kept, acked, doomed, raced, suspect, loose,
     faults, crashes>>
    BY DEF WsDeleteEvict, diskVars, lockVars, reqVars, trainVars, ghostVars,
       bounds, Goto, GotoWith, Finish, Start, Acknowledge, Load, LoadListed,
       At
  <1>5. /\ cell' \in [Workspaces -> Cores \cup {None}] /\ cell'[w] = None
        /\ metaLock' \in [Workspaces -> Clients \cup {None, Trainer}] /\ metaLock'[w] = None
        /\ \A v \in Workspaces \ {w} : cell'[v] = cell[v] /\ metaLock'[v] = metaLock[v]
        /\ deleted' = deleted \cup {w}
    BY <1>1, <1>2 DEF WsDeleteEvict, TypeOK
  <1>6. TypeOK'
    BY <1>2, <1>1, <1>3, <1>4, <1>5 DEF TypeOK
  <1>7. BootQuiet' /\ OpsNamed' /\ OneDelete'
    <2>1. BootQuiet' /\ OpsNamed'
      BY <1>2, <1>1, <1>3, <1>4, <1>5 DEF BootQuiet, OpsNamed, TypeOK,
         Others, On, CreatePcs, PatchPcs, BumpPcs, WrittenPcs, CorePcs
    <2>2. OneDelete'
      BY <1>2, <1>1, <1>3, <1>4, <1>5 DEF OneDelete, Others, On,
         TreeDeletePcs, WsDeletePcs
    <2> QED
      BY <2>1, <2>2
  <1>8. DataBounded'
    BY <1>4 DEF Inv, DataBounded, Below
  <1>9. \A v \in Workspaces \ {w} : Same(v)
    BY <1>2, <1>1, <1>3, <1>4, <1>5 DEF Same, Others, TypeOK, OpsNamed
  <1>10. Sound(w)'
    <2>1. InMay(w)'
      BY <1>2, <1>1, <1>3, <1>4, <1>5 DEF InMay, Others, On
    <2>2. Born(w)'
      BY <1>2, <1>1, <1>3, <1>4, <1>5 DEF Born, Unborn, Untouched, OpsNamed,
         Others, On, CreatePcs, PatchPcs, BumpPcs, WrittenPcs, CorePcs
    <2>3. Durable(w)'
      BY <1>2, <1>1, <1>3, <1>4, <1>5 DEF Durable, Others, On
    <2>4. Leased(w)'
      BY <1>2, <1>1, <1>3, <1>4, <1>5 DEF Leased, Exists, Others, On,
         UploadLeased, TreeDeletePcs, WsDeletePcs
    <2>5. Locked(w)'
      BY <1>2, <1>1, <1>3, <1>4, <1>5 DEF Locked, Leased, OneDelete, Others,
         On, UploadLeased, TreeDeletePcs, WsDeletePcs, BumpPcs, WrittenPcs
    <2>6. Gone(w)'
      BY <1>2, <1>1, <1>3, <1>4, <1>5 DEF Gone, Exists, Others, On, PatchPcs
    <2>7. Patching(w)'
      BY <1>2, <1>1, <1>3, <1>4, <1>5 DEF Patching, Exists, Fine, Gone,
         Others, On, PatchPcs
    <2>8. Inserting(w)'
      BY <1>2, <1>1, <1>3, <1>4, <1>5 DEF Inserting, Exists, Gone, Others,
         On, PatchPcs
    <2>9. DataOne(w)'
      BY <1>2, <1>1, <1>3, <1>4, <1>5 DEF DataOne, Fine, Exists, Moved,
         Others, On, MovedPcs
    <2>10. CellBelow(w)'
      BY <1>2, <1>1, <1>3, <1>4, <1>5 DEF CellBelow, Fine, Exists, CellOf,
         Cored, Gone, Others, On, PatchPcs
    <2>11. Bumping(w)'
      BY <1>2, <1>1, <1>3, <1>4, <1>5 DEF Bumping, Fine, Leased, OneDelete,
         Others, On, UploadLeased, TreeDeletePcs, WsDeletePcs, BumpPcs,
         WrittenPcs
    <2>12. HeadsBelow(w)'
      BY <1>2, <1>1, <1>3, <1>4, <1>5 DEF HeadsBelow, Fine, Cored, Others, On
    <2>13. HeadsCell(w)'
      BY <1>2, <1>1, <1>3, <1>4, <1>5 DEF HeadsCell, Fine, Exists, Moved,
         CellOf, Gone, Others, On, PatchPcs, MovedPcs
    <2>14. Training(w)'
      BY <1>2, <1>1, <1>3, <1>4, <1>5 DEF Training, Fine, Exists, Moved,
         Gone, Others, On, PatchPcs, MovedPcs
    <2> QED
      BY <2>1, <2>2, <2>3, <2>4, <2>5, <2>6, <2>7, <2>8, <2>9, <2>10, <2>11,
         <2>12, <2>13, <2>14 DEF Sound
  <1> QED
    BY <1>2, <1>6, <1>7, <1>8, <1>9, <1>10, FrameStep DEF Inv

\* A reader inserts the core it read.
LEMMA GetInsertStep ==
  ASSUME Inv, NEW c \in Clients, GetInsert(c)
  PROVE  Inv'
  <1>1. PICK w \in Workspaces :
          op[c].ws = w /\ op[c].pc = "getInsert" /\ phase = "up"
    BY DEF Inv, OpsNamed, TypeOK, At, GetInsert
  <1>2. /\ None \notin Clients /\ None \notin Workspaces
        /\ TypeOK /\ OpsNamed /\ OneDelete /\ \A v \in Workspaces : Locked(v)
        /\ Numbers(w) /\ InMay(w) /\ Born(w) /\ Durable(w) /\ Leased(w) /\ Locked(w)
        /\ Gone(w) /\ Patching(w) /\ Inserting(w) /\ DataOne(w)
        /\ CellBelow(w) /\ Bumping(w) /\ HeadsBelow(w) /\ HeadsCell(w)
        /\ Training(w)
    BY NumberFacts, WorkspaceAssumption DEF Inv, Sound
  <1>3. /\ op'[c].pc = "idle" /\ op'[c].ws = None /\ Others(c)
        /\ op' \in [Clients -> Requests] /\ regLock' \in Clients \cup {None}
        /\ metaLock' \in [Workspaces -> Clients \cup {None, Trainer}]
        /\ metaLock'[w] # c /\ metaLock'[w] \in {None, metaLock[w]}
        /\ (metaLock[w] # c => metaLock'[w] = metaLock[w])
        /\ \A v \in Workspaces \ {w} : metaLock'[v] = metaLock[v]
    BY <1>1, <1>2, FinishFacts DEF GetInsert
  <1>4. UNCHANGED <<phase, tree, treeMay, tmp, tmpDurable, ops, minted,
     heads, train, trains, kept, acked, deleted, doomed, raced, suspect, loose,
     faults, crashes>>
    BY DEF GetInsert, diskVars, lockVars, reqVars, trainVars, ghostVars,
       bounds, Goto, GotoWith, Finish, Start, Acknowledge, Load, LoadListed,
       At
  <1>5. op[c].core \in Cores /\ op[c].core # None
    BY <1>1, <1>2, NoneAssumption DEF OpsNamed, Numbers, CorePcs, CreatePcs,
       PatchPcs, BumpPcs, WrittenPcs
  <1>6. /\ cell' \in [Workspaces -> Cores \cup {None}]
        /\ cell'[w] = IF cell[w] = None THEN op[c].core ELSE cell[w]
        /\ \A v \in Workspaces \ {w} : cell'[v] = cell[v]
    BY <1>1, <1>2, <1>5 DEF GetInsert, TypeOK
  <1>7. TypeOK'
    BY <1>2, <1>1, <1>3, <1>4, <1>5, <1>6 DEF TypeOK
  <1>8. BootQuiet' /\ OpsNamed' /\ OneDelete'
    <2>1. BootQuiet' /\ OpsNamed'
      BY <1>2, <1>1, <1>3, <1>4, <1>5, <1>6 DEF BootQuiet, OpsNamed, TypeOK,
         Others, On, CreatePcs, PatchPcs, BumpPcs, WrittenPcs, CorePcs
    <2>2. OneDelete'
      BY <1>2, <1>1, <1>3, <1>4, <1>5, <1>6 DEF OneDelete, Others, On,
         TreeDeletePcs, WsDeletePcs
    <2> QED
      BY <2>1, <2>2
  <1>9. DataBounded'
    BY <1>4 DEF Inv, DataBounded, Below
  <1>10. \A v \in Workspaces \ {w} : Same(v)
    BY <1>2, <1>1, <1>3, <1>4, <1>5, <1>6 DEF Same, Others, TypeOK, OpsNamed
  <1>11. Sound(w)'
    <2>1. InMay(w)'
      BY <1>2, <1>1, <1>3, <1>4, <1>5, <1>6 DEF InMay, Others, On
    <2>2. Born(w)'
      BY <1>2, <1>1, <1>3, <1>4, <1>5, <1>6 DEF Born, Unborn, Untouched,
         OpsNamed, Others, On, CreatePcs, PatchPcs, BumpPcs, WrittenPcs,
         CorePcs
    <2>3. Durable(w)'
      BY <1>2, <1>1, <1>3, <1>4, <1>5, <1>6 DEF Durable, Others, On
    <2>4. Leased(w)'
      BY <1>2, <1>1, <1>3, <1>4, <1>5, <1>6 DEF Leased, Exists, Others, On,
         UploadLeased, TreeDeletePcs, WsDeletePcs
    <2>5. Locked(w)'
      BY <1>2, <1>1, <1>3, <1>4, <1>5, <1>6 DEF Locked, Others, On, BumpPcs,
         WrittenPcs
    <2>6. Gone(w)'
      BY <1>2, <1>1, <1>3, <1>4, <1>5, <1>6 DEF Gone, Exists, Others, On,
         PatchPcs
    <2>7. Patching(w)'
      BY <1>2, <1>1, <1>3, <1>4, <1>5, <1>6 DEF Patching, Exists, Fine,
         Locked, Others, On, PatchPcs, BumpPcs, WrittenPcs
    <2>8. Inserting(w)'
      BY <1>2, <1>1, <1>3, <1>4, <1>5, <1>6 DEF Inserting, Exists, Others, On
    <2>9. DataOne(w)'
      BY <1>2, <1>1, <1>3, <1>4, <1>5, <1>6 DEF DataOne, Fine, Exists, Moved,
         Others, On, MovedPcs
    <2>10. CellBelow(w)'
      BY <1>2, <1>1, <1>3, <1>4, <1>5, <1>6 DEF CellBelow, Fine, Exists,
         CellOf, Cored, Inserting, Others, On
    <2>11. Bumping(w)'
      BY <1>2, <1>1, <1>3, <1>4, <1>5, <1>6 DEF Bumping, Fine, Locked,
         Others, On, BumpPcs, WrittenPcs
    <2>12. HeadsBelow(w)'
      BY <1>2, <1>1, <1>3, <1>4, <1>5, <1>6 DEF HeadsBelow, Fine, Cored,
         Others, On
    <2>13. HeadsCell(w)'
      BY <1>2, <1>1, <1>3, <1>4, <1>5, <1>6 DEF HeadsCell, Fine, Exists,
         Moved, CellOf, Inserting, Others, On, MovedPcs
    <2>14. Training(w)'
      BY <1>2, <1>1, <1>3, <1>4, <1>5, <1>6 DEF Training, Fine, Exists,
         Moved, Inserting, Others, On, MovedPcs
    <2> QED
      BY <2>1, <2>2, <2>3, <2>4, <2>5, <2>6, <2>7, <2>8, <2>9, <2>10, <2>11,
         <2>12, <2>13, <2>14 DEF Sound
  <1> QED
    BY <1>2, <1>7, <1>8, <1>9, <1>10, <1>11, FrameStep DEF Inv

\* A request starts on a workspace that is there, and may load cores of
\* others.
LEMMA BeginStep ==
  ASSUME Inv, NEW c \in Clients, NEW w \in Workspaces,
         NEW p \in {"patchCell", "upTmp", "tdCell", "wdTomb", "getInsert"}, NEW k \in Cores \cup {None},
         CanLoad(w),
         Start(c, p, w, k, minted),
         p # "upTmp" => Exists(w),
         p \in {"patchCell", "getInsert"} => k # None,
         p = "getInsert" => k = tree[w].core,
         p \in {"tdCell", "wdTomb"} => ~DeleteRunning,
         p = "wdTomb" => ~Running(UploadLeased, w),
         regLock' \in Clients \cup {None},
         cell' = [v \in Workspaces |-> cell'[v]],
         \A v \in Workspaces : cell'[v] = cell[v] \/ (Exists(v) /\ cell'[v] = CellOf(v)),
         UNCHANGED <<phase, tree, treeMay, tmp, tmpDurable, metaLock, heads, train,
                     trains, kept, acked, deleted, doomed, raced, suspect, loose, faults,
                     crashes>>
  PROVE  Inv'
  <1>1. /\ CanLoad(w) /\ (p # "upTmp" => Exists(w))
        /\ (p \in {"patchCell", "getInsert"} => k # None)
        /\ (p = "getInsert" => k = tree[w].core)
        /\ (p \in {"tdCell", "wdTomb"} => ~DeleteRunning)
        /\ (p = "wdTomb" => ~Running(UploadLeased, w))
        /\ regLock' \in Clients \cup {None}
        /\ cell' = [v \in Workspaces |-> cell'[v]]
        /\ \A v \in Workspaces :
             cell'[v] = cell[v] \/ (Exists(v) /\ cell'[v] = CellOf(v))
    OBVIOUS
  <1>2. /\ None \notin Clients /\ None \notin Workspaces
        /\ TypeOK /\ OpsNamed /\ OneDelete /\ \A v \in Workspaces : Locked(v)
        /\ Numbers(w) /\ InMay(w) /\ Born(w) /\ Durable(w) /\ Leased(w) /\ Locked(w)
        /\ Gone(w) /\ Patching(w) /\ Inserting(w) /\ DataOne(w)
        /\ CellBelow(w) /\ Bumping(w) /\ HeadsBelow(w) /\ HeadsCell(w)
        /\ Training(w)
    BY NumberFacts, WorkspaceAssumption DEF Inv, Sound
  <1>3. /\ phase = "up" /\ op[c].pc = "idle" /\ op[c].ws = None
        /\ op'[c].pc = p /\ op'[c].ws = w /\ op'[c].core = k
        /\ Others(c) /\ minted' = minted
        /\ op' \in [Clients -> Requests] /\ ops' \in 0..MaxOps
    BY <1>2, StartFacts DEF Pcs, On, CreatePcs, PatchPcs, UploadLeased,
       TreeDeletePcs, WsDeletePcs, BumpPcs, WrittenPcs, MovedPcs, CorePcs
  <1>4. UNCHANGED <<phase, tree, treeMay, tmp, tmpDurable, metaLock, heads,
     train, trains, kept, acked, deleted, doomed, raced, suspect, loose, faults,
     crashes>>
    OBVIOUS
  <1>5. w \in minted /\ ~Unborn(w)
    <2>1. ~Unborn(w)
      BY <1>1, <1>2, EmptyDirFacts DEF Born, Untouched, CanLoad, Exists, InMay
    <2> QED
      BY <2>1 DEF Unborn
  <1>6. /\ cell'[w] = cell[w] \/ (cell[w] = None /\ Exists(w) /\ cell'[w] = tree[w].core)
        /\ cell' \in [Workspaces -> Cores \cup {None}]
    <2>1. \A v \in Workspaces : CellOf(v) = cell[v] \/ CellOf(v) = tree[v].core
      BY DEF CellOf
    <2>2. \A v \in Workspaces : Exists(v) => tree[v].core \in Cores
      BY <1>2, NumberFacts DEF Numbers, TypeOK, Exists, Dirs
    <2>3. \A v \in Workspaces : cell'[v] \in Cores \cup {None}
      BY <1>1, <1>2, <2>1, <2>2 DEF TypeOK
    <2>4. cell' \in [Workspaces -> Cores \cup {None}]
      BY <1>1, <2>3
    <2> QED
      BY <1>1, <2>4 DEF CellOf
  <1>7. TypeOK'
    BY <1>2, <1>1, <1>3, <1>4, <1>5, <1>6 DEF TypeOK
  <1>8. BootQuiet' /\ OpsNamed' /\ OneDelete'
    <2>1. BootQuiet' /\ OpsNamed'
      BY <1>2, <1>1, <1>3, <1>4, <1>5, <1>6 DEF BootQuiet, OpsNamed, TypeOK, Others, On, CreatePcs,
         PatchPcs, BumpPcs, WrittenPcs, CorePcs
    <2>2. OneDelete'
      BY <1>2, <1>1, <1>3, <1>4, <1>5, <1>6 DEF OneDelete, DeleteRunning, Others, TreeDeletePcs, WsDeletePcs
    <2> QED
      BY <2>1, <2>2
  <1>9. DataBounded'
    BY <1>4 DEF Inv, DataBounded, Below
  <1>10. \A v \in Workspaces \ {w} : Same(v)
    BY <1>2, <1>1, <1>3, <1>4, <1>5, <1>6 DEF Same, Others, TypeOK, OpsNamed
  <1>11. Sound(w)'
    <2>1. InMay(w)'
      BY <1>2, <1>1, <1>3, <1>4, <1>5, <1>6 DEF InMay, Others, On,
         UploadLeased
    <2>2. Born(w)'
      BY <1>2, <1>1, <1>3, <1>4, <1>5, <1>6 DEF Born, Unborn, Untouched,
         OpsNamed, Others, On, CreatePcs, PatchPcs, UploadLeased, BumpPcs,
         WrittenPcs, CorePcs
    <2>3. Durable(w)'
      BY <1>2, <1>1, <1>3, <1>4, <1>5, <1>6 DEF Durable, Others, On,
         UploadLeased
    <2>4. Leased(w)'
      BY <1>2, <1>1, <1>3, <1>4, <1>5, <1>6 DEF Leased, Exists,
         DeleteRunning, Running, Others, On, UploadLeased, TreeDeletePcs,
         WsDeletePcs
    <2>5. Locked(w)'
      BY <1>2, <1>1, <1>3, <1>4, <1>5, <1>6 DEF Locked, CellOf, Others, On,
         UploadLeased, BumpPcs, WrittenPcs
    <2>6. Gone(w)'
      BY <1>2, <1>1, <1>3, <1>4, <1>5, <1>6 DEF Gone, Exists, Others, On,
         PatchPcs, UploadLeased
    <2>7. Patching(w)'
      BY <1>2, <1>1, <1>3, <1>4, <1>5, <1>6 DEF Patching, Exists, Fine,
         CellOf, Locked, Others, On, PatchPcs, UploadLeased, BumpPcs,
         WrittenPcs
    <2>8. Inserting(w)'
      BY <1>2, <1>1, <1>3, <1>4, <1>5, <1>6 DEF Inserting, Exists, CellOf,
         Others, On, UploadLeased
    <2>9. DataOne(w)'
      BY <1>2, <1>1, <1>3, <1>4, <1>5, <1>6 DEF DataOne, Fine, Exists, Moved,
         Others, On, UploadLeased, MovedPcs
    <2>10. CellBelow(w)'
      BY <1>2, <1>1, <1>3, <1>4, <1>5, <1>6 DEF CellBelow, Fine, Exists,
         CellOf, Cored, Others, On, UploadLeased
    <2>11. Bumping(w)'
      BY <1>2, <1>1, <1>3, <1>4, <1>5, <1>6 DEF Bumping, Fine, Locked,
         CellOf, Others, On, UploadLeased, BumpPcs, WrittenPcs
    <2>12. HeadsBelow(w)'
      BY <1>2, <1>1, <1>3, <1>4, <1>5, <1>6 DEF HeadsBelow, Fine, Cored,
         Others, On, UploadLeased
    <2>13. HeadsCell(w)'
      BY <1>2, <1>1, <1>3, <1>4, <1>5, <1>6 DEF HeadsCell, Fine, Exists,
         Moved, CellOf, Others, On, UploadLeased, MovedPcs
    <2>14. Training(w)'
      BY <1>2, <1>1, <1>3, <1>4, <1>5, <1>6 DEF Training, Fine, Exists,
         Moved, CellOf, Others, On, UploadLeased, MovedPcs
    <2> QED
      BY <2>1, <2>2, <2>3, <2>4, <2>5, <2>6, <2>7, <2>8, <2>9, <2>10, <2>11,
         <2>12, <2>13, <2>14 DEF Sound
  <1> QED
    BY <1>2, <1>7, <1>8, <1>9, <1>10, <1>11, FrameStep DEF Inv


\* A create hands out an id.
LEMMA CreateCheckStep ==
  ASSUME Inv, NEW c \in Clients, NEW w \in Workspaces, NEW n \in Names, CreateCheck(c, w, n)
  PROVE  Inv'
  <1>1. w \notin minted
    BY DEF CreateCheck
  <1>2. /\ None \notin Clients /\ None \notin Workspaces
        /\ TypeOK /\ OpsNamed /\ OneDelete /\ \A v \in Workspaces : Locked(v)
        /\ Numbers(w) /\ InMay(w) /\ Born(w) /\ Durable(w) /\ Leased(w) /\ Locked(w)
        /\ Gone(w) /\ Patching(w) /\ Inserting(w) /\ DataOne(w)
        /\ CellBelow(w) /\ Bumping(w) /\ HeadsBelow(w) /\ HeadsCell(w)
        /\ Training(w)
    BY NumberFacts, WorkspaceAssumption DEF Inv, Sound
  <1>3. /\ phase = "up" /\ op[c].pc = "idle" /\ op[c].ws = None
        /\ op'[c].pc = "mkdir" /\ op'[c].ws = w /\ op'[c].core # None
        /\ Others(c) /\ minted' = minted \cup {w}
        /\ op' \in [Clients -> Requests] /\ ops' \in 0..MaxOps
    <2>1. Core(n, 0) \in Cores
      BY DEF Core, Cores
    <2>2. "mkdir" \in Pcs
      BY DEF Pcs, CreatePcs
    <2> QED
      BY <1>2, <2>1, <2>2, NoneAssumption, StartFacts DEF CreateCheck
  <1>4. UNCHANGED <<phase, tree, treeMay, tmp, tmpDurable, metaLock, heads,
     train, trains, kept, acked, deleted, doomed, raced, suspect, loose, faults,
     crashes>>
    BY DEF CreateCheck, diskVars, lockVars, reqVars, trainVars, ghostVars,
       bounds, Goto, GotoWith, Finish, Start, Acknowledge, Load, LoadListed,
       At
  <1>5. /\ cell' \in [Workspaces -> Cores \cup {None}] /\ cell'[w] = None
        /\ \A v \in Workspaces :
             cell'[v] = cell[v] \/ (Exists(v) /\ cell'[v] = CellOf(v))
    <2>1. \A v \in Workspaces : CellOf(v) = cell[v] \/ CellOf(v) = tree[v].core
      BY DEF CellOf
    <2>2. \A v \in Workspaces : Exists(v) => tree[v].core \in Cores
      BY <1>2, NumberFacts DEF Numbers, TypeOK, Exists, Dirs
    <2>3. \A v \in Workspaces : cell'[v] \in Cores \cup {None}
      BY <2>1, <2>2, <1>2 DEF CreateCheck, LoadListed, TypeOK
    <2>4. cell' \in [Workspaces -> Cores \cup {None}]
      BY <2>3 DEF CreateCheck, LoadListed
    <2>5. \A v \in Workspaces : cell'[v] = cell[v] \/ (Exists(v) /\ cell'[v] = CellOf(v))
      BY DEF CreateCheck, LoadListed
    <2>6. ~Exists(w) /\ cell[w] = None
      BY <1>1, <1>2, EmptyDirFacts DEF Exists, Born, Unborn, Untouched, InMay
    <2> QED
      BY <2>4, <2>5, <2>6
  <1>6. Untouched(w) /\ (\A d \in Clients : op[d].ws # w) /\ regLock' \in Clients \cup {None}
    BY <1>1, <1>2 DEF Born, Unborn, OpsNamed, CreateCheck
  <1>7. TypeOK'
    BY <1>2, <1>1, <1>3, <1>4, <1>5, <1>6 DEF TypeOK
  <1>8. BootQuiet' /\ OpsNamed' /\ OneDelete'
    <2>1. BootQuiet' /\ OpsNamed'
      BY <1>2, <1>1, <1>3, <1>4, <1>5, <1>6 DEF BootQuiet, OpsNamed, TypeOK,
         Others, On, CreatePcs, PatchPcs, BumpPcs, WrittenPcs, CorePcs
    <2>2. OneDelete'
      BY <1>2, <1>1, <1>3, <1>4, <1>5, <1>6 DEF OneDelete, Others, On,
         TreeDeletePcs, WsDeletePcs
    <2> QED
      BY <2>1, <2>2
  <1>9. DataBounded'
    BY <1>4 DEF Inv, DataBounded, Below
  <1>10. \A v \in Workspaces \ {w} : Same(v)
    BY <1>2, <1>1, <1>3, <1>4, <1>5, <1>6 DEF Same, Others, TypeOK, OpsNamed
  <1>11. Sound(w)'
    <2>1. InMay(w)'
      BY <1>2, <1>1, <1>3, <1>4, <1>5, <1>6 DEF InMay, Others, On
    <2>2. Born(w)'
      BY <1>2, <1>1, <1>3, <1>4, <1>5, <1>6, EmptyDirFacts DEF Born, Unborn,
         Untouched, OpsNamed, InMay, Others, On, CreatePcs, PatchPcs,
         BumpPcs, WrittenPcs, CorePcs
    <2>3. Durable(w)'
      BY <1>2, <1>1, <1>3, <1>4, <1>5, <1>6, EmptyDirFacts DEF Durable,
         Untouched, InMay, Others, On
    <2>4. Leased(w)'
      BY <1>2, <1>1, <1>3, <1>4, <1>5, <1>6, EmptyDirFacts DEF Leased,
         Exists, Untouched, InMay, Others, On, UploadLeased, TreeDeletePcs,
         WsDeletePcs
    <2>5. Locked(w)'
      BY <1>2, <1>1, <1>3, <1>4, <1>5, <1>6 DEF Locked, Others, On, BumpPcs,
         WrittenPcs
    <2>6. Gone(w)'
      BY <1>2, <1>1, <1>3, <1>4, <1>5, <1>6, EmptyDirFacts DEF Gone, Exists,
         Untouched, InMay, Others, On, PatchPcs
    <2>7. Patching(w)'
      BY <1>2, <1>1, <1>3, <1>4, <1>5, <1>6, EmptyDirFacts DEF Patching,
         Exists, Fine, Untouched, InMay, Others, On, PatchPcs
    <2>8. Inserting(w)'
      BY <1>2, <1>1, <1>3, <1>4, <1>5, <1>6, EmptyDirFacts DEF Inserting,
         Exists, Untouched, InMay, Others, On
    <2>9. DataOne(w)'
      BY <1>2, <1>1, <1>3, <1>4, <1>5, <1>6, EmptyDirFacts DEF DataOne, Fine,
         Exists, Moved, Untouched, InMay, Others, On, MovedPcs
    <2>10. CellBelow(w)'
      BY <1>2, <1>1, <1>3, <1>4, <1>5, <1>6, EmptyDirFacts DEF CellBelow,
         Fine, Exists, CellOf, Cored, Untouched, InMay, Others, On
    <2>11. Bumping(w)'
      BY <1>2, <1>1, <1>3, <1>4, <1>5, <1>6, EmptyDirFacts DEF Bumping, Fine,
         Untouched, InMay, Others, On, BumpPcs, WrittenPcs
    <2>12. HeadsBelow(w)'
      BY <1>2, <1>1, <1>3, <1>4, <1>5, <1>6, EmptyDirFacts DEF HeadsBelow,
         Fine, Cored, Untouched, InMay, Others, On
    <2>13. HeadsCell(w)'
      BY <1>2, <1>1, <1>3, <1>4, <1>5, <1>6, EmptyDirFacts DEF HeadsCell,
         Fine, Exists, Moved, CellOf, Untouched, InMay, Others, On, MovedPcs
    <2>14. Training(w)'
      BY <1>2, <1>1, <1>3, <1>4, <1>5, <1>6, EmptyDirFacts DEF Training,
         Fine, Exists, Moved, Untouched, InMay, Others, On, MovedPcs
    <2> QED
      BY <2>1, <2>2, <2>3, <2>4, <2>5, <2>6, <2>7, <2>8, <2>9, <2>10, <2>11,
         <2>12, <2>13, <2>14 DEF Sound
  <1> QED
    BY <1>2, <1>7, <1>8, <1>9, <1>10, <1>11, FrameStep DEF Inv

\* A training run captures the revision.
LEMMA TrainStartStep ==
  ASSUME Inv, NEW w \in Workspaces, TrainStart(w)
  PROVE  Inv'
  <1>1. CanLoad(w) /\ phase = "up"
    BY DEF TrainStart
  <1>2. /\ None \notin Clients /\ None \notin Workspaces
        /\ TypeOK /\ OpsNamed /\ OneDelete /\ \A v \in Workspaces : Locked(v)
        /\ Numbers(w) /\ InMay(w) /\ Born(w) /\ Durable(w) /\ Leased(w) /\ Locked(w)
        /\ Gone(w) /\ Patching(w) /\ Inserting(w) /\ DataOne(w)
        /\ CellBelow(w) /\ Bumping(w) /\ HeadsBelow(w) /\ HeadsCell(w)
        /\ Training(w)
    BY NumberFacts, WorkspaceAssumption DEF Inv, Sound
  <1>3. /\ train.pc = "idle" /\ train.ws = None /\ train' \in Runs /\ trains' \in 0..MaxTrains
        /\ train'.pc = "scan" /\ train'.ws = w /\ train'.rev = CellOf(w).rev
        /\ train'.data = 0
    <2>1. CellOf(w).rev \in Nat
      BY <1>1, <1>2 DEF CellOf, CanLoad, Exists, Numbers, InMay
    <2>2. train' = [pc |-> "scan", ws |-> w, rev |-> CellOf(w).rev, data |-> 0,
                    core |-> None]
      BY DEF TrainStart
    <2>3. trains' \in 0..MaxTrains
      BY <1>2, WorkspaceAssumption DEF TrainStart, TypeOK
    <2>4. train.pc = "idle" /\ train.ws = None
      BY <1>2 DEF TrainStart, OpsNamed
    <2> QED
      BY <2>1, <2>2, <2>3, <2>4 DEF Runs
  <1>4. UNCHANGED <<phase, tree, treeMay, tmp, tmpDurable, regLock, metaLock,
     op, ops, minted, heads, kept, acked, deleted, doomed, raced, suspect, loose,
     faults, crashes>>
    BY DEF TrainStart, diskVars, lockVars, reqVars, trainVars, ghostVars,
       bounds, Goto, GotoWith, Finish, Start, Acknowledge, Load, LoadListed,
       At
  <1>5. /\ cell' \in [Workspaces -> Cores \cup {None}] /\ cell'[w] = CellOf(w)
        /\ CellOf(w) \in Cores /\ CellOf(w) # None /\ CellOf(w).rev \in Nat
        /\ \A v \in Workspaces \ {w} : cell'[v] = cell[v]
    <2>1. CellOf(w) \in Cores /\ CellOf(w) # None
      BY <1>1, <1>2, NoneAssumption DEF CellOf, CanLoad, Exists, Numbers, InMay
    <2>2. CellOf(w).rev \in Nat
      BY <2>1 DEF Cores
    <2>3. cell' = [cell EXCEPT ![w] = CellOf(w)]
      BY DEF TrainStart, Load
    <2> QED
      BY <1>2, <2>1, <2>2, <2>3 DEF TypeOK
  <1>6. ~Unborn(w)
    BY <1>1, <1>2, EmptyDirFacts DEF Born, Untouched, CanLoad, Exists, InMay
  <1>7. TypeOK'
    BY <1>2, <1>1, <1>3, <1>4, <1>5, <1>6 DEF TypeOK
  <1>8. BootQuiet' /\ OpsNamed' /\ OneDelete'
    <2>1. BootQuiet' /\ OpsNamed'
      BY <1>2, <1>1, <1>3, <1>4, <1>5, <1>6 DEF BootQuiet, OpsNamed, TypeOK,
         On, CreatePcs, PatchPcs, BumpPcs, WrittenPcs, CorePcs
    <2>2. OneDelete'
      BY <1>2, <1>1, <1>3, <1>4, <1>5, <1>6 DEF OneDelete, On, TreeDeletePcs,
         WsDeletePcs
    <2> QED
      BY <2>1, <2>2
  <1>9. DataBounded'
    <2>1. PICK B \in Nat : Below(B)
      BY DEF Inv, DataBounded
    <2>2. Below(B)'
      BY <1>2, <2>1, <1>1, <1>3, <1>4, <1>5, <1>6, EmptyDirFacts DEF Below, InMay, Exists
    <2> QED
      BY <2>2 DEF DataBounded
  <1>10. \A v \in Workspaces \ {w} : Same(v)
    BY <1>2, <1>1, <1>3, <1>4, <1>5, <1>6 DEF Same, TypeOK, OpsNamed
  <1>11. Sound(w)'
    <2>1. InMay(w)'
      BY <1>2, <1>1, <1>3, <1>4, <1>5, <1>6 DEF InMay, On
    <2>2. Born(w)'
      BY <1>2, <1>1, <1>3, <1>4, <1>5, <1>6 DEF Born, Unborn, Untouched,
         OpsNamed, On, CreatePcs, PatchPcs, BumpPcs, WrittenPcs, CorePcs
    <2>3. Durable(w)'
      BY <1>2, <1>1, <1>3, <1>4, <1>5, <1>6 DEF Durable, On
    <2>4. Leased(w)'
      BY <1>2, <1>1, <1>3, <1>4, <1>5, <1>6 DEF Leased, Exists, On,
         UploadLeased, TreeDeletePcs, WsDeletePcs
    <2>5. Locked(w)'
      BY <1>2, <1>1, <1>3, <1>4, <1>5, <1>6 DEF Locked, On, BumpPcs,
         WrittenPcs
    <2>6. Gone(w)'
      BY <1>2, <1>1, <1>3, <1>4, <1>5, <1>6 DEF Gone, Exists, On, PatchPcs
    <2>7. Patching(w)'
      BY <1>2, <1>1, <1>3, <1>4, <1>5, <1>6 DEF Patching, Exists, Fine,
         CellOf, On, PatchPcs
    <2>8. Inserting(w)'
      BY <1>2, <1>1, <1>3, <1>4, <1>5, <1>6 DEF Inserting, Exists, CellOf, On
    <2>9. DataOne(w)'
      BY <1>2, <1>1, <1>3, <1>4, <1>5, <1>6 DEF DataOne, Fine, Exists, Moved,
         On, MovedPcs
    <2>10. CellBelow(w)'
      BY <1>2, <1>1, <1>3, <1>4, <1>5, <1>6 DEF CellBelow, Fine, Exists,
         CellOf, Cored, On
    <2>11. Bumping(w)'
      BY <1>2, <1>1, <1>3, <1>4, <1>5, <1>6 DEF Bumping, Fine, Locked,
         CellOf, On, BumpPcs, WrittenPcs
    <2>12. HeadsBelow(w)'
      BY <1>2, <1>1, <1>3, <1>4, <1>5, <1>6 DEF HeadsBelow, Fine, Cored, On
    <2>13. HeadsCell(w)'
      BY <1>2, <1>1, <1>3, <1>4, <1>5, <1>6 DEF HeadsCell, Fine, Exists,
         Moved, CellOf, On, MovedPcs
    <2>14. Training(w)'
      BY <1>2, <1>1, <1>3, <1>4, <1>5, <1>6 DEF Training, Fine, Exists,
         Moved, CellOf, On, MovedPcs
    <2> QED
      BY <2>1, <2>2, <2>3, <2>4, <2>5, <2>6, <2>7, <2>8, <2>9, <2>10, <2>11,
         <2>12, <2>13, <2>14 DEF Sound
  <1> QED
    BY <1>2, <1>7, <1>8, <1>9, <1>10, <1>11, FrameStep DEF Inv

\* It may make a directory, and reads the dataset or ends.
LEMMA TrainDirStep ==
  ASSUME Inv, phase = "up", train.pc # "idle",
         \/ /\ train.pc = "scan" /\ Exists(train.ws)
            /\ train' = [train EXCEPT !.pc = "publish", !.data = tree[train.ws].data]
         \/ train' = NoTrain,
         Mkdir(train.ws) \/ UNCHANGED <<tree, treeMay>>,
         \/ UNCHANGED metaLock
         \/ metaLock' = [metaLock EXCEPT ![train.ws] = IF @ = Trainer THEN None ELSE @],
         UNCHANGED <<phase, tmp, tmpDurable, cell, regLock, op, ops, minted, heads,
                     trains, kept, acked, deleted, doomed, raced, suspect, loose,
                     faults, crashes>>
  PROVE  Inv'
  <1>1. PICK w \in Workspaces : train.ws = w /\ train.pc # "idle" /\ phase = "up"
    BY DEF Inv, OpsNamed
  <1>2. /\ None \notin Clients /\ None \notin Workspaces /\ Trainer \notin Clients
        /\ TypeOK /\ OpsNamed /\ OneDelete /\ \A v \in Workspaces : Locked(v)
        /\ Numbers(w) /\ InMay(w) /\ Born(w) /\ Durable(w) /\ Leased(w) /\ Locked(w)
        /\ Gone(w) /\ Patching(w) /\ Inserting(w) /\ DataOne(w)
        /\ CellBelow(w) /\ Bumping(w) /\ HeadsBelow(w) /\ HeadsCell(w)
        /\ Training(w)
    BY NumberFacts, WorkspaceAssumption DEF Inv, Sound
  <1>3. /\ train' \in Runs
        /\ \/ /\ Exists(w) /\ train'.pc = "publish" /\ train'.ws = w
              /\ train'.rev = train.rev /\ train'.data = tree[w].data
           \/ train'.pc = "idle" /\ train'.ws = None /\ train'.data = 0
        /\ metaLock' \in [Workspaces -> Clients \cup {None, Trainer}]
        /\ \A d \in Clients : metaLock'[w] = d <=> metaLock[w] = d
        /\ \A v \in Workspaces \ {w} : metaLock'[v] = metaLock[v]
    <2>1. CASE /\ Exists(w)
               /\ train' = [train EXCEPT !.pc = "publish", !.data = tree[w].data]
      <3>1. tree[w].data \in Nat
        BY <1>2, <2>1 DEF Numbers, InMay, Exists
      <3>2. /\ train' \in Runs /\ train'.pc = "publish" /\ train'.ws = w
            /\ train'.rev = train.rev /\ train'.data = tree[w].data
        BY <1>1, <1>2, <2>1, <3>1 DEF TypeOK, Runs
      <3> QED
        BY <1>1, <1>2, <2>1, <3>2 DEF TypeOK
    <2>2. CASE train' = NoTrain
      <3>1. train' \in Runs /\ train'.pc = "idle" /\ train'.ws = None /\ train'.data = 0
        BY <2>2 DEF NoTrain, Runs
      <3> QED
        BY <1>1, <1>2, <3>1 DEF TypeOK
    <2> QED
      BY <1>1, <2>1, <2>2
  <1>4. UNCHANGED <<phase, tmp, tmpDurable, cell, regLock, op, ops,
     minted, heads, trains, kept, acked, deleted, doomed, raced, suspect, loose,
     faults, crashes>>
    OBVIOUS
  <1>5. /\ tree' \in [Workspaces -> Dirs \cup {None}]
        /\ treeMay' \in [Workspaces -> SUBSET (Dirs \cup {None})]
        /\ InMay(w)'
        /\ \/ tree'[w] = tree[w] /\ treeMay'[w] = treeMay[w]
           \/ /\ tree[w] = None /\ tree'[w] = EmptyDir
              /\ treeMay'[w] = treeMay[w] \cup {EmptyDir}
        /\ \A v \in Workspaces \ {w} :
             tree'[v] = tree[v] /\ treeMay'[v] = treeMay[v]
    BY <1>1, <1>2, MkdirFacts DEF InMay, TypeOK
  <1>6. EmptyDir # None /\ EmptyDir.core = None /\ EmptyDir.data = 0
    BY EmptyDirFacts
  <1>7. TypeOK'
    BY <1>2, <1>1, <1>3, <1>4, <1>5, <1>6 DEF TypeOK
  <1>8. BootQuiet' /\ OpsNamed' /\ OneDelete'
    <2>1. BootQuiet' /\ OpsNamed'
      BY <1>2, <1>1, <1>3, <1>4, <1>5, <1>6 DEF BootQuiet, OpsNamed, TypeOK,
         On, CreatePcs, PatchPcs, BumpPcs, WrittenPcs, CorePcs
    <2>2. OneDelete'
      BY <1>2, <1>1, <1>3, <1>4, <1>5, <1>6 DEF OneDelete, On, TreeDeletePcs,
         WsDeletePcs
    <2> QED
      BY <2>1, <2>2
  <1>9. DataBounded'
    <2>1. PICK B \in Nat : Below(B)
      BY DEF Inv, DataBounded
    <2>2. Below(B)'
      BY <1>2, <2>1, <1>1, <1>3, <1>4, <1>5, <1>6, EmptyDirFacts DEF Below, InMay, Exists
    <2> QED
      BY <2>2 DEF DataBounded
  <1>10. \A v \in Workspaces \ {w} : Same(v)
    BY <1>2, <1>1, <1>3, <1>4, <1>5, <1>6 DEF Same, TypeOK, OpsNamed
  <1>11. Sound(w)'
    <2>1. InMay(w)'
      BY <1>2, <1>1, <1>3, <1>4, <1>5, <1>6 DEF InMay, On
    <2>2. Born(w)'
      BY <1>2, <1>1, <1>3, <1>4, <1>5, <1>6 DEF Born, Unborn, Untouched,
         OpsNamed, InMay, On, CreatePcs, PatchPcs, BumpPcs, WrittenPcs,
         CorePcs
    <2>3. Durable(w)'
      BY <1>2, <1>1, <1>3, <1>4, <1>5, <1>6 DEF Durable, InMay, On
    <2>4. Leased(w)'
      BY <1>2, <1>1, <1>3, <1>4, <1>5, <1>6 DEF Leased, Exists, On,
         UploadLeased, TreeDeletePcs, WsDeletePcs
    <2>5. Locked(w)'
      BY <1>2, <1>1, <1>3, <1>4, <1>5, <1>6 DEF Locked, On, BumpPcs,
         WrittenPcs
    <2>6. Gone(w)'
      BY <1>2, <1>1, <1>3, <1>4, <1>5, <1>6 DEF Gone, Exists, InMay, On,
         PatchPcs
    <2>7. Patching(w)'
      BY <1>2, <1>1, <1>3, <1>4, <1>5, <1>6 DEF Patching, Exists, Fine, On,
         PatchPcs
    <2>8. Inserting(w)'
      BY <1>2, <1>1, <1>3, <1>4, <1>5, <1>6 DEF Inserting, Exists, On
    <2>9. DataOne(w)'
      BY <1>2, <1>1, <1>3, <1>4, <1>5, <1>6 DEF DataOne, Fine, Exists, Moved,
         On, MovedPcs
    <2>10. CellBelow(w)'
      BY <1>2, <1>1, <1>3, <1>4, <1>5, <1>6 DEF CellBelow, Fine, Exists,
         CellOf, Cored, On
    <2>11. Bumping(w)'
      BY <1>2, <1>1, <1>3, <1>4, <1>5, <1>6 DEF Bumping, Fine, Leased,
         Exists, On, UploadLeased, TreeDeletePcs, WsDeletePcs, BumpPcs,
         WrittenPcs
    <2>12. HeadsBelow(w)'
      BY <1>2, <1>1, <1>3, <1>4, <1>5, <1>6 DEF HeadsBelow, Fine, Cored, On
    <2>13. HeadsCell(w)'
      BY <1>2, <1>1, <1>3, <1>4, <1>5, <1>6 DEF HeadsCell, Fine, Exists,
         Moved, CellOf, On, MovedPcs
    <2>14. Training(w)'
      BY <1>2, <1>1, <1>3, <1>4, <1>5, <1>6 DEF Training, Fine, Exists,
         Moved, On, MovedPcs
    <2> QED
      BY <2>1, <2>2, <2>3, <2>4, <2>5, <2>6, <2>7, <2>8, <2>9, <2>10, <2>11,
         <2>12, <2>13, <2>14 DEF Sound
  <1> QED
    BY <1>2, <1>7, <1>8, <1>9, <1>10, <1>11, FrameStep DEF Inv

\* It publishes its head.
LEMMA TrainPublishStep ==
  ASSUME Inv, TrainPublish, Exists(train.ws)
  PROVE  Inv'
  <1>1. PICK w \in Workspaces :
          train.ws = w /\ train.pc = "publish" /\ phase = "up" /\ Exists(w)
    BY DEF TrainPublish, Inv, OpsNamed
  <1>2. /\ None \notin Clients /\ None \notin Workspaces /\ Trainer \notin Clients
        /\ TypeOK /\ OpsNamed /\ OneDelete /\ \A v \in Workspaces : Locked(v)
        /\ Numbers(w) /\ InMay(w) /\ Born(w) /\ Durable(w) /\ Leased(w) /\ Locked(w)
        /\ Gone(w) /\ Patching(w) /\ Inserting(w) /\ DataOne(w)
        /\ CellBelow(w) /\ Bumping(w) /\ HeadsBelow(w) /\ HeadsCell(w)
        /\ Training(w)
    BY NumberFacts, WorkspaceAssumption DEF Inv, Sound
  <1>3. /\ train' \in Runs /\ train'.pc = "core" /\ train'.ws = w
        /\ train'.rev = train.rev /\ train'.data = train.data
        /\ \A d \in Clients : metaLock[w] # d /\ metaLock'[w] # d
        /\ metaLock' \in [Workspaces -> Clients \cup {None, Trainer}]
        /\ \A v \in Workspaces \ {w} : metaLock'[v] = metaLock[v]
    <2>1. /\ metaLock' = [metaLock EXCEPT ![w] = Trainer] /\ metaLock[w] = None
          /\ train' = [train EXCEPT !.pc = "core", !.core = tree[w].core]
      BY <1>1 DEF TrainPublish
    <2>2. tree[w].core \in Cores \cup {None}
      BY <1>1, <1>2 DEF Numbers, InMay, Exists
    <2>3. /\ train' \in Runs /\ train'.pc = "core" /\ train'.ws = w
          /\ train'.rev = train.rev /\ train'.data = train.data
      BY <1>1, <1>2, <2>1, <2>2 DEF TypeOK, Runs
    <2> QED
      BY <1>2, <2>1, <2>3 DEF TypeOK
  <1>4. UNCHANGED <<phase, tree, treeMay, tmp, tmpDurable, regLock, op, ops,
     minted, trains, kept, acked, deleted, doomed, raced, suspect, loose, faults,
     crashes>>
    BY DEF TrainPublish, Exists, diskVars, lockVars, reqVars, trainVars,
       ghostVars, bounds, Goto, GotoWith, Finish, Start, Acknowledge, Load,
       LoadListed, At
  <1>5. /\ tree[w] # None /\ tree[w].core \in Cores /\ tree[w].core # None
        /\ tree[w].core.rev \in Nat
    BY <1>1, <1>2 DEF Exists, Numbers, InMay
  <1>6. CellOf(w) \in Cores /\ CellOf(w) # None /\ cell'[w] = CellOf(w)
    BY <1>1, <1>2, <1>5, NoneAssumption DEF TrainPublish, Load, CellOf, Numbers, TypeOK
  <1>7. /\ cell' \in [Workspaces -> Cores \cup {None}]
        /\ heads' \in [Workspaces -> SUBSET [rev : Nat, data : Nat]]
        /\ \A h \in heads'[w] :
             h \in heads[w] \/ (h.rev = train.rev /\ h.data = train.data)
        /\ \A v \in Workspaces \ {w} : cell'[v] = cell[v] /\ heads'[v] = heads[v]
    <2>1. [rev |-> train.rev, data |-> train.data] \in [rev : Nat, data : Nat]
      BY <1>2 DEF Numbers
    <2> QED
      BY <1>1, <1>2, <1>5, <1>6, <2>1 DEF TrainPublish, Load, TypeOK
  <1>8. TypeOK'
    BY <1>2, <1>1, <1>3, <1>4, <1>5, <1>6, <1>7 DEF TypeOK
  <1>9. BootQuiet' /\ OpsNamed' /\ OneDelete'
    <2>1. BootQuiet' /\ OpsNamed'
      BY <1>2, <1>1, <1>3, <1>4, <1>5, <1>6, <1>7 DEF BootQuiet, OpsNamed,
         TypeOK, On, CreatePcs, PatchPcs, BumpPcs, WrittenPcs, CorePcs
    <2>2. OneDelete'
      BY <1>2, <1>1, <1>3, <1>4, <1>5, <1>6, <1>7 DEF OneDelete, On,
         TreeDeletePcs, WsDeletePcs
    <2> QED
      BY <2>1, <2>2
  <1>10. DataBounded'
    <2>1. PICK B \in Nat : Below(B)
      BY DEF Inv, DataBounded
    <2>2. Below(B)'
      BY <1>2, <2>1, <1>1, <1>3, <1>4, <1>5, <1>6, <1>7, EmptyDirFacts DEF Below, InMay, Exists
    <2> QED
      BY <2>2 DEF DataBounded
  <1>11. \A v \in Workspaces \ {w} : Same(v)
    BY <1>2, <1>1, <1>3, <1>4, <1>5, <1>6, <1>7 DEF Same, TypeOK, OpsNamed
  <1>12. Sound(w)'
    <2>1. InMay(w)'
      BY <1>2, <1>1, <1>3, <1>4, <1>5, <1>6, <1>7 DEF InMay, On
    <2>2. Born(w)'
      BY <1>2, <1>1, <1>3, <1>4, <1>5, <1>6, <1>7, EmptyDirFacts DEF Born,
         Unborn, Untouched, OpsNamed, Exists, InMay, On, CreatePcs, PatchPcs,
         BumpPcs, WrittenPcs, CorePcs
    <2>3. Durable(w)'
      BY <1>2, <1>1, <1>3, <1>4, <1>5, <1>6, <1>7 DEF Durable, InMay, On
    <2>4. Leased(w)'
      BY <1>2, <1>1, <1>3, <1>4, <1>5, <1>6, <1>7 DEF Leased, Exists, On,
         UploadLeased, TreeDeletePcs, WsDeletePcs
    <2>5. Locked(w)'
      BY <1>2, <1>1, <1>3, <1>4, <1>5, <1>6, <1>7 DEF Locked, On, BumpPcs,
         WrittenPcs
    <2>6. Gone(w)'
      BY <1>2, <1>1, <1>3, <1>4, <1>5, <1>6, <1>7 DEF Gone, Exists, On,
         PatchPcs
    <2>7. Patching(w)'
      BY <1>2, <1>1, <1>3, <1>4, <1>5, <1>6, <1>7 DEF Patching, Exists, Fine,
         On, PatchPcs
    <2>8. Inserting(w)'
      BY <1>2, <1>1, <1>3, <1>4, <1>5, <1>6, <1>7 DEF Inserting, Exists, On
    <2>9. DataOne(w)'
      BY <1>2, <1>1, <1>3, <1>4, <1>5, <1>6, <1>7 DEF DataOne, Fine, Exists,
         Moved, Locked, On, BumpPcs, WrittenPcs, MovedPcs
    <2>10. CellBelow(w)'
      BY <1>2, <1>1, <1>3, <1>4, <1>5, <1>6, <1>7 DEF CellBelow, Fine,
         Exists, CellOf, Cored, Numbers, On
    <2>11. Bumping(w)'
      BY <1>2, <1>1, <1>3, <1>4, <1>5, <1>6, <1>7 DEF Bumping, Fine, Locked,
         On, BumpPcs, WrittenPcs
    <2>12. ~Moved(w) /\ (Fine(w) =>
             /\ cell[w] # None /\ cell[w].rev \in Nat /\ train.rev <= cell[w].rev
             /\ train.rev = cell[w].rev => train.data = tree[w].data)
      <3>1. ~Moved(w)
        BY <1>2, <1>3 DEF Moved, Locked, On, MovedPcs, WrittenPcs
      <3> QED
        BY <1>1, <1>2, <3>1 DEF Training, Numbers
    <2>13. HeadsBelow(w)'
      <3> SUFFICES ASSUME Fine(w), NEW m \in treeMay[w], Cored(m), NEW h \in heads'[w]
                   PROVE  /\ h.rev <= m.core.rev
                          /\ h.rev = m.core.rev /\ w \notin loose => h.data = m.data
        BY <1>4 DEF HeadsBelow, Cored, Fine
      <3>1. CASE h \in heads[w]
        BY <1>2, <3>1 DEF HeadsBelow
      <3>2. CASE h.rev = train.rev /\ h.data = train.data
        <4>1. cell[w].rev <= m.core.rev /\ m.core.rev \in Nat
          BY <1>1, <1>2, <2>12 DEF CellBelow, CellOf, Cored, Numbers
        <4>2. w \notin loose => m.data = tree[w].data
          BY <1>1, <1>2, <2>12 DEF DataOne, Cored
        <4> QED
          BY <1>2, <2>12, <3>2, <4>1, <4>2 DEF Numbers
      <3> QED
        BY <1>7, <3>1, <3>2
    <2>14. HeadsCell(w)'
      <3> SUFFICES ASSUME Fine(w), NEW h \in heads'[w]
                   PROVE  /\ h.rev <= CellOf(w).rev
                          /\ h.rev = CellOf(w).rev => h.data = tree[w].data
        BY <1>4, <1>6 DEF HeadsCell, Fine, CellOf
      <3>1. CASE h \in heads[w]
        BY <1>1, <1>2, <2>12, <3>1 DEF HeadsCell
      <3>2. CASE h.rev = train.rev /\ h.data = train.data
        BY <2>12, <3>2 DEF CellOf
      <3> QED
        BY <1>7, <3>1, <3>2
    <2>15. Training(w)'
      <3>1. Fine(w) => cell'[w] = cell[w]
        BY <1>6, <2>12 DEF CellOf
      <3> QED
        BY <1>1, <1>2, <1>3, <1>4, <2>12, <3>1 DEF Training, Fine
    <2> QED
      BY <2>1, <2>2, <2>3, <2>4, <2>5, <2>6, <2>7, <2>8, <2>9, <2>10, <2>11,
         <2>13, <2>14, <2>15 DEF Sound
  <1> QED
    BY <1>2, <1>8, <1>9, <1>10, <1>11, <1>12, FrameStep DEF Inv


\* It writes back the core it has read, into the directory it finds.
LEMMA TrainCoreStep ==
  ASSUME Inv, Publishing, TrainCore, tree[train.ws] # None
  PROVE  Inv'
  <1>1. PICK w \in Workspaces : train.ws = w /\ train.pc = "core" /\ phase = "up"
    BY DEF TrainCore, Inv, OpsNamed
  <1>2. /\ None \notin Clients /\ None \notin Workspaces /\ Trainer \notin Clients
        /\ TypeOK /\ OpsNamed /\ OneDelete /\ \A v \in Workspaces : Locked(v)
        /\ Numbers(w) /\ InMay(w) /\ Born(w) /\ Durable(w) /\ Leased(w) /\ Locked(w)
        /\ Gone(w) /\ Patching(w) /\ Inserting(w) /\ DataOne(w)
        /\ CellBelow(w) /\ Bumping(w) /\ HeadsBelow(w) /\ HeadsCell(w)
        /\ Training(w)
    BY NumberFacts, WorkspaceAssumption DEF Inv, Sound
  <1>3. /\ train' \in Runs /\ train'.pc = "idle" /\ train'.ws = None /\ train'.data = 0
        /\ metaLock' \in [Workspaces -> Clients \cup {None, Trainer}]
        /\ \A d \in Clients : metaLock'[w] = d <=> metaLock[w] = d
        /\ \A v \in Workspaces \ {w} : metaLock'[v] = metaLock[v]
    <2>1. train' = NoTrain
          /\ metaLock' = [metaLock EXCEPT ![w] = IF @ = Trainer THEN None ELSE @]
      BY <1>1 DEF TrainCore
    <2>2. train' \in Runs /\ train'.pc = "idle" /\ train'.ws = None /\ train'.data = 0
      BY <2>1 DEF NoTrain, Runs
    <2> QED
      BY <1>2, <2>1, <2>2 DEF TypeOK
  <1>4. UNCHANGED <<phase, tmp, tmpDurable, regLock, op, ops,
     minted, heads, trains, kept, acked, deleted, doomed, raced, suspect, loose, faults,
     crashes>>
    BY DEF TrainCore, reqVars, ghostVars, bounds
  <1>5. /\ tree[w] # None /\ train.core \in Cores /\ train.core # None
        /\ w \notin raced => /\ \A d \in Clients : metaLock[w] # d
                            /\ Exists(w) /\ train.core = tree[w].core
                            /\ tree[w].core.rev \in Nat
    <2>1. train.core \in Cores /\ train.core # None
      BY <1>1, <1>2 DEF Publishing, TypeOK, Runs
    <2>2. w \notin raced => metaLock[w] = Trainer /\ Exists(w)
                            /\ train.core = tree[w].core
      BY <1>1 DEF Publishing
    <2> QED
      BY <1>1, <1>2, <2>1, <2>2 DEF Cores
  <1>6. /\ tree' \in [Workspaces -> Dirs \cup {None}]
        /\ treeMay' \in [Workspaces -> SUBSET (Dirs \cup {None})]
        /\ InMay(w)'
        /\ tree'[w] # None /\ tree'[w].core = train.core /\ tree'[w].data = tree[w].data
        /\ \A m \in treeMay'[w] : m # None =>
             /\ m.core = train.core
             /\ \E o \in treeMay[w] : o # None /\ m.data = o.data
        /\ None \in treeMay'[w] => None \in treeMay[w]
        /\ \A v \in Workspaces \ {w} :
             tree'[v] = tree[v] /\ treeMay'[v] = treeMay[v]
    <2>1. PutCore(w, train.core)
      BY <1>1, <1>5 DEF TrainCore
    <2> QED
      BY <1>2, <1>5, <2>1, PutCoreFacts
  <1>7. /\ cell' \in [Workspaces -> Cores \cup {None}]
        /\ cell'[w] = IF cell[w] # None THEN train.core ELSE None
        /\ \A v \in Workspaces \ {w} : cell'[v] = cell[v]
    BY <1>1, <1>2, <1>5 DEF TrainCore, TypeOK
  <1>8. TypeOK'
    BY <1>2, <1>1, <1>3, <1>4, <1>5, <1>6, <1>7 DEF TypeOK
  <1>9. BootQuiet' /\ OpsNamed' /\ OneDelete'
    <2>1. BootQuiet' /\ OpsNamed'
      BY <1>2, <1>1, <1>3, <1>4, <1>5, <1>6, <1>7 DEF BootQuiet, OpsNamed,
         TypeOK, On, CreatePcs, PatchPcs, BumpPcs, WrittenPcs, CorePcs
    <2>2. OneDelete'
      BY <1>2, <1>1, <1>3, <1>4, <1>5, <1>6, <1>7 DEF OneDelete, On,
         TreeDeletePcs, WsDeletePcs
    <2> QED
      BY <2>1, <2>2
  <1>10. DataBounded'
    <2>1. PICK B \in Nat : Below(B)
      BY DEF Inv, DataBounded
    <2>2. Below(B)'
      BY <1>2, <2>1, <1>1, <1>3, <1>4, <1>5, <1>6, <1>7, EmptyDirFacts DEF Below, InMay, Exists
    <2> QED
      BY <2>2 DEF DataBounded
  <1>11. \A v \in Workspaces \ {w} : Same(v)
    BY <1>2, <1>1, <1>3, <1>4, <1>5, <1>6, <1>7 DEF Same, TypeOK, OpsNamed
  <1>12. Sound(w)'
    <2>1. InMay(w)'
      BY <1>2, <1>1, <1>3, <1>4, <1>5, <1>6, <1>7 DEF InMay, On
    <2>2. Born(w)'
      BY <1>2, <1>1, <1>3, <1>4, <1>5, <1>6, <1>7, EmptyDirFacts DEF Born,
         Unborn, Untouched, OpsNamed, Exists, InMay, On, CreatePcs, PatchPcs,
         BumpPcs, WrittenPcs, CorePcs
    <2>3. Durable(w)'
      BY <1>2, <1>1, <1>3, <1>4, <1>5, <1>6, <1>7 DEF Durable, InMay, On
    <2>4. Leased(w)'
      BY <1>2, <1>1, <1>3, <1>4, <1>5, <1>6, <1>7 DEF Leased, Exists, On,
         UploadLeased, TreeDeletePcs, WsDeletePcs
    <2>5. Locked(w)'
      BY <1>2, <1>1, <1>3, <1>4, <1>5, <1>6, <1>7 DEF Locked, On, BumpPcs,
         WrittenPcs
    <2>6. Gone(w)'
      BY <1>2, <1>1, <1>3, <1>4, <1>5, <1>6, <1>7 DEF Gone, Exists, On,
         PatchPcs
    <2>7. Patching(w)'
      BY <1>2, <1>1, <1>3, <1>4, <1>5, <1>6, <1>7 DEF Patching, Exists, Fine,
         On, PatchPcs
    <2>8. Inserting(w)'
      BY <1>2, <1>1, <1>3, <1>4, <1>5, <1>6, <1>7 DEF Inserting, Exists, On
    <2>9. DataOne(w)'
      BY <1>2, <1>1, <1>3, <1>4, <1>5, <1>6, <1>7 DEF DataOne, Fine, Exists,
         Moved, Locked, On, BumpPcs, WrittenPcs, MovedPcs
    <2>10. CellBelow(w)'
      BY <1>2, <1>1, <1>3, <1>4, <1>5, <1>6, <1>7 DEF CellBelow, Fine,
         Exists, CellOf, Cored, Numbers, On
    <2>11. Bumping(w)'
      BY <1>2, <1>1, <1>3, <1>4, <1>5, <1>6, <1>7 DEF Bumping, Fine, Locked,
         On, BumpPcs, WrittenPcs
    <2>12. HeadsBelow(w)'
      <3> SUFFICES ASSUME Fine(w), NEW m \in treeMay'[w], m # None, NEW h \in heads[w]
                   PROVE  /\ h.rev <= m.core.rev
                          /\ h.rev = m.core.rev /\ w \notin loose => h.data = m.data
        BY <1>4 DEF HeadsBelow, Cored, Fine
      <3>1. ~Moved(w) /\ Exists(w)
        BY <1>2, <1>5 DEF Moved, Locked, On, MovedPcs, WrittenPcs, Fine
      <3>2. /\ m.core = tree[w].core
            /\ w \notin loose => m.data = tree[w].data
        BY <1>2, <1>5, <1>6, <3>1 DEF DataOne, Fine
      <3>3. Sound(w)
        BY DEF Inv
      <3> QED
        BY <1>2, <3>1, <3>2, <3>3, OwnTree
    <2>13. HeadsCell(w)'
      <3> SUFFICES ASSUME Fine(w), NEW h \in heads[w]
                   PROVE  /\ h.rev <= tree[w].core.rev
                          /\ h.rev = tree[w].core.rev => h.data = tree[w].data
        BY <1>4, <1>5, <1>6, <1>7 DEF HeadsCell, Fine, CellOf
      <3>1. Sound(w) /\ Exists(w)
        BY <1>5 DEF Inv, Fine
      <3> QED
        BY <1>2, <3>1, OwnTree
    <2>14. Training(w)'
      BY <1>2, <1>1, <1>3, <1>4, <1>5, <1>6, <1>7 DEF Training, Fine, Exists,
         Moved, On, MovedPcs
    <2> QED
      BY <2>1, <2>2, <2>3, <2>4, <2>5, <2>6, <2>7, <2>8, <2>9, <2>10, <2>11,
         <2>12, <2>13, <2>14 DEF Sound
  <1> QED
    BY <1>2, <1>8, <1>9, <1>10, <1>11, <1>12, FrameStep DEF Inv


\* A put_atomic that fails after its rename.
LEMMA FaultWriteStep ==
  ASSUME Inv, NEW c \in Clients,
         phase = "up",
         op[c].pc \in {"core", "patchCore", "upCore", "tdCore"},
         tree[op[c].ws] # None,
         PutCoreNoFsync(op[c].ws, op[c].core),
         Finish(c),
         tmp' \in SUBSET Entries,
         faults' \in 0..MaxFaults,
         UNCHANGED <<phase, tmpDurable, cell, heads, train, trains, kept, acked, deleted,
                     doomed, raced, suspect, loose, crashes>>
  PROVE  Inv'
  <1>1. PICK w \in Workspaces :
          op[c].ws = w /\ op[c].pc \in {"core", "patchCore", "upCore", "tdCore"} /\ phase = "up"
    BY DEF Inv, OpsNamed, TypeOK
  <1>2. /\ None \notin Clients /\ None \notin Workspaces
        /\ TypeOK /\ OpsNamed /\ OneDelete /\ \A v \in Workspaces : Locked(v)
        /\ Numbers(w) /\ InMay(w) /\ Born(w) /\ Durable(w) /\ Leased(w) /\ Locked(w)
        /\ Gone(w) /\ Patching(w) /\ Inserting(w) /\ DataOne(w)
        /\ CellBelow(w) /\ Bumping(w) /\ HeadsBelow(w) /\ HeadsCell(w)
        /\ Training(w)
    BY NumberFacts, WorkspaceAssumption DEF Inv, Sound
  <1>3. /\ op'[c].pc = "idle" /\ op'[c].ws = None /\ Others(c)
        /\ op' \in [Clients -> Requests] /\ regLock' \in Clients \cup {None}
        /\ metaLock' \in [Workspaces -> Clients \cup {None, Trainer}]
        /\ metaLock'[w] # c /\ metaLock'[w] \in {None, metaLock[w]}
        /\ (metaLock[w] # c => metaLock'[w] = metaLock[w])
        /\ \A v \in Workspaces \ {w} : metaLock'[v] = metaLock[v]
        /\ minted' = minted /\ ops' = ops
    BY <1>1, <1>2, FinishFacts
  <1>4. UNCHANGED <<phase, tmpDurable, cell, heads, train, trains, kept,
     acked, deleted, doomed, raced, suspect, loose, crashes>>
    OBVIOUS
  <1>5. op[c].core \in Cores /\ op[c].core # None /\ tree[w] # None
    BY <1>1, <1>2, NoneAssumption DEF OpsNamed, Numbers, CorePcs, CreatePcs,
       PatchPcs, BumpPcs, WrittenPcs
  <1>6. /\ tree' \in [Workspaces -> Dirs \cup {None}]
        /\ treeMay' \in [Workspaces -> SUBSET (Dirs \cup {None})]
        /\ InMay(w)'
        /\ tree'[w] # None /\ tree'[w].core = op[c].core /\ tree'[w].data = tree[w].data
        /\ \A m \in treeMay'[w] :
             \/ m \in treeMay[w]
             \/ /\ m # None /\ m.core = op[c].core
                /\ \E o \in treeMay[w] : o # None /\ m.data = o.data
        /\ \A v \in Workspaces \ {w} :
             tree'[v] = tree[v] /\ treeMay'[v] = treeMay[v]
    BY <1>1, <1>2, <1>5, PutCoreNoFsyncFacts
  <1>7. tmp' \in SUBSET Entries /\ faults' \in 0..MaxFaults
    OBVIOUS
  <1>8. TypeOK'
    BY <1>2, <1>1, <1>3, <1>4, <1>5, <1>6, <1>7 DEF TypeOK
  <1>9. BootQuiet' /\ OpsNamed' /\ OneDelete'
    <2>1. BootQuiet' /\ OpsNamed'
      BY <1>2, <1>1, <1>3, <1>4, <1>5, <1>6, <1>7 DEF BootQuiet, OpsNamed,
         TypeOK, Others, On, CreatePcs, PatchPcs, BumpPcs, WrittenPcs,
         CorePcs
    <2>2. OneDelete'
      BY <1>2, <1>1, <1>3, <1>4, <1>5, <1>6, <1>7 DEF OneDelete, Others, On,
         TreeDeletePcs, WsDeletePcs
    <2> QED
      BY <2>1, <2>2
  <1>10. DataBounded'
    <2>1. PICK B \in Nat : Below(B)
      BY DEF Inv, DataBounded
    <2>2. Below(B)'
      BY <1>2, <2>1, <1>1, <1>3, <1>4, <1>5, <1>6, <1>7, EmptyDirFacts DEF Below, InMay, Exists
    <2> QED
      BY <2>2 DEF DataBounded
  <1>11. \A v \in Workspaces \ {w} : Same(v)
    BY <1>2, <1>1, <1>3, <1>4, <1>5, <1>6, <1>7 DEF Same, Others, TypeOK,
       OpsNamed
  <1>12. Sound(w)'
    <2>1. InMay(w)'
      BY <1>2, <1>1, <1>3, <1>4, <1>5, <1>6, <1>7 DEF InMay, Others, On
    <2>2. Born(w)'
      BY <1>2, <1>1, <1>3, <1>4, <1>5, <1>6, <1>7 DEF Born, Unborn,
         Untouched, OpsNamed, Others, On, CreatePcs, PatchPcs, BumpPcs,
         WrittenPcs, CorePcs
    <2>3. Durable(w)'
      BY <1>2, <1>1, <1>3, <1>4, <1>5, <1>6, <1>7 DEF Durable, Born, Unborn,
         Untouched, Others, On
    <2>4. Leased(w)'
      BY <1>2, <1>1, <1>3, <1>4, <1>5, <1>6, <1>7 DEF Leased, Exists, Others,
         On, UploadLeased, TreeDeletePcs, WsDeletePcs
    <2>5. Locked(w)'
      BY <1>2, <1>1, <1>3, <1>4, <1>5, <1>6, <1>7 DEF Locked, Others, On,
         BumpPcs, WrittenPcs
    <2>6. Gone(w)'
      BY <1>2, <1>1, <1>3, <1>4, <1>5, <1>6, <1>7 DEF Gone, Exists, Born,
         Unborn, Untouched, Patching, Leased, Others, On, PatchPcs,
         UploadLeased, TreeDeletePcs, WsDeletePcs
    <2>7. Patching(w)'
      BY <1>2, <1>1, <1>3, <1>4, <1>5, <1>6, <1>7 DEF Patching, Exists, Fine,
         Locked, Born, Others, On, PatchPcs, BumpPcs, WrittenPcs
    <2>8. Inserting(w)'
      BY <1>2, <1>1, <1>3, <1>4, <1>5, <1>6, <1>7 DEF Inserting, Exists,
         Born, Patching, Locked, Others, On, PatchPcs, BumpPcs, WrittenPcs
    <2>9. DataOne(w)'
      BY <1>2, <1>1, <1>3, <1>4, <1>5, <1>6, <1>7, EmptyDirFacts DEF DataOne,
         Fine, Exists, Moved, Born, Unborn, Untouched, Patching, Leased,
         InMay, Others, On, PatchPcs, UploadLeased, TreeDeletePcs,
         WsDeletePcs, MovedPcs
    <2>10. CellBelow(w)'
      BY <1>2, <1>1, <1>3, <1>4, <1>5, <1>6, <1>7, EmptyDirFacts DEF
         CellBelow, Fine, Exists, CellOf, Cored, Numbers, Born, Unborn,
         Untouched, Patching, Bumping, Locked, Leased, InMay, Others, On,
         PatchPcs, UploadLeased, TreeDeletePcs, WsDeletePcs, BumpPcs,
         WrittenPcs
    <2>11. Bumping(w)'
      BY <1>2, <1>1, <1>3, <1>4, <1>5, <1>6, <1>7 DEF Bumping, Fine, Locked,
         Born, Patching, Others, On, PatchPcs, BumpPcs, WrittenPcs
    <2>12. HeadsBelow(w)'
      <3>1. CASE op[c].pc = "core"
        BY <1>1, <1>2, <1>4, <3>1 DEF HeadsBelow, Born, Unborn, Untouched, On
      <3>2. CASE op[c].pc # "core"
        <4> SUFFICES ASSUME Fine(w), NEW m \in treeMay'[w], Cored(m), NEW h \in heads[w]
                     PROVE  /\ h.rev <= m.core.rev
                            /\ h.rev = m.core.rev /\ w \notin loose => h.data = m.data
          BY <1>4 DEF HeadsBelow, Cored, Fine
        <4>1. CASE m \in treeMay[w]
          BY <1>2, <4>1 DEF HeadsBelow
        <4>2. CASE /\ m.core = op[c].core
                   /\ \E o \in treeMay[w] : o # None /\ m.data = o.data
          <5>1. /\ Exists(w) /\ metaLock[w] = c /\ cell[w] # None
                /\ op[c].core.rev = cell[w].rev \/ op[c].core.rev = cell[w].rev + 1
            BY <1>1, <1>2, <3>2 DEF Patching, Locked, Leased, Bumping, Fine, On,
               PatchPcs, UploadLeased, TreeDeletePcs, BumpPcs
          <5>2. ~Moved(w)
            BY <1>1, <1>2, <5>1 DEF Moved, Locked, On, MovedPcs, WrittenPcs
          <5>3. w \notin loose => m.data = tree[w].data
            BY <1>2, <4>2, <5>1, <5>2 DEF DataOne
          <5>4. /\ h.rev <= cell[w].rev
                /\ h.rev = cell[w].rev => h.data = tree[w].data
            BY <1>2, <5>1, <5>2 DEF HeadsCell, CellOf
          <5> QED
            BY <1>2, <4>2, <5>1, <5>3, <5>4 DEF Numbers
        <4> QED
          BY <1>6, <4>1, <4>2
      <3> QED
        BY <3>1, <3>2
    <2>13. HeadsCell(w)'
      BY <1>2, <1>1, <1>3, <1>4, <1>5, <1>6, <1>7 DEF HeadsCell, Fine,
         Exists, Moved, CellOf, Born, Unborn, Untouched, Patching, Locked,
         Leased, Others, On, PatchPcs, UploadLeased, TreeDeletePcs,
         WsDeletePcs, BumpPcs, WrittenPcs, MovedPcs
    <2>14. Training(w)'
      BY <1>2, <1>1, <1>3, <1>4, <1>5, <1>6, <1>7 DEF Training, Fine, Exists,
         Moved, Born, Unborn, Untouched, Patching, Leased, Others, On,
         PatchPcs, UploadLeased, TreeDeletePcs, WsDeletePcs, MovedPcs
    <2> QED
      BY <2>1, <2>2, <2>3, <2>4, <2>5, <2>6, <2>7, <2>8, <2>9, <2>10, <2>11,
         <2>12, <2>13, <2>14 DEF Sound
  <1> QED
    BY <1>2, <1>8, <1>9, <1>10, <1>11, <1>12, FrameStep DEF Inv


----------------------------------------------------------------------------
\* The actions, one by one.

LEMMA AtFacts ==
  ASSUME Inv, NEW c \in Clients, op[c].pc # "idle"
  PROVE  op[c].ws \in Workspaces /\ TypeOK /\ op[c].job \in Nat
  BY DEF Inv, OpsNamed, TypeOK, Requests

\* A request that ends changes no type.
LEMMA EndTypes ==
  ASSUME TypeOK, NEW c \in Clients, Finish(c)
  PROVE  /\ op' \in [Clients -> Requests] /\ ops' = ops /\ minted' = minted
         /\ regLock' \in Clients \cup {None}
         /\ metaLock' \in [Workspaces -> Clients \cup {None, Trainer}]
  <1>1. Idle \in Requests
    BY DEF Idle, Requests, Pcs
  <1> QED
    BY <1>1 DEF Finish, TypeOK

\* create_with_tags
LEMMA CreateSteps ==
  ASSUME Inv, NEW c \in Clients, CreateDir(c) \/ CreateCore(c) \/ CreateDirSync(c)
  PROVE  Inv'
  BY CreateDirStep, CreateCoreStep, CreateDirSyncStep

\* patch_workspace
LEMMA PatchSteps ==
  ASSUME Inv, NEW c \in Clients, PatchCell(c) \/ PatchCore(c)
  PROVE  Inv'
  <1>1. CASE PatchCell(c) /\ CanLoad(op[c].ws)
    BY <1>1, PatchCellStep
  <1>2. CASE PatchCell(c) /\ ~CanLoad(op[c].ws)
    <2>1. /\ op[c].pc = "patchCell" /\ phase = "up" /\ Finish(c)
          /\ UNCHANGED <<tree, treeMay, tmp, tmpDurable, cell, heads, train, trains,
                         kept, acked, deleted, doomed, raced, suspect, loose, faults,
                         crashes, phase>>
      BY <1>2 DEF PatchCell, At, diskVars, trainVars, ghostVars, bounds
    <2>2. TypeOK'
      BY <2>1, AtFacts, EndTypes DEF TypeOK
    <2> QED
      BY <2>1, <2>2, EndStep DEF On, MovedPcs
  <1>3. CASE PatchCore(c) /\ tree[op[c].ws] # None
    BY <1>3, PatchCoreStep
  <1>4. CASE PatchCore(c) /\ tree[op[c].ws] = None
    <2>1. /\ op[c].pc = "patchCore" /\ phase = "up" /\ Finish(c)
          /\ UNCHANGED <<tree, treeMay, tmp, tmpDurable, cell, heads, train, trains,
                         kept, acked, deleted, doomed, raced, suspect, loose, faults,
                         crashes, phase>>
      BY <1>4 DEF PatchCore, At, trainVars, ghostVars, bounds
    <2>2. TypeOK'
      BY <2>1, AtFacts, EndTypes DEF TypeOK
    <2> QED
      BY <2>1, <2>2, EndStep DEF On, MovedPcs
  <1> QED
    BY <1>1, <1>2, <1>3, <1>4

\* upload_asset and upload_workspace_file
LEMMA UploadSteps ==
  ASSUME Inv, NEW c \in Clients,
         \/ UploadTmp(c) \/ UploadLease(c) \/ UploadCell(c) \/ UploadCore(c)
         \/ UploadBytes(c) \/ \E reach : UploadBytesSync(c, reach)
  PROVE  Inv'
  <1>1. CASE UploadTmp(c)
    BY <1>1, UploadTmpStep
  <1>2. CASE UploadLease(c) /\ LeaseFree(op[c].ws) /\ Exists(op[c].ws)
    BY <1>2, UploadLeaseStep
  <1>3. CASE UploadLease(c) /\ ~(LeaseFree(op[c].ws) /\ Exists(op[c].ws))
    <2>1. /\ op[c].pc = "upLease" /\ phase = "up" /\ Finish(c)
          /\ UNCHANGED <<tree, treeMay, tmp, tmpDurable, cell, heads, train, trains,
                         kept, acked, deleted, doomed, raced, suspect, loose, faults,
                         crashes, phase>>
      BY <1>3 DEF UploadLease, At, diskVars, trainVars, ghostVars, bounds
    <2>2. TypeOK'
      BY <2>1, AtFacts, EndTypes DEF TypeOK
    <2> QED
      BY <2>1, <2>2, EndStep DEF On, MovedPcs
  <1>4. CASE UploadCell(c) /\ Finish(c) /\ UNCHANGED cell
    <2>1. /\ op[c].pc = "upCell" /\ phase = "up" /\ Finish(c)
          /\ UNCHANGED <<tree, treeMay, tmp, tmpDurable, cell, heads, train, trains,
                         kept, acked, deleted, doomed, raced, suspect, loose, faults,
                         crashes, phase>>
      BY <1>4 DEF UploadCell, At, diskVars, trainVars, ghostVars, bounds
    <2>2. TypeOK'
      BY <2>1, AtFacts, EndTypes DEF TypeOK
    <2> QED
      BY <2>1, <2>2, EndStep DEF On, MovedPcs
  <1>5. CASE UploadCell(c) /\ ~(Finish(c) /\ UNCHANGED cell)
    <2>1. /\ op[c].pc = "upCell" /\ phase = "up" /\ metaLock[op[c].ws] = None
          /\ metaLock' = [metaLock EXCEPT ![op[c].ws] = c] /\ Load(op[c].ws)
          /\ GotoWith(c, "upCore", Bumped(op[c].ws))
          /\ UNCHANGED <<phase, tree, treeMay, tmp, tmpDurable, regLock, heads, train,
                         trains, kept, acked, deleted, doomed, raced, suspect, loose, faults,
                         crashes>>
      BY <1>5 DEF UploadCell, At, diskVars, trainVars, ghostVars, bounds
    <2> QED
      BY <2>1, BumpStep
  <1>6. CASE UploadCore(c)
    <2>1. /\ op[c].pc = "upCore" /\ phase = "up"
          /\ PutCore(op[c].ws, op[c].core) /\ Goto(c, "upBytes")
          /\ UNCHANGED <<phase, tmp, tmpDurable, cell, regLock, metaLock, heads, train,
                         trains, kept, acked, deleted, doomed, raced, suspect, loose, faults,
                         crashes>>
      BY <1>6 DEF UploadCore, At, lockVars, trainVars, ghostVars, bounds
    <2> QED
      BY <2>1, WriteCoreStep
  <1>7. CASE UploadBytes(c)
    <2>1. /\ op[c].pc = "upBytes" /\ phase = "up"
          /\ RenameData(op[c].ws, NextData(op[c].ws)) /\ Goto(c, "upBytesSync")
          /\ UNCHANGED <<phase, cell, regLock, metaLock, heads, train, trains, kept,
                         acked, deleted, doomed, raced, suspect, loose, faults, crashes>>
          /\ UNCHANGED <<tmp, tmpDurable>>
      BY <1>7 DEF UploadBytes, At, lockVars, trainVars, ghostVars, bounds
    <2>2. tmp' \in SUBSET Entries /\ tmpDurable' \in SUBSET Entries
      BY <2>1 DEF Inv, TypeOK
    <2> QED
      BY <2>1, <2>2, MoveBytesStep
  <1>8. ASSUME NEW reach, UploadBytesSync(c, reach)
        PROVE  Inv'
    <2>1. /\ op[c].pc = "upBytesSync" /\ phase = "up"
          /\ FsyncFolder(op[c].ws, reach) /\ Acknowledge(c) /\ Finish(c)
          /\ UNCHANGED <<phase, tree, tmp, tmpDurable, heads, train, trains, faults,
                         crashes>>
      BY <1>8 DEF UploadBytesSync, At, trainVars, bounds
    <2> QED
      BY <2>1, ReceiptStep
  <1> QED
    BY <1>1, <1>2, <1>3, <1>4, <1>5, <1>6, <1>7, <1>8

\* start_async_tree_delete
LEMMA TreeDeleteSteps ==
  ASSUME Inv, NEW c \in Clients,
         \/ TreeDeleteCell(c) \/ TreeDeleteTomb(c) \/ TreeDeleteCore(c)
         \/ TreeDeleteStage(c) \/ TreeDeleteDrain(c)
         \/ \E reach : TreeDeleteSync(c, reach)
  PROVE  Inv'
  <1>1. CASE TreeDeleteCell(c)
    <2>1. /\ op[c].pc = "tdCell" /\ phase = "up" /\ metaLock[op[c].ws] = None
          /\ metaLock' = [metaLock EXCEPT ![op[c].ws] = c] /\ Load(op[c].ws)
          /\ GotoWith(c, "tdTomb", Bumped(op[c].ws))
          /\ UNCHANGED <<phase, tree, treeMay, tmp, tmpDurable, regLock, heads, train,
                         trains, kept, acked, deleted, doomed, raced, suspect, loose, faults,
                         crashes>>
      BY <1>1 DEF TreeDeleteCell, At, diskVars, trainVars, ghostVars, bounds
    <2> QED
      BY <2>1, BumpStep
  <1>2. CASE TreeDeleteTomb(c)
    BY <1>2, TreeDeleteTombStep
  <1>3. CASE TreeDeleteCore(c)
    <2>1. /\ op[c].pc = "tdCore" /\ phase = "up"
          /\ PutCore(op[c].ws, op[c].core) /\ Goto(c, "tdStage")
          /\ UNCHANGED <<phase, tmp, tmpDurable, cell, regLock, metaLock, heads, train,
                         trains, kept, acked, deleted, doomed, raced, suspect, loose, faults,
                         crashes>>
      BY <1>3 DEF TreeDeleteCore, At, lockVars, trainVars, ghostVars, bounds
    <2> QED
      BY <2>1, WriteCoreStep
  <1>4. CASE TreeDeleteStage(c)
    <2>1. /\ op[c].pc = "tdStage" /\ phase = "up" /\ MkStage(c, "tree")
          /\ RenameData(op[c].ws, NextData(op[c].ws)) /\ Goto(c, "tdSync")
          /\ UNCHANGED <<phase, cell, regLock, metaLock, heads, train, trains, kept,
                         acked, deleted, doomed, raced, suspect, loose, faults, crashes>>
      BY <1>4 DEF TreeDeleteStage, At, lockVars, trainVars, ghostVars, bounds
    <2>2. tmp' \in SUBSET Entries /\ tmpDurable' \in SUBSET Entries
      BY <2>1, AtFacts, TmpFacts
    <2> QED
      BY <2>1, <2>2, MoveBytesStep
  <1>5. ASSUME NEW reach, TreeDeleteSync(c, reach)
        PROVE  Inv'
    <2>1. /\ op[c].pc = "tdSync" /\ phase = "up"
          /\ FsyncFolder(op[c].ws, reach) /\ Acknowledge(c) /\ Goto(c, "tdDrain")
          /\ metaLock' = [metaLock EXCEPT ![op[c].ws] = None] /\ UNCHANGED regLock
          /\ UNCHANGED <<phase, tree, tmp, tmpDurable, heads, train, trains, faults,
                         crashes>>
      BY <1>5 DEF TreeDeleteSync, At, trainVars, bounds
    <2> QED
      BY <2>1, ReceiptStep
  <1>6. CASE TreeDeleteDrain(c)
    <2>1. /\ op[c].pc = "tdDrain" /\ phase = "up" /\ Finish(c) /\ Drain(c, "tree")
          /\ UNCHANGED <<tree, treeMay, cell, heads, train, trains, kept, acked,
                         deleted, doomed, raced, suspect, loose, faults, crashes, phase>>
      BY <1>6 DEF TreeDeleteDrain, At, trainVars, ghostVars, bounds
    <2>2. tmp' \in SUBSET Entries /\ tmpDurable' \in SUBSET Entries
      BY <2>1, AtFacts, TmpFacts
    <2>3. TypeOK'
      BY <2>1, <2>2, AtFacts, EndTypes DEF TypeOK
    <2> QED
      BY <2>1, <2>3, EndStep DEF On, MovedPcs
  <1> QED
    BY <1>1, <1>2, <1>3, <1>4, <1>5, <1>6

\* start_delete_workspace
LEMMA WsDeleteSteps ==
  ASSUME Inv, NEW c \in Clients,
         \/ WsDeleteTomb(c) \/ WsDeleteStage(c) \/ WsDeleteSync(c)
         \/ WsDeleteEvict(c) \/ WsDeleteDrain(c)
  PROVE  Inv'
  <1>1. CASE WsDeleteTomb(c)
    BY <1>1, WsDeleteTombStep
  <1>2. CASE WsDeleteStage(c)
    BY <1>2, WsDeleteStageStep
  <1>3. CASE WsDeleteSync(c)
    BY <1>3, WsDeleteSyncStep
  <1>4. CASE WsDeleteEvict(c)
    BY <1>4, WsDeleteEvictStep
  <1>5. CASE WsDeleteDrain(c)
    <2>1. /\ op[c].pc = "wdDrain" /\ phase = "up" /\ Finish(c) /\ Drain(c, "root")
          /\ UNCHANGED <<tree, treeMay, cell, heads, train, trains, kept, acked,
                         deleted, doomed, raced, suspect, loose, faults, crashes, phase>>
      BY <1>5 DEF WsDeleteDrain, At, trainVars, ghostVars, bounds
    <2>2. tmp' \in SUBSET Entries /\ tmpDurable' \in SUBSET Entries
      BY <2>1, AtFacts, TmpFacts
    <2>3. TypeOK'
      BY <2>1, <2>2, AtFacts, EndTypes DEF TypeOK
    <2> QED
      BY <2>1, <2>3, EndStep DEF On, MovedPcs
  <1> QED
    BY <1>1, <1>2, <1>3, <1>4, <1>5

\* An I/O error.
LEMMA FaultStep ==
  ASSUME Inv, NEW c \in Clients, Fault(c)
  PROVE  Inv'
  <1> DEFINE w == op[c].ws
  <1>1. /\ op[c].pc # "idle" /\ phase = "up" /\ Finish(c) /\ tmp' \in FaultTmp(c)
        /\ faults < MaxFaults /\ faults' = faults + 1
        /\ UNCHANGED <<phase, tmpDurable, cell, heads, train, trains, kept, acked,
                       deleted, doomed, raced, loose, crashes>>
    BY DEF Fault, FaultPcs, CreatePcs, UploadLeased, TreeDeletePcs, WsDeletePcs,
       trainVars
  <1>2. w \in Workspaces /\ TypeOK /\ op[c].job \in Nat
    BY <1>1, AtFacts
  <1>3. faults' \in 0..MaxFaults
    BY <1>1, <1>2, WorkspaceAssumption DEF TypeOK
  <1>4. tmp' \in SUBSET Entries
    <2>1. \A p \in {"tombstone", "stage"} : \A s \in {"root", "tree"} :
            Entry(p, s, w, op[c].job) \in Entries
      BY <1>2 DEF Entry, Entries
    <2> QED
      BY <1>1, <1>2, <2>1 DEF FaultTmp, TypeOK
  <1>5. suspect' = IF op[c].pc \in MovedPcs THEN suspect \cup {w} ELSE suspect
    BY DEF Fault, MovedPcs
  <1>6. CASE UNCHANGED <<tree, treeMay>>
    <2>1. TypeOK'
      BY <1>1, <1>2, <1>3, <1>4, <1>5, <1>6, EndTypes DEF TypeOK
    <2> QED
      BY <1>1, <1>2, <1>5, <1>6, <2>1, EndStep DEF On
  <1>7. CASE /\ op[c].pc \in {"core", "patchCore", "upCore", "tdCore"}
             /\ tree[w] # None /\ PutCoreNoFsync(w, op[c].core)
    <2>1. suspect' = suspect
      BY <1>5, <1>7 DEF MovedPcs
    <2> QED
      BY <1>1, <1>3, <1>4, <1>7, <2>1, FaultWriteStep
  <1> QED
    BY <1>6, <1>7 DEF Fault

\* The start of a request.
LEMMA BeginSteps ==
  ASSUME Inv, NEW c \in Clients, Begin(c)
  PROVE  Inv'
  <1>1. PICK w \in Workspaces :
          \/ \E n \in Names : CreateCheck(c, w, n) \/ PatchCheck(c, w, n)
          \/ UploadAdmit(c, w) \/ TreeDeleteAdmit(c, w) \/ WsDeleteAdmit(c, w)
          \/ GetRead(c, w)
    BY DEF Begin
  <1>2. /\ TypeOK /\ cell \in [Workspaces -> Cores \cup {None}]
        /\ regLock \in Clients \cup {None}
    BY DEF Inv, TypeOK
  <1>3. ASSUME NEW n \in Names, CreateCheck(c, w, n)
        PROVE  Inv'
    BY <1>3, CreateCheckStep
  <1>4. ASSUME NEW n \in Names, PatchCheck(c, w, n)
        PROVE  Inv'
    <2>1. Core(n, 0) \in Cores /\ Core(n, 0) # None
      BY NoneAssumption DEF Core, Cores
    <2>2. /\ Exists(w) /\ CanLoad(w) /\ Start(c, "patchCell", w, Core(n, 0), minted)
          /\ regLock' = c
      BY <1>4 DEF PatchCheck, CanLoad
    <2>3. /\ cell' = [v \in Workspaces |-> cell'[v]]
          /\ \A v \in Workspaces : cell'[v] = cell[v] \/ (Exists(v) /\ cell'[v] = CellOf(v))
      BY <1>4 DEF PatchCheck, LoadListed
    <2>4. UNCHANGED <<phase, tree, treeMay, tmp, tmpDurable, metaLock, heads, train,
                      trains, kept, acked, deleted, doomed, raced, suspect, loose, faults,
                      crashes>>
      BY <1>4 DEF PatchCheck, diskVars, trainVars, ghostVars, bounds
    <2> QED
      BY <2>1, <2>2, <2>3, <2>4, BeginStep
  <1>5. CASE UploadAdmit(c, w)
    <2>1. CanLoad(w) /\ Start(c, "upTmp", w, None, minted) /\ regLock' = regLock
      BY <1>5 DEF UploadAdmit, lockVars
    <2>2. cell' = [cell EXCEPT ![w] = CellOf(w)]
      BY <1>5 DEF UploadAdmit, Load
    <2>3. /\ cell' = [v \in Workspaces |-> cell'[v]]
          /\ \A v \in Workspaces : cell'[v] = cell[v] \/ (Exists(v) /\ cell'[v] = CellOf(v))
      BY <1>2, <2>1, <2>2 DEF CellOf, CanLoad
    <2>4. UNCHANGED <<phase, tree, treeMay, tmp, tmpDurable, metaLock, heads, train,
                      trains, kept, acked, deleted, doomed, raced, suspect, loose, faults,
                      crashes>>
      BY <1>5 DEF UploadAdmit, diskVars, lockVars, trainVars, ghostVars, bounds
    <2> QED
      BY <1>2, <2>1, <2>3, <2>4, BeginStep
  <1>6. cell' = cell => /\ cell' = [v \in Workspaces |-> cell'[v]]
                        /\ \A v \in Workspaces :
                             cell'[v] = cell[v] \/ (Exists(v) /\ cell'[v] = CellOf(v))
    BY <1>2
  <1>7. CASE TreeDeleteAdmit(c, w)
    <2>1. /\ Exists(w) /\ CanLoad(w) /\ Start(c, "tdCell", w, None, minted)
          /\ ~DeleteRunning
          /\ UNCHANGED <<phase, tree, treeMay, tmp, tmpDurable, metaLock, heads, train,
                         trains, kept, acked, deleted, doomed, raced, suspect, loose, faults,
                         crashes>>
          /\ cell' = cell /\ regLock' = regLock
      BY <1>7 DEF TreeDeleteAdmit, CanLoad, diskVars, lockVars, trainVars, ghostVars,
         bounds
    <2> QED
      BY <1>2, <1>6, <2>1, BeginStep
  <1>8. CASE WsDeleteAdmit(c, w)
    <2>1. /\ Exists(w) /\ CanLoad(w) /\ Start(c, "wdTomb", w, None, minted)
          /\ ~DeleteRunning /\ ~Running(UploadLeased, w)
          /\ UNCHANGED <<phase, tree, treeMay, tmp, tmpDurable, metaLock, heads, train,
                         trains, kept, acked, deleted, doomed, raced, suspect, loose, faults,
                         crashes>>
          /\ cell' = cell /\ regLock' = regLock
      BY <1>8 DEF WsDeleteAdmit, WsDeleteFree, CanLoad, diskVars, lockVars, trainVars,
         ghostVars, bounds
    <2> QED
      BY <1>2, <1>6, <2>1, BeginStep
  <1>9. CASE GetRead(c, w)
    <2>1. /\ Exists(w) /\ CanLoad(w) /\ Start(c, "getInsert", w, tree[w].core, minted)
          /\ UNCHANGED <<phase, tree, treeMay, tmp, tmpDurable, metaLock, heads, train,
                         trains, kept, acked, deleted, doomed, raced, suspect, loose, faults,
                         crashes>>
          /\ cell' = cell /\ regLock' = regLock
      BY <1>9 DEF GetRead, CanLoad, diskVars, lockVars, trainVars, ghostVars, bounds
    <2>2. tree[w].core \in Cores /\ tree[w].core # None
      BY <1>2, <2>1 DEF TypeOK, Dirs, Exists
    <2> QED
      BY <1>2, <1>6, <2>1, <2>2, BeginStep
  <1> QED
    BY <1>1, <1>3, <1>4, <1>5, <1>7, <1>8, <1>9

\* A training run.
LEMMA TrainSteps ==
  ASSUME Inv, Publishing, Train
  PROVE  Inv'
  <1>1. ASSUME NEW w \in Workspaces, TrainStart(w)
        PROVE  Inv'
    BY <1>1, TrainStartStep
  <1>2. CASE TrainScan
    <2>1. /\ phase = "up" /\ train.pc = "scan" /\ Mkdir(train.ws)
          /\ \/ /\ Exists(train.ws)
                /\ train' = [train EXCEPT !.pc = "publish", !.data = tree[train.ws].data]
             \/ train' = NoTrain
          /\ UNCHANGED <<phase, tmp, tmpDurable, cell, regLock, metaLock, op, ops,
                         minted, heads, trains, kept, acked, deleted, doomed, raced,
                         suspect, loose, faults, crashes>>
      BY <1>2 DEF TrainScan, lockVars, reqVars, ghostVars, bounds
    <2> QED
      BY <2>1, TrainDirStep
  <1>3. CASE TrainPublish /\ Exists(train.ws)
    BY <1>3, TrainPublishStep
  <1>4. CASE TrainPublish /\ ~Exists(train.ws)
    <2>1. /\ phase = "up" /\ train.pc = "publish" /\ train' = NoTrain
          /\ Mkdir(train.ws) \/ UNCHANGED <<tree, treeMay>>
          /\ UNCHANGED <<phase, tmp, tmpDurable, cell, regLock, metaLock, op, ops,
                         minted, heads, trains, kept, acked, deleted, doomed, raced,
                         suspect, loose, faults, crashes>>
      BY <1>4 DEF TrainPublish, reqVars, ghostVars, bounds
    <2> QED
      BY <2>1, TrainDirStep
  <1>5. CASE TrainCore /\ tree[train.ws] # None
    BY <1>5, TrainCoreStep
  <1>6. CASE TrainCore /\ tree[train.ws] = None
    <2>1. /\ phase = "up" /\ train.pc = "core" /\ train' = NoTrain
          /\ metaLock' = [metaLock EXCEPT ![train.ws] = IF @ = Trainer THEN None ELSE @]
          /\ UNCHANGED <<phase, tree, treeMay, tmp, tmpDurable, cell, regLock, op, ops,
                         minted, heads, trains, kept, acked, deleted, doomed, raced,
                         suspect, loose, faults, crashes>>
      BY <1>6 DEF TrainCore, reqVars, ghostVars, bounds
    <2> QED
      BY <2>1, TrainDirStep
  <1> QED
    BY <1>1, <1>2, <1>3, <1>4, <1>5, <1>6 DEF Train


----------------------------------------------------------------------------
\* The reaper, a power loss and the boot.

\* sweep_once touches no workspace.
LEMMA ReapStep ==
  ASSUME Inv, NEW e, Reap(e)
  PROVE  Inv'
  <1>1. /\ tmp' = tmp \ {e}
        /\ UNCHANGED <<phase, tree, treeMay, tmpDurable, cell, regLock, metaLock, op,
                       ops, minted, heads, train, trains, kept, acked, deleted, doomed,
                       raced, suspect, loose, faults, crashes>>
    BY DEF Reap, SweepEntry, lockVars, reqVars, trainVars, ghostVars, bounds
  <1>2. TypeOK'
    BY <1>1 DEF Inv, TypeOK
  <1>3. BootQuiet' /\ OpsNamed' /\ OneDelete'
    BY <1>1 DEF Inv, BootQuiet, OpsNamed, OneDelete
  <1>4. DataBounded'
    BY <1>1 DEF Inv, DataBounded, Below
  <1>5. \A v \in Workspaces : Same(v)
    BY <1>1 DEF Same
  <1> QED
    BY <1>2, <1>3, <1>4, <1>5, FrameStep DEF Inv

\* A workspace when all that was in memory is gone and the disk holds what
\* it may hold, or nothing where there was no workspace.json.
LEMMA RestartSound ==
  ASSUME TypeOK, NEW v \in Workspaces, Sound(v),
         \A c \in Clients : op'[c] = Idle,
         cell'[v] = None, metaLock'[v] = None, train' = NoTrain,
         treeMay'[v] = {tree'[v]},
         tree'[v] \in treeMay[v] \/ (tree'[v] = None /\ ~Exists(v)),
         v \in loose /\ v \notin suspect' => tree'[v] \in {tree[v], None},
         v \in suspect => v \in suspect', v \in suspect' => v \in suspect \cup loose,
         v \in loose' => v \in loose,
         UNCHANGED <<minted, heads, kept, acked, deleted, doomed, raced>>
  PROVE  Sound(v)'
  <1>1. /\ InMay(v) /\ Born(v) /\ Durable(v) /\ Gone(v) /\ HeadsBelow(v)
    BY DEF Sound
  <1>2. Numbers(v)
    BY NumberFacts
  <1>3. \A c \in Clients : op'[c].pc = "idle" /\ op'[c].ws = None
    BY DEF Idle
  <1>4. v # None /\ train'.ws = None /\ train'.pc = "idle"
        /\ \A c \in Clients : None # c
    BY WorkspaceAssumption DEF NoTrain
  <1>5. \A pcs : \A c \in Clients : ~On(c, pcs, v)'
    BY <1>3, <1>4 DEF On
  <1>6. ~Moved(v)' /\ (Fine(v)' => Fine(v))
    BY <1>5 DEF Moved, Fine
  <1>7. tree'[v] = None \/ tree'[v] \in treeMay[v]
    OBVIOUS
  <1>8. InMay(v)'
    BY DEF InMay
  <1>9. Born(v)'
    <2>1. Unborn(v)' => Unborn(v)
      BY <1>5 DEF Unborn
    <2>2. Unborn(v)' => Untouched(v)'
      BY <1>1, <1>4, <1>7, <2>1 DEF Born, Untouched
    <2> QED
      BY <1>5, <2>2 DEF Born
  <1>10. Durable(v)'
    <2>1. v \in kept /\ v \notin doomed => tree'[v] \in treeMay[v]
      BY <1>1 DEF Durable, InMay, Exists
    <2> QED
      BY <1>1, <1>5, <2>1 DEF Durable
  <1>11. Leased(v)' /\ Locked(v)'
    BY <1>4, <1>5 DEF Leased, Locked
  <1>12. Gone(v)'
    <2>1. v \notin raced /\ v \in deleted => tree'[v] = None \/ tree'[v].core = None
      BY <1>1, <1>7 DEF Gone
    <2> QED
      BY <1>5, <2>1 DEF Gone, Exists
  <1>13. Patching(v)' /\ Inserting(v)' /\ DataOne(v)' /\ Bumping(v)' /\ Training(v)'
    BY <1>4, <1>5 DEF Patching, Inserting, DataOne, Bumping, Training
  <1>14. CellBelow(v)'
    <2>1. Exists(v)' => /\ tree'[v].core \in Cores /\ tree'[v].core.rev \in Nat
                        /\ CellOf(v)' = tree'[v].core
      BY <1>2, <1>7 DEF Exists, CellOf, Numbers
    <2> QED
      BY <2>1 DEF CellBelow
  <1>15. ASSUME Fine(v)', Cored(tree'[v]), NEW h \in heads[v]
         PROVE  /\ h.rev <= tree'[v].core.rev
                /\ h.rev = tree'[v].core.rev => h.data = tree'[v].data
    <2>1. tree'[v] \in treeMay[v] /\ Fine(v)
      BY <1>6, <1>7, <1>15 DEF Cored
    <2>2. CASE v \notin loose
      BY <1>1, <1>15, <2>1, <2>2 DEF HeadsBelow
    <2>3. CASE v \in loose
      <3>1. tree'[v] = tree[v] /\ Exists(v)
        BY <1>15, <2>3 DEF Fine, Cored, Exists
      <3> QED
        BY <2>1, <3>1, OwnTree
    <2> QED
      BY <2>2, <2>3
  <1>16. HeadsBelow(v)'
    BY <1>15 DEF HeadsBelow, Cored
  <1>17. HeadsCell(v)'
    <2>1. Exists(v)' => CellOf(v)' = tree'[v].core /\ Cored(tree'[v])
      BY DEF Exists, CellOf, Cored
    <2> QED
      BY <1>15, <2>1 DEF HeadsCell
  <1> QED
    BY <1>8, <1>9, <1>10, <1>11, <1>12, <1>13, <1>14, <1>16, <1>17 DEF Sound

\* The rest of the invariant when all that was in memory is gone.
LEMMA RestartQuiet ==
  ASSUME Inv, \A c \in Clients : op'[c] = Idle, train' = NoTrain,
         \A v \in Workspaces : cell'[v] = None,
         \A v \in Workspaces : treeMay'[v] = {tree'[v]},
         \A v \in Workspaces : tree'[v] \in treeMay[v] \/ tree'[v] = None,
         UNCHANGED <<minted, heads, acked>>
  PROVE  BootQuiet' /\ OpsNamed' /\ OneDelete' /\ DataBounded'
  <1>1. /\ Idle.pc = "idle" /\ Idle.ws = None
        /\ NoTrain.pc = "idle" /\ NoTrain.ws = None /\ NoTrain.data = 0
    BY DEF Idle, NoTrain
  <1>2. BootQuiet'
    BY DEF BootQuiet
  <1>3. OpsNamed'
    BY <1>1 DEF OpsNamed, CorePcs, CreatePcs, PatchPcs, BumpPcs, WrittenPcs
  <1>4. OneDelete'
    BY <1>1 DEF OneDelete, TreeDeletePcs, WsDeletePcs
  <1>5. DataBounded'
    <2>1. PICK B \in Nat : Below(B)
      BY DEF Inv, DataBounded
    <2>2. Below(B)'
      BY <1>1, <2>1 DEF Below
    <2> QED
      BY <2>2 DEF DataBounded
  <1> QED
    BY <1>2, <1>3, <1>4, <1>5

\* A power loss at any step of any request.
LEMMA CrashStep ==
  ASSUME Inv, Crash
  PROVE  Inv'
  <1>1. /\ TypeOK /\ \A v \in Workspaces : Sound(v)
    BY DEF Inv
  <1>2. /\ \A c \in Clients : op'[c] = Idle
        /\ \A v \in Workspaces : cell'[v] = None /\ metaLock'[v] = None
        /\ \A v \in Workspaces : treeMay'[v] = {tree'[v]}
        /\ train' = NoTrain
        /\ UNCHANGED <<minted, heads, kept, acked, deleted, doomed, raced>>
        /\ loose' = {} /\ suspect' = suspect \cup {w \in loose : tree'[w] # tree[w]}
    BY DEF Crash
  <1>3. tree' \in [Workspaces -> UNION {treeMay[w] : w \in Workspaces}]
        /\ \A v \in Workspaces : tree'[v] \in treeMay[v]
    BY DEF Crash
  <1>4. TypeOK'
    <2>1. \A v \in Workspaces : tree'[v] \in Dirs \cup {None}
      BY <1>1, <1>3 DEF TypeOK
    <2>2. tree' \in [Workspaces -> Dirs \cup {None}]
      BY <1>3, <2>1
    <2>3. treeMay' \in [Workspaces -> SUBSET (Dirs \cup {None})]
      BY <2>1 DEF Crash
    <2>4. tmp' \in SUBSET Entries /\ tmpDurable' \in SUBSET Entries
      BY <1>1 DEF Crash, TypeOK
    <2>5. Idle \in Requests /\ NoTrain \in Runs
      BY DEF Idle, Requests, Pcs, NoTrain, Runs
    <2>6. /\ cell' \in [Workspaces -> Cores \cup {None}]
          /\ metaLock' \in [Workspaces -> Clients \cup {None, Trainer}]
          /\ regLock' \in Clients \cup {None}
          /\ op' \in [Clients -> Requests] /\ train' \in Runs
      BY <2>5 DEF Crash
    <2>7. /\ phase' \in {"up", "bootRoot", "bootDirs"}
          /\ crashes' \in 0..MaxCrashes
      BY <1>1, WorkspaceAssumption DEF Crash, TypeOK
    <2>8. UNCHANGED <<ops, minted, heads, trains, kept, acked, deleted, doomed,
                      raced, faults>>
      BY DEF Crash
    <2> QED
      BY <1>1, <1>2, <2>2, <2>3, <2>4, <2>6, <2>7, <2>8 DEF TypeOK
  <1>5. BootQuiet' /\ OpsNamed' /\ OneDelete' /\ DataBounded'
    BY <1>2, <1>3, RestartQuiet
  <1>6. \A v \in Workspaces : Sound(v)'
    BY <1>1, <1>2, <1>3, RestartSound
  <1> QED
    BY <1>4, <1>5, <1>6 DEF Inv

\* recover_root_staging
LEMMA BootRootStep ==
  ASSUME Inv, NEW fails \in SUBSET tmp, BootRoot(fails)
  PROVE  Inv'
  <1>1. /\ phase = "bootRoot" /\ phase' = "bootDirs"
        /\ UNCHANGED <<tree, treeMay, cell, regLock, metaLock, op, ops, minted, heads,
                       train, trains, kept, acked, deleted, doomed, raced, suspect, loose,
                       crashes>>
    BY DEF BootRoot, lockVars, reqVars, trainVars, ghostVars
  <1>2. tmp' \in SUBSET Entries /\ tmpDurable' \in SUBSET Entries
    BY DEF BootRoot, Inv, TypeOK
  <1>3. faults' \in 0..MaxFaults
    BY WorkspaceAssumption DEF BootRoot, Left, Inv, TypeOK
  <1>4. TypeOK'
    BY <1>1, <1>2, <1>3 DEF Inv, TypeOK
  <1>5. BootQuiet' /\ OpsNamed' /\ OneDelete'
    BY <1>1 DEF Inv, BootQuiet, OpsNamed, OneDelete
  <1>6. DataBounded'
    BY <1>1 DEF Inv, DataBounded, Below
  <1>7. \A v \in Workspaces : Same(v)
    BY <1>1 DEF Same
  <1> QED
    BY <1>4, <1>5, <1>6, <1>7, FrameStep DEF Inv

\* recover_workspaces
LEMMA BootDirsStep ==
  ASSUME Inv, Publishing, NEW fails, BootDirs(fails)
  PROVE  Inv'
  <1>1. /\ TypeOK /\ \A v \in Workspaces : Sound(v)
    BY DEF Inv
  <1>2. /\ phase = "bootDirs" /\ phase' = "up"
        /\ UNCHANGED <<cell, regLock, metaLock, op, ops, minted, heads, train, trains,
                       kept, acked, deleted, doomed, raced, suspect, loose, crashes>>
    BY DEF BootDirs, lockVars, reqVars, trainVars, ghostVars
  <1>3. /\ \A c \in Clients : op[c] = Idle
        /\ train = NoTrain /\ \A v \in Workspaces : cell[v] = None
    BY <1>2 DEF Inv, BootQuiet
  <1>4. \A v \in Workspaces : metaLock[v] = None
    <2>1. \A v \in Workspaces : metaLock[v] \in Clients => FALSE
      BY <1>1, <1>3, WorkspaceAssumption DEF Sound, Locked, Idle
    <2>2. \A v \in Workspaces : metaLock[v] # Trainer
      BY <1>3 DEF Publishing, NoTrain
    <2> QED
      BY <1>1, <2>1, <2>2 DEF TypeOK
  <1>5. \A v \in Workspaces : /\ treeMay'[v] = {tree'[v]}
                              /\ tree'[v] = tree[v] \/ (tree'[v] = None /\ ~Exists(v))
    BY DEF BootDirs
  <1>6. \A v \in Workspaces :
          /\ tree'[v] \in treeMay[v] \/ (tree'[v] = None /\ ~Exists(v))
          /\ tree'[v] \in {tree[v], None}
    BY <1>1, <1>5 DEF Sound, InMay
  <1>7. TypeOK'
    <2>1. \A v \in Workspaces : tree'[v] \in Dirs \cup {None}
      BY <1>1, <1>5 DEF TypeOK
    <2>2. /\ tree' \in [Workspaces -> Dirs \cup {None}]
          /\ treeMay' \in [Workspaces -> SUBSET (Dirs \cup {None})]
      BY <2>1 DEF BootDirs
    <2>3. tmp' \in SUBSET Entries /\ tmpDurable' \in SUBSET Entries
      BY <1>1 DEF BootDirs, TypeOK
    <2>4. faults' \in 0..MaxFaults
      BY <1>1, WorkspaceAssumption DEF BootDirs, Left, TypeOK
    <2> QED
      BY <1>1, <1>2, <2>2, <2>3, <2>4 DEF TypeOK
  <1>8. BootQuiet' /\ OpsNamed' /\ OneDelete' /\ DataBounded'
    BY <1>2, <1>3, <1>5, <1>6, RestartQuiet
  <1>9. \A v \in Workspaces : Sound(v)'
    BY <1>1, <1>2, <1>3, <1>4, <1>5, <1>6, RestartSound
  <1> QED
    BY <1>7, <1>8, <1>9 DEF Inv

----------------------------------------------------------------------------
\* The invariant.

LEMMA InitInv == Init => Inv /\ Publishing
  <1> SUFFICES ASSUME Init PROVE Inv /\ Publishing
    OBVIOUS
  <1> DEFINE FirstDir == [core |-> Core(FirstName, 0), data |-> 0]
  <1>1. /\ Idle \in Requests /\ Idle.pc = "idle" /\ Idle.ws = None
        /\ NoTrain \in Runs /\ NoTrain.pc = "idle" /\ NoTrain.ws = None
        /\ NoTrain.data = 0
    BY DEF Idle, Requests, Pcs, NoTrain, Runs
  <1>2. /\ FirstDir \in Dirs /\ FirstDir # None /\ FirstDir.core # None
        /\ FirstDir.core.rev = 0 /\ FirstDir.data = 0
    BY WorkspaceAssumption, NoneAssumption DEF Core, Cores, Dirs
  <1>3. \A w \in Workspaces : /\ tree[w] = IF w = First THEN FirstDir ELSE None
                              /\ treeMay[w] = {tree[w]}
    BY DEF Init
  <1> HIDE DEF FirstDir
  <1>4. TypeOK
    <2>1. /\ tree \in [Workspaces -> Dirs \cup {None}]
          /\ treeMay \in [Workspaces -> SUBSET (Dirs \cup {None})]
      BY <1>2, <1>3 DEF Init
    <2> QED
      BY <1>1, <2>1, WorkspaceAssumption DEF Init, TypeOK
  <1>5. BootQuiet /\ OpsNamed /\ OneDelete
    BY <1>1 DEF Init, BootQuiet, OpsNamed, OneDelete, CorePcs, CreatePcs, PatchPcs,
       BumpPcs, WrittenPcs, TreeDeletePcs, WsDeletePcs
  <1>6. DataBounded
    <2>1. Below(0)
      BY <1>1, <1>2, <1>3 DEF Init, Below
    <2> QED
      BY <2>1 DEF DataBounded
  <1>7. ASSUME NEW v \in Workspaces
        PROVE  Sound(v)
    <2>1. \A pcs : \A c \in Clients : ~On(c, pcs, v)
      BY <1>1, WorkspaceAssumption DEF Init, On
    <2>2. Unborn(v) => v # First
      BY <2>1 DEF Init, Unborn
    <2>3. Born(v)
      BY <1>1, <1>3, <2>1, <2>2, WorkspaceAssumption DEF Init, Born, Untouched
    <2>4. InMay(v) /\ Durable(v)
      BY <1>2, <1>3, <2>1 DEF Init, InMay, Durable
    <2>5. Leased(v) /\ Locked(v) /\ Gone(v)
      BY <1>1, <2>1, WorkspaceAssumption DEF Init, Leased, Locked, Gone
    <2>6. /\ Patching(v) /\ Inserting(v) /\ DataOne(v) /\ Bumping(v) /\ Training(v)
          /\ HeadsBelow(v) /\ HeadsCell(v)
      BY <1>1, <1>3, <2>1 DEF Init, Patching, Inserting, DataOne, Bumping, Training,
         HeadsBelow, HeadsCell
    <2>7. CellBelow(v)
      BY <1>2, <1>3 DEF Init, CellBelow, CellOf, Exists
    <2> QED
      BY <2>3, <2>4, <2>5, <2>6, <2>7 DEF Sound
  <1>8. Publishing
    BY <1>1, WorkspaceAssumption DEF Init, Publishing
  <1> QED
    BY <1>4, <1>5, <1>6, <1>7, <1>8 DEF Inv

\* Every step keeps the invariant.
LEMMA NextInv == Inv /\ Publishing /\ [Next]_vars => Inv'
  <1> SUFFICES ASSUME Inv, Publishing, [Next]_vars PROVE Inv'
    OBVIOUS
  <1>1. ASSUME NEW c \in Clients, Continue(c)
        PROVE  Inv'
    BY <1>1, CreateSteps, PatchSteps, UploadSteps, TreeDeleteSteps, WsDeleteSteps,
       GetInsertStep DEF Continue
  <1>2. CASE (\E c \in Clients : op[c] = Idle) /\ Begin(FreeClient)
    <2>1. FreeClient \in Clients
      BY <1>2 DEF FreeClient
    <2> QED
      BY <1>2, <2>1, BeginSteps
  <1>3. CASE Boot
    BY <1>3, BootRootStep, BootDirsStep DEF Boot
  <1>4. CASE UNCHANGED vars
    <2>1. UNCHANGED <<phase, tree, treeMay, tmp, tmpDurable, cell, regLock, metaLock,
                      op, ops, minted, heads, train, trains, kept, acked, deleted,
                      doomed, raced, suspect, loose, faults, crashes>>
      BY <1>4 DEF vars, diskVars, lockVars, reqVars, trainVars, ghostVars, bounds
    <2>2. TypeOK'
      BY <2>1 DEF Inv, TypeOK
    <2>3. BootQuiet' /\ OpsNamed' /\ OneDelete'
      BY <2>1 DEF Inv, BootQuiet, OpsNamed, OneDelete
    <2>4. DataBounded'
      BY <2>1 DEF Inv, DataBounded, Below
    <2>5. \A v \in Workspaces : Same(v)
      BY <2>1 DEF Same
    <2> QED
      BY <2>2, <2>3, <2>4, <2>5, FrameStep DEF Inv
  <1> QED
    BY <1>1, <1>2, <1>3, <1>4, FaultStep, TrainSteps, CrashStep, ReapStep DEF Next

\* What a step of anyone else may not do to the head publish.
Spares ==
    /\ train' = train
    /\ \A v \in Workspaces : metaLock'[v] = Trainer => metaLock[v] = Trainer
    /\ \A v \in Workspaces : train.pc = "core" /\ train.ws = v /\ v \notin raced' =>
         /\ v \notin raced
         /\ metaLock[v] = Trainer => metaLock'[v] = Trainer
         /\ Exists(v) => tree'[v] # None /\ tree'[v].core = tree[v].core

LEMMA PublishingKept ==
  ASSUME Inv, Publishing, Spares
  PROVE  Publishing'
  <1>1. train.pc = "core" => train.ws \in Workspaces
    BY DEF Inv, OpsNamed
  <1>2. \A w \in Workspaces : metaLock'[w] = Trainer =>
          train'.pc = "core" /\ train'.ws = w
    BY DEF Publishing, Spares
  <1>3. ASSUME train.pc = "core" PROVE train'.core # None
    BY <1>3 DEF Publishing, Spares
  <1>4. ASSUME train.pc = "core", train.ws \notin raced'
        PROVE  /\ metaLock'[train.ws] = Trainer /\ Exists(train.ws)'
               /\ train'.core = tree'[train.ws].core
    BY <1>1, <1>4 DEF Publishing, Spares, Exists
  <1> QED
    BY <1>2, <1>3, <1>4 DEF Publishing, Spares, Exists

\* A request that ends gives back its own locks only.
LEMMA FinishSpares ==
  ASSUME NEW c \in Clients, Finish(c)
  PROVE  \A v \in Workspaces : metaLock'[v] = Trainer <=> metaLock[v] = Trainer
  BY WorkspaceAssumption DEF Finish

\* Whoever writes workspace.json or frees the lock owns the lock, or is the
\* create that nobody knows of yet, or the delete that the publish raced.
LEMMA LockApart ==
  ASSUME Inv, Publishing, NEW c \in Clients, NEW w \in Workspaces, op[c].ws = w,
         train.pc = "core", train.ws = w, w \notin raced
  PROVE  op[c].pc \notin BumpPcs \cup WrittenPcs
                          \cup {"patchCore", "mkdir", "core", "wdEvict"}
  <1>1. Born(w) /\ Locked(w) /\ Patching(w) /\ Gone(w)
    BY DEF Inv, Sound
  <1>2. metaLock[w] = Trainer /\ metaLock[w] # c /\ Exists(w)
    BY WorkspaceAssumption DEF Publishing
  <1>3. ~On(c, BumpPcs \cup WrittenPcs, w) /\ ~On(c, {"patchCore"}, w)
    BY <1>1, <1>2 DEF Locked, Patching
  <1>4. ~On(c, {"mkdir", "core"}, w)
    BY <1>1 DEF Born, Unborn, Untouched
  <1>5. ~On(c, {"wdEvict"}, w)
    BY <1>1, <1>2 DEF Gone, On
  <1> QED
    BY <1>3, <1>4, <1>5 DEF On

\* The steps that leave workspace.json alone.
LEMMA QuietSpares ==
  ASSUME Inv, NEW c \in Clients,
         \/ CreateDirSync(c) \/ UploadLease(c) \/ GetInsert(c)
         \/ TreeDeleteTomb(c) \/ TreeDeleteDrain(c)
         \/ WsDeleteTomb(c) \/ WsDeleteSync(c) \/ WsDeleteDrain(c)
         \/ PatchCell(c) \/ UploadCell(c) \/ TreeDeleteCell(c)
         \/ \E reach : UploadBytesSync(c, reach)
  PROVE  Spares
  <1>1. UNCHANGED <<train, tree, raced>>
    BY DEF CreateDirSync, UploadLease, GetInsert, TreeDeleteTomb, TreeDeleteDrain,
       WsDeleteTomb, WsDeleteSync, WsDeleteDrain, PatchCell, UploadCell,
       TreeDeleteCell, UploadBytesSync, Acknowledge, trainVars, ghostVars, diskVars
  <1>2. \A v \in Workspaces : metaLock'[v] = Trainer <=> metaLock[v] = Trainer
    <2>1. CASE Finish(c)
      BY <2>1, FinishSpares
    <2>2. CASE UNCHANGED metaLock
      BY <2>2
    <2>3. CASE metaLock[op[c].ws] = None /\ metaLock' = [metaLock EXCEPT ![op[c].ws] = c]
      BY <2>3, WorkspaceAssumption DEF Inv, TypeOK
    <2> QED
      BY <2>1, <2>2, <2>3 DEF CreateDirSync, UploadLease, GetInsert, TreeDeleteTomb,
         TreeDeleteDrain, WsDeleteTomb, WsDeleteSync, WsDeleteDrain, PatchCell,
         UploadCell, TreeDeleteCell, UploadBytesSync, lockVars
  <1> QED
    BY <1>1, <1>2 DEF Spares, Exists

\* The steps that write workspace.json.
LEMMA WriteSpares ==
  ASSUME Inv, Publishing, NEW c \in Clients, NEW w \in Workspaces, op[c].ws = w,
         op[c].pc \in BumpPcs \cup {"patchCore", "core"},
         \/ PutCore(w, op[c].core) \/ PutCoreNoFsync(w, op[c].core)
         \/ UNCHANGED <<tree, treeMay>>,
         Finish(c) \/ UNCHANGED metaLock,
         UNCHANGED <<train, raced>>
  PROVE  Spares
  <1>1. \A v \in Workspaces : metaLock'[v] = Trainer <=> metaLock[v] = Trainer
    BY FinishSpares
  <1>2. \A v \in Workspaces \ {w} : tree'[v] = tree[v]
    BY DEF PutCore, PutCoreNoFsync, Inv, TypeOK
  <1>3. train.pc = "core" /\ w \notin raced => train.ws # w
    BY LockApart
  <1> QED
    BY <1>1, <1>2, <1>3 DEF Spares, Exists

\* The steps that create or change what lies beside workspace.json.
LEMMA BesideSpares ==
  ASSUME Inv, NEW c \in Clients, NEW w \in Workspaces, op[c].ws = w,
         Mkdir(w) \/ (tree[w] # None /\ \E n \in Nat : RenameData(w, n)),
         Finish(c) \/ UNCHANGED metaLock,
         UNCHANGED <<train, raced>>
  PROVE  Spares
  <1>1. \A v \in Workspaces : metaLock'[v] = Trainer <=> metaLock[v] = Trainer
    BY FinishSpares
  <1>2. TypeOK /\ InMay(w)
    BY DEF Inv, Sound
  <1>3. \A v \in Workspaces : Exists(v) => tree'[v] # None /\ tree'[v].core = tree[v].core
    <2>1. CASE Mkdir(w)
      BY <1>2, <2>1, MkdirFacts DEF Exists
    <2>2. CASE tree[w] # None /\ \E n \in Nat : RenameData(w, n)
      BY <1>2, <2>2, RenameDataFacts DEF Exists
    <2> QED
      BY <2>1, <2>2
  <1> QED
    BY <1>1, <1>3 DEF Spares

\* A step of a request.
LEMMA RequestSpares ==
  ASSUME Inv, Publishing, NEW c \in Clients, Continue(c) \/ Fault(c)
  PROVE  Spares
  <1> DEFINE w == op[c].ws
  <1>1. op[c].pc # "idle"
    BY DEF Continue, Fault, FaultPcs, CreatePcs, UploadLeased, TreeDeletePcs,
       WsDeletePcs, At, CreateDir, CreateCore, CreateDirSync, PatchCell, PatchCore,
       UploadTmp, UploadLease, UploadCell, UploadCore, UploadBytes, UploadBytesSync,
       TreeDeleteCell, TreeDeleteTomb, TreeDeleteCore, TreeDeleteStage,
       TreeDeleteSync, TreeDeleteDrain, WsDeleteTomb, WsDeleteStage, WsDeleteSync,
       WsDeleteEvict, WsDeleteDrain, GetInsert
  <1>2. w \in Workspaces /\ TypeOK /\ Sound(w)
    BY <1>1, AtFacts DEF Inv
  <1>3. CASE \/ CreateDir(c) \/ UploadTmp(c)
    <2>1. /\ Mkdir(w) /\ UNCHANGED <<train, raced>>
          /\ Finish(c) \/ UNCHANGED metaLock
      BY <1>3 DEF CreateDir, UploadTmp, trainVars, ghostVars, lockVars
    <2> QED
      BY <1>2, <2>1, BesideSpares
  <1>4. CASE CreateCore(c) \/ PatchCore(c) \/ UploadCore(c) \/ TreeDeleteCore(c)
    <2>1. /\ op[c].pc \in BumpPcs \cup {"patchCore", "core"}
          /\ PutCore(w, op[c].core) \/ UNCHANGED <<tree, treeMay>>
          /\ Finish(c) \/ UNCHANGED metaLock
          /\ UNCHANGED <<train, raced>>
      BY <1>4 DEF CreateCore, PatchCore, UploadCore, TreeDeleteCore, At, BumpPcs,
         trainVars, ghostVars, lockVars
    <2> QED
      BY <1>2, <2>1, WriteSpares
  <1>5. CASE UploadBytes(c) \/ TreeDeleteStage(c)
    <2>1. /\ op[c].pc \in {"upBytes", "tdStage"} /\ RenameData(w, NextData(w))
          /\ UNCHANGED <<train, raced, metaLock>>
      BY <1>5 DEF UploadBytes, TreeDeleteStage, At, trainVars, ghostVars, lockVars
    <2>2. tree[w] # None
      BY <1>2, <2>1 DEF Sound, Leased, Exists, On, UploadLeased, TreeDeletePcs
    <2>3. PICK B \in Nat : Below(B)
      BY DEF Inv, DataBounded
    <2>4. NextData(w) \in Nat
      BY <1>2, <2>3, NextDataFacts
    <2> QED
      BY <1>2, <2>1, <2>2, <2>4, BesideSpares
  <1>6. CASE WsDeleteStage(c)
    <2>1. /\ UNCHANGED <<train, metaLock>>
          /\ \A v \in Workspaces \ {w} : tree'[v] = tree[v]
          /\ raced \subseteq raced'
          /\ train.pc = "core" /\ train.ws = w => w \in raced'
      BY <1>2, <1>6 DEF WsDeleteStage, trainVars, lockVars, TypeOK
    <2> QED
      BY <1>2, <2>1 DEF Spares, Exists
  <1>7. CASE \/ WsDeleteEvict(c) \/ \E reach : TreeDeleteSync(c, reach)
    <2>1. /\ op[c].pc \in {"wdEvict", "tdSync"}
          /\ metaLock' = [metaLock EXCEPT ![w] = None]
          /\ UNCHANGED <<train, tree, raced>>
      BY <1>7 DEF WsDeleteEvict, TreeDeleteSync, At, diskVars, trainVars, ghostVars,
         Acknowledge
    <2>2. train.pc = "core" /\ w \notin raced => train.ws # w
      BY <1>2, <2>1, LockApart DEF WrittenPcs
    <2> QED
      BY <1>2, <2>1, <2>2, WorkspaceAssumption DEF Spares, Exists, TypeOK
  <1>8. CASE Fault(c)
    <2>1. /\ Finish(c) /\ UNCHANGED <<train, raced>>
          /\ \/ UNCHANGED <<tree, treeMay>>
             \/ /\ op[c].pc \in {"core", "patchCore", "upCore", "tdCore"}
                /\ PutCoreNoFsync(w, op[c].core)
      BY <1>8 DEF Fault, trainVars
    <2>2. CASE UNCHANGED <<tree, treeMay>>
      BY <2>1, <2>2, FinishSpares DEF Spares, Exists
    <2>3. CASE /\ op[c].pc \in {"core", "patchCore", "upCore", "tdCore"}
               /\ PutCoreNoFsync(w, op[c].core)
      BY <1>2, <2>1, <2>3, WriteSpares DEF BumpPcs
    <2> QED
      BY <2>1, <2>2, <2>3
  <1> QED
    BY <1>3, <1>4, <1>5, <1>6, <1>7, <1>8, QuietSpares DEF Continue

\* Every step keeps what the head publish holds.
LEMMA PublishingNext == Inv /\ Publishing /\ [Next]_vars => Publishing'
  <1> SUFFICES ASSUME Inv, Publishing, [Next]_vars PROVE Publishing'
    OBVIOUS
  <1>1. ASSUME NEW c \in Clients, Continue(c) \/ Fault(c)
        PROVE  Publishing'
    BY <1>1, RequestSpares, PublishingKept
  <1>2. CASE \/ Begin(FreeClient) \/ \E e \in tmp : Reap(e)
             \/ \E fails : BootRoot(fails) \/ UNCHANGED vars
    <2>1. UNCHANGED <<train, metaLock, tree, raced>>
      BY <1>2 DEF Begin, CreateCheck, PatchCheck, UploadAdmit, TreeDeleteAdmit,
         WsDeleteAdmit, GetRead, Reap, BootRoot, vars, diskVars, lockVars, trainVars,
         ghostVars
    <2>2. Spares
      BY <2>1 DEF Spares, Exists
    <2> QED
      BY <2>2, PublishingKept
  <1>3. CASE \E fails : BootDirs(fails)
    <2>1. UNCHANGED <<train, metaLock, raced>> /\ train.pc # "core"
      BY <1>3 DEF BootDirs, lockVars, trainVars, ghostVars, Inv, BootQuiet, NoTrain
    <2> QED
      BY <2>1 DEF Publishing
  <1>4. CASE Crash
    <2>1. train'.pc # "core" /\ \A v \in Workspaces : metaLock'[v] # Trainer
      BY <1>4, WorkspaceAssumption DEF Crash, NoTrain
    <2> QED
      BY <2>1 DEF Publishing
  <1>5. ASSUME NEW w \in Workspaces, TrainStart(w)
        PROVE  Publishing'
    <2>1. UNCHANGED metaLock /\ train.pc = "idle" /\ train'.pc = "scan"
      BY <1>5 DEF TrainStart, lockVars
    <2> QED
      BY <2>1 DEF Publishing
  <1>6. CASE TrainScan
    <2>1. UNCHANGED metaLock /\ train.pc = "scan" /\ train'.pc # "core"
      BY <1>6 DEF TrainScan, lockVars, NoTrain, Inv, TypeOK, Runs
    <2> QED
      BY <2>1 DEF Publishing
  <1>7. CASE TrainPublish
    <2> DEFINE w == train.ws
    <2>1. w \in Workspaces /\ train.pc = "publish" /\ TypeOK
      BY <1>7 DEF TrainPublish, Inv, OpsNamed
    <2>2. CASE Exists(w)
      <3>1. /\ metaLock' = [metaLock EXCEPT ![w] = Trainer]
            /\ train' = [train EXCEPT !.pc = "core", !.core = tree[w].core]
            /\ UNCHANGED <<tree, raced>>
        BY <1>7, <2>2 DEF TrainPublish, ghostVars
      <3>2. train'.pc = "core" /\ train'.ws = w /\ train'.core = tree[w].core
        BY <2>1, <3>1 DEF TypeOK, Runs
      <3>3. metaLock'[w] = Trainer /\ \A v \in Workspaces \ {w} : metaLock'[v] # Trainer
        BY <2>1, <3>1 DEF Publishing, TypeOK
      <3> QED
        BY <2>1, <2>2, <3>1, <3>2, <3>3 DEF Publishing, Exists
    <2>3. CASE ~Exists(w)
      <3>1. UNCHANGED metaLock /\ train'.pc # "core"
        BY <1>7, <2>3 DEF TrainPublish, NoTrain
      <3> QED
        BY <2>1, <3>1 DEF Publishing
    <2> QED
      BY <2>2, <2>3
  <1>8. CASE TrainCore
    <2>1. /\ train'.pc # "core" /\ train.ws \in Workspaces /\ TypeOK
          /\ metaLock' = [metaLock EXCEPT ![train.ws] = IF @ = Trainer THEN None ELSE @]
      BY <1>8 DEF TrainCore, NoTrain, Inv, OpsNamed
    <2>2. \A v \in Workspaces : metaLock'[v] # Trainer
      BY <2>1, WorkspaceAssumption DEF Publishing, TypeOK
    <2> QED
      BY <2>1, <2>2 DEF Publishing
  <1> QED
    BY <1>1, <1>2, <1>3, <1>4, <1>5, <1>6, <1>7, <1>8 DEF Next, Boot, Train

\* The invariant holds in every reachable state.
LEMMA Invariance == Spec => []Inv
  <1>1. Inv /\ Publishing /\ [Next]_vars => (Inv /\ Publishing)'
    BY NextInv, PublishingNext
  <1> QED
    BY <1>1, InitInv, PTL DEF Spec

\* Every step of every request, fault, power loss and boot keeps the type
\* of the workspaces' state.
THEOREM TypeCorrect == Spec => []TypeOK
  <1>1. Inv => TypeOK
    BY DEF Inv
  <1> QED
    BY <1>1, Invariance, PTL

\* An answered create survives a power loss at any later step, with any
\* requests running beside it, and so does an answered upload or dataset
\* delete in a folder whose own entry is on disk (create_with_tags,
\* upload_workspace_file, start_async_tree_delete).
THEOREM AcknowledgedIsDurable == Spec => []AckedDurable
  <1>1. Inv => AckedDurable
    <2> SUFFICES ASSUME Inv PROVE AckedDurable
      OBVIOUS
    <2>1. \A w \in kept : w \in Workspaces /\ Durable(w)
      BY DEF Inv, TypeOK, Sound
    <2> QED
      BY <2>1 DEF AckedDurable, Durable
  <1> QED
    BY <1>1, Invariance, PTL

\* After an answered workspace delete, neither an upload, a training run, a
\* lookup nor a power loss brings workspace.json back
\* (start_delete_workspace), unless a PATCH had checked, or a head publish
\* had read workspace.json, before the move.
THEOREM DeletedIsGone == Spec => []DeletedStaysDeleted
  <1>1. Inv => DeletedStaysDeleted
    <2> SUFFICES ASSUME Inv PROVE DeletedStaysDeleted
      OBVIOUS
    <2>1. \A w \in deleted : w \in Workspaces /\ Gone(w) /\ InMay(w)
      BY DEF Inv, TypeOK, Sound
    <2> QED
      BY <2>1 DEF DeletedStaysDeleted, Gone, InMay
  <1> QED
    BY <1>1, Invariance, PTL

\* A head the routes report current was trained on the dataset on disk,
\* whatever uploads, deletes, training runs and power losses came between,
\* but for the four cases CurrentHeadMatchesData names
\* (HeadStatus::from_revisions, upload_workspace_file, start_training).
THEOREM CurrentHeadIsRight == Spec => []CurrentHeadMatchesData
  <1>1. Inv => CurrentHeadMatchesData
    <2> SUFFICES ASSUME Inv, NEW w \in Workspaces \ (suspect \cup raced),
                        Exists(w), metaLock[w] = None, NEW h \in heads[w],
                        h.rev = CellOf(w).rev
                 PROVE  h.data = tree[w].data
      BY DEF CurrentHeadMatchesData
    <2>1. HeadsCell(w) /\ Locked(w) /\ Fine(w)
      BY DEF Inv, Sound, Fine
    <2>2. ~Moved(w)
      BY <2>1, WorkspaceAssumption DEF Moved, Locked, On, MovedPcs, WrittenPcs
    <2> QED
      BY <2>1, <2>2 DEF HeadsCell
  <1> QED
    BY <1>1, Invariance, PTL

=============================================================================
