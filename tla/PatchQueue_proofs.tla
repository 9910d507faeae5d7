------------------------- MODULE PatchQueue_proofs -------------------------
(***************************************************************************)
(* The invariant of the patch queue, as MCWorkspace instances it, for any    *)
(* patches, queue and bounds.  A renumbered directory is the one it started  *)
(* from with its files under other names (Lay, Where); what a command has    *)
(* done so far follows from its phase (Phase), and what an undo still has to *)
(* do leads back (RunsTo, Ending).  What follows from it in the run's        *)
(* specification is at the end of Workspace_proofs.                          *)
(***************************************************************************)
EXTENDS MCWorkspace, TLAPS, FiniteSetTheorems, SequenceTheorems

(* A set of numbers has a least one.                                         *)
LEMMA Least ==
    ASSUME NEW T, T \subseteq Nat, T # {}
    PROVE  \E j \in T : \A m \in T : j <= m
<1>1. IsWellFoundedOn(OpToRel(<, Nat), Nat)
  BY NatLessThanWellFounded
<1>2. PICK j \in T : \A m \in T : ~(<<m, j>> \in OpToRel(<, Nat))
  BY <1>1, WFMin
<1>3. \A m \in T : ~(m < j)
  BY <1>2 DEF OpToRel
<1> QED BY <1>3, SMT

(* What a directory of patches is, and the plans and steps of a command.    *)
Disks == UNION {[X -> Queue!Body] : X \in SUBSET Queue!FileName}
QueueMoves == [from : Queue!FileName, to : Queue!FileName]
Steps ==
    [do : {"rename"}, from : Queue!FileName, to : Queue!FileName]
        \cup [do : {"put"}, name : Queue!FileName, body : Queue!Body]
        \cup [do : {"remove"}, name : Queue!FileName] \cup [do : {"inverse", "save"}]
Plans ==
    [kind : {"none", "export", "place", "renumber", "inverse", "update", "delete"},
     name : Queue!FileName, body : Queue!Body \cup {Queue!NoBody}, moves : Seq(QueueMoves), drop : SUBSET Queue!FileName,
     committed : BOOLEAN]

(* Where each kind of command can be.                                       *)
KindAt ==
    /\ qpc = "idle" => cmd.drop = {}
    /\ qpc \in {"rename", "save"} => cmd.kind \in {"renumber", "place", "inverse"}
         /\ cmd.moves # <<>>
    /\ qpc \in {"write", "row"} => cmd.kind \in {"export", "place", "update"}
    /\ cmd.kind \in {"export", "place", "update"} => cmd.body \in Queue!Body
    /\ cmd.drop # {} => cmd.kind = "export"
    /\ cmd.committed => cmd.kind \in {"place", "inverse"}
    /\ qpc = "drop" => cmd.kind = "export"
    /\ qpc \in {"unrow", "unlink"} => cmd.kind = "delete"
    /\ qpc = "rename" => at <= 2 * Queue!Half
    /\ qpc = "save" => at = 2 * Queue!Half + 1

(* The types that every step keeps, TypeOK among them.                      *)
QueueTypes ==
    /\ disk \in Disks /\ IsFiniteSet(DOMAIN disk) /\ rows \in SUBSET Queue!Row
    /\ qpc \in {"idle", "rename", "save", "write", "row", "drop", "unrow", "unlink", "undo"}
    /\ cmd \in Plans /\ undo \in Seq(Steps) /\ at \in 1 .. 2 * Queue!Half + 1
    /\ before.disk \in Disks /\ before.rows \in SUBSET Queue!Row
    /\ IsFiniteSet(cmd.drop) /\ cmd.drop \subseteq DOMAIN before.disk
    /\ outcome \in {"none", "running", "done", "failed", "crashed", "repaired"}
    /\ spoiled \in BOOLEAN
    /\ qcommands \in 0 .. MaxCommands /\ qfaults \in 0 .. MaxFaults /\ crashes \in 0 .. MaxCrashes
    /\ cmd.committed => cmd.moves # <<>>
    /\ \A k \in DOMAIN undo : undo[k].do = "inverse" => cmd.committed
    /\ KindAt

(* A directory, and what makes a function one.                              *)
LEMMA DiskType ==
    ASSUME NEW x
    PROVE  x \in Disks <=> /\ x = [m \in DOMAIN x |-> x[m]]
                           /\ DOMAIN x \subseteq Queue!FileName
                                /\ \A m \in DOMAIN x : x[m] \in Queue!Body
BY DEF Disks

(* They are TypeOK and more.                                                *)
LEMMA TypesSuffice == QueueTypes /\ QueueBounds => Queue!TypeOK
<1> SUFFICES ASSUME QueueTypes, QueueBounds PROVE Queue!TypeOK
  OBVIOUS
<1>1. DOMAIN disk \subseteq Queue!FileName /\ Queue!Range(disk) \subseteq Queue!Body
  BY DiskType DEF QueueTypes, Queue!Range
<1>2. qcommands <= MaxCommands /\ qfaults <= MaxFaults /\ crashes <= MaxCrashes
  BY DEF QueueTypes, QueueBounds
<1> QED BY <1>1, <1>2 DEF QueueTypes, Queue!TypeOK, Plans

(* What the file operations do to a directory.                              *)
LEMMA PutType ==
    ASSUME NEW x \in Disks, NEW m \in Queue!FileName, NEW b \in Queue!Body
    PROVE  Queue!Put(x, m, b) \in Disks
<1> DEFINE y == Queue!Put(x, m, b)
<1>1. y = [l \in DOMAIN y |-> y[l]] /\ DOMAIN y \subseteq Queue!FileName
        /\ \A l \in DOMAIN y : y[l] \in Queue!Body
  BY DiskType DEF Queue!Put
<1> HIDE DEF y
<1>2. y \in Disks
  BY <1>1, DiskType
<1> QED BY <1>2 DEF y

(* ... a file removed, ...                                                  *)
LEMMA WithoutType ==
    ASSUME NEW x \in Disks, NEW m
    PROVE  Queue!Without(x, m) \in Disks
<1> DEFINE y == Queue!Without(x, m)
<1>1. y = [l \in DOMAIN y |-> y[l]] /\ DOMAIN y \subseteq Queue!FileName
        /\ \A l \in DOMAIN y : y[l] \in Queue!Body
  BY DiskType DEF Queue!Without, Queue!Restrict
<1> HIDE DEF y
<1>2. y \in Disks
  BY <1>1, DiskType
<1> QED BY <1>2 DEF y

(* ... or renamed ...                                                       *)
LEMMA RenamedType ==
    ASSUME NEW x \in Disks, NEW m \in DOMAIN x, NEW l \in Queue!FileName
    PROVE  Queue!Renamed(x, m, l) \in Disks
<1>1. x[m] \in Queue!Body
  BY DiskType
<1> QED BY <1>1, PutType, WithoutType DEF Queue!Renamed

(* ... leave a directory, of finitely many files.                           *)
LEMMA FiniteDisk ==
    ASSUME NEW x, IsFiniteSet(DOMAIN x), NEW m, NEW b
    PROVE  /\ IsFiniteSet(DOMAIN Queue!Put(x, m, b)) /\ IsFiniteSet(DOMAIN Queue!Without(x, m))
           /\ \A l : IsFiniteSet(DOMAIN Queue!Renamed(x, m, l))
<1>1. \A y, c, l : DOMAIN Queue!Put(y, l, c) = DOMAIN y \cup {l}
  BY DEF Queue!Put
<1>2. \A y, l : DOMAIN Queue!Without(y, l) = DOMAIN y \ {l}
  BY DEF Queue!Without, Queue!Restrict
<1>3. IsFiniteSet(DOMAIN x \ {m}) /\ IsFiniteSet(DOMAIN x \cup {m})
  BY FS_RemoveElement, FS_AddElement
<1>4. \A l : IsFiniteSet((DOMAIN x \ {m}) \cup {l})
  BY <1>3, FS_AddElement
<1>5. IsFiniteSet(DOMAIN Queue!Put(x, m, b)) /\ IsFiniteSet(DOMAIN Queue!Without(x, m))
  BY <1>1, <1>2, <1>3
<1>6. ASSUME NEW l PROVE IsFiniteSet(DOMAIN Queue!Renamed(x, m, l))
  <2>1. DOMAIN Queue!Renamed(x, m, l) = (DOMAIN x \ {m}) \cup {l}
    BY DEF Queue!Renamed, Queue!Put, Queue!Without, Queue!Restrict
  <2> QED BY <1>4, <2>1
<1> QED BY <1>5, <1>6


(* Sequences of steps, and the elements of a set in some order.             *)
LEMMA QueueJoined ==
    ASSUME NEW R, NEW s \in Seq(R), NEW t \in Seq(R)
    PROVE  /\ s \o t \in Seq(R) /\ Len(s \o t) = Len(s) + Len(t)
           /\ \A k \in DOMAIN (s \o t) : \/ k \in DOMAIN s /\ (s \o t)[k] = s[k]
                                         \/ k - Len(s) \in DOMAIN t /\ (s \o t)[k] = t[k - Len(s)]
OBVIOUS

(* The elements of a finite set, in some order.                             *)
LEMMA Enumerated ==
    ASSUME NEW S, IsFiniteSet(S)
    PROVE  /\ Queue!SetToSeq(S) \in Seq(S)
           /\ \A b \in S : \E k \in DOMAIN Queue!SetToSeq(S) : Queue!SetToSeq(S)[k] = b
<1> DEFINE q == Queue!SetToSeq(S)
           N == Cardinality(S)
<1>1. N \in Nat /\ ExistsBijection(1..N, S)
  BY FS_CardinalityType
<1>2. PICK w \in [1..N -> S] : IsInjective(w)
  BY <1>1 DEF ExistsBijection, Bijection, Injection
<1>3. q \in [1..N -> S] /\ IsInjective(q)
  BY <1>2 DEF Queue!SetToSeq, Queue!IsInjective, IsInjective, Queue!Cardinality, Cardinality
<1>4. IsFiniteSet(1..N) /\ Cardinality(1..N) = N
  BY <1>1, FS_Interval
<1>5. q \in Surjection(1..N, S)
  BY <1>3, <1>4, FS_Injection DEF Injection
<1>6. q \in Seq(S) /\ DOMAIN q = 1..N
  BY <1>1, <1>3
<1> QED BY <1>5, <1>6 DEF Surjection

(* The staging name of a file is a name, ...                                *)
LEMMA StagingType ==
    ASSUME QueueBounds, QueueTypes, NEW m \in Queue!FileName
    PROVE  Queue!Staging(m) \in Queue!FileName
BY DEF QueueBounds, QueueTypes, Queue!Staging, Queue!FileName

(* ... a plan is a sequence of moves, ...                                   *)
LEMMA HalfType ==
    ASSUME QueueTypes
    PROVE  Queue!Half \in Nat /\ \A j \in 1..Queue!Half : cmd.moves[j] \in QueueMoves
BY DEF QueueTypes, Queue!Half, Plans

(* ... and each rename of a renumbering goes from a name to a name.         *)
LEMMA RenameType ==
    ASSUME QueueBounds, QueueTypes, NEW j \in 1 .. 2 * Queue!Half
    PROVE  Queue!RenameAt(j).from \in Queue!FileName /\ Queue!RenameAt(j).to \in Queue!FileName
<1>1. CASE j <= Queue!Half
  <2>1. j \in 1..Queue!Half
    BY <1>1, HalfType
  <2>2. cmd.moves[j].from \in Queue!FileName
    BY <2>1, HalfType DEF QueueMoves
  <2> QED BY <1>1, <2>2, StagingType DEF Queue!RenameAt
<1>2. CASE ~(j <= Queue!Half)
  <2>1. j - Queue!Half \in 1..Queue!Half
    BY <1>2, HalfType
  <2>2. cmd.moves[j - Queue!Half].from \in Queue!FileName
          /\ cmd.moves[j - Queue!Half].to \in Queue!FileName
    BY <2>1, HalfType DEF QueueMoves
  <2> QED BY <1>2, <2>2, StagingType DEF Queue!RenameAt
<1> QED BY <1>1, <1>2

(* A step that renames, and those of a renumbering taken back.              *)
LEMMA BackType ==
    ASSUME NEW m \in Queue!FileName, NEW l \in Queue!FileName
    PROVE  Queue!Back(m, l) \in Steps /\ Queue!Back(m, l).do = "rename"
BY DEF Queue!Back, Steps

(* Steps of compensation without an inverse renumbering.                    *)
QueuePlain(q) == q \in Seq(Steps) /\ \A k \in DOMAIN q : q[k].do # "inverse"

(* The renames taken back, ...                                              *)
LEMMA BackFromType ==
    ASSUME QueueBounds, QueueTypes, NEW j \in 1 .. 2 * Queue!Half + 1, NEW k \in 0 .. 2 * Queue!Half
    PROVE  QueuePlain(Queue!BackFrom(j, k))
<1> DEFINE q == Queue!BackFrom(j, k)
           N == k + 1 - j
<1>1. Queue!Half \in Nat /\ N \in Int
  BY HalfType
<1>2. \A l \in 1..N : j - 1 + l \in 1 .. 2 * Queue!Half
  BY <1>1
<1>3. \A l \in 1..N : q[l] \in Steps /\ q[l].do = "rename"
  BY <1>2, RenameType, BackType DEF Queue!BackFrom
<1>4. DOMAIN q = 1..N /\ q = [l \in 1..N |-> q[l]]
  BY DEF Queue!BackFrom
<1> HIDE DEF q
<1>5. q \in Seq(Steps)
  <2>1. CASE N \in Nat
    BY <1>3, <1>4, <2>1
  <2>2. CASE N \notin Nat
    <3>1. 1..N = 1..0
      BY <1>1, <2>2
    <3> QED BY <1>3, <1>4, <3>1
  <2> QED BY <2>1, <2>2
<1>6. QueuePlain(q)
  BY <1>3, <1>4, <1>5 DEF QueuePlain
<1> QED BY <1>6 DEF q

(* ... one after another, ...                                               *)
LEMMA PlainJoined ==
    ASSUME NEW s, QueuePlain(s), NEW t, QueuePlain(t)
    PROVE  QueuePlain(s \o t)
BY QueueJoined DEF QueuePlain

(* ... are such: those of a renumbering that stopped, ...                   *)
LEMMA UnwindType ==
    ASSUME QueueBounds, QueueTypes
    PROVE  QueuePlain(Queue!Unwind)
<1>1. Queue!Half \in Nat /\ at \in 1 .. 2 * Queue!Half + 1
  BY HalfType DEF QueueTypes
<1>2. CASE at <= Queue!Half
  <2>1. 1 \in 1 .. 2 * Queue!Half + 1 /\ at - 1 \in 0 .. 2 * Queue!Half
    BY <1>1
  <2>2. QueuePlain(Queue!BackFrom(1, at - 1))
    BY <2>1, BackFromType
  <2> QED BY <1>2, <2>2 DEF Queue!Unwind
<1>3. CASE ~(at <= Queue!Half)
  <2>1. 1 \in 1 .. 2 * Queue!Half + 1 /\ Queue!Half + 1 \in 1 .. 2 * Queue!Half + 1
        /\ at - 1 \in 0 .. 2 * Queue!Half /\ Queue!Half \in 0 .. 2 * Queue!Half
    BY <1>1
  <2>2. QueuePlain(Queue!BackFrom(Queue!Half + 1, at - 1))
          /\ QueuePlain(Queue!BackFrom(1, Queue!Half))
    BY <2>1, BackFromType
  <2> QED BY <1>3, <2>2, PlainJoined DEF Queue!Unwind
<1> QED BY <1>2, <1>3

(* ... and those of one whose manifest was not written.                     *)
LEMMA UnplaceType ==
    ASSUME QueueBounds, QueueTypes
    PROVE  QueuePlain(Queue!Unplace)
<1> DEFINE q == Queue!Unplace
<1>1. cmd.moves \in Seq(QueueMoves) /\ DOMAIN cmd.moves = 1..Queue!Half /\ Queue!Half \in Nat
  BY DEF QueueTypes, Plans, Queue!Half
<1>2. \A j \in 1..Queue!Half : q[j] \in Steps /\ q[j].do = "rename"
  <2>1. \A j \in 1..Queue!Half : cmd.moves[j].from \in Queue!FileName
                                   /\ cmd.moves[j].to \in Queue!FileName
    <3>1. \A j \in 1..Queue!Half : cmd.moves[j] \in QueueMoves
      BY HalfType
    <3> QED BY <3>1 DEF QueueMoves
  <2> QED BY <1>1, <2>1, BackType DEF Queue!Unplace
<1>3. q = [l \in 1..Queue!Half |-> q[l]]
  BY <1>1 DEF Queue!Unplace
<1> HIDE DEF q
<1>4. q \in Seq(Steps)
  BY <1>1, <1>2, <1>3
<1>5. QueuePlain(q)
  BY <1>2, <1>3, <1>4 DEF QueuePlain
<1> QED BY <1>5 DEF q

(* What the catch of a command does: an inverse renumbering only after one  *)
(* that was committed.                                                      *)
Catches(q) == q \in Seq(Steps) /\ \A k \in DOMAIN q : q[k].do = "inverse" => cmd.committed

(* Such steps, one after another, ...                                       *)
LEMMA CatchesJoined ==
    ASSUME NEW s, Catches(s), NEW t, Catches(t)
    PROVE  Catches(s \o t)
BY QueueJoined DEF Catches

(* ... one alone, ...                                                       *)
LEMMA CatchesOne ==
    ASSUME NEW s \in Steps, s.do = "inverse" => cmd.committed
    PROVE  Catches(<<s>>)
BY DEF Catches

(* ... none, ...                                                            *)
LEMMA CatchesNone == Catches(<<>>)
BY DEF Catches

(* ... and plain ones.                                                      *)
LEMMA PlainCatches ==
    ASSUME NEW s, QueuePlain(s)
    PROVE  Catches(s)
BY DEF QueuePlain, Catches

(* The target file as it was.                                               *)
LEMMA PutBackType ==
    ASSUME QueueTypes
    PROVE  Catches(Queue!PutBack(cmd.name))
<1>1. cmd.name \in Queue!FileName
  BY DEF QueueTypes, Plans
<1>2. CASE cmd.name \in DOMAIN before.disk
  <2>1. before.disk[cmd.name] \in Queue!Body
    BY <1>2, DiskType DEF QueueTypes
  <2>2. Queue!Rewrite(cmd.name, before.disk[cmd.name]) \in Steps
        /\ Queue!Rewrite(cmd.name, before.disk[cmd.name]).do = "put"
    BY <1>1, <2>1 DEF Queue!Rewrite, Steps
  <2> QED BY <1>2, <2>2, CatchesOne DEF Queue!PutBack
<1>3. CASE cmd.name \notin DOMAIN before.disk
  <2>1. Queue!Unlinked(cmd.name) \in Steps /\ Queue!Unlinked(cmd.name).do = "remove"
    BY <1>1 DEF Queue!Unlinked, Steps
  <2> QED BY <1>3, <2>1, CatchesOne DEF Queue!PutBack
<1> QED BY <1>2, <1>3

(* The superseded bodies, written again.                                    *)
Dropped == {Queue!Rewrite(m, before.disk[m]) : m \in cmd.drop}

(* They are finitely many steps.                                            *)
LEMMA DroppedType ==
    ASSUME QueueTypes
    PROVE  /\ IsFiniteSet(Dropped) /\ Dropped \subseteq Steps
           /\ \A s \in Dropped : s.do = "put"
<1>1. \A m \in cmd.drop : m \in Queue!FileName /\ before.disk[m] \in Queue!Body
  BY DiskType DEF QueueTypes, Plans
<1>2. \A m \in cmd.drop : Queue!Rewrite(m, before.disk[m]) \in Steps
                            /\ Queue!Rewrite(m, before.disk[m]).do = "put"
  BY <1>1 DEF Queue!Rewrite, Steps
<1> DEFINE w == [m \in cmd.drop |-> Queue!Rewrite(m, before.disk[m])]
<1>3. w \in Surjection(cmd.drop, Dropped)
  BY DEF Surjection, Dropped
<1>4. IsFiniteSet(Dropped)
  BY <1>3, FS_Surjection DEF QueueTypes
<1> QED BY <1>2, <1>4 DEF Dropped

(* The catch of every command is of such steps.                             *)
LEMMA CleanupType ==
    ASSUME QueueTypes
    PROVE  Catches(Queue!Cleanup)
<1>1. Catches(<<Queue!RestoreRows>>)
  BY CatchesOne DEF Queue!RestoreRows, Steps
<1>2. Catches(Queue!PutBack(cmd.name))
  BY PutBackType
<1>3. Catches(Queue!SetToSeq(Dropped))
  <2>1. Queue!SetToSeq(Dropped) \in Seq(Dropped) /\ Dropped \subseteq Steps
          /\ \A s \in Dropped : s.do = "put"
    BY DroppedType, Enumerated
  <2> DEFINE q == Queue!SetToSeq(Dropped)
  <2> HIDE DEF q
  <2>2. q \in Seq(Steps) /\ \A k \in DOMAIN q : q[k].do # "inverse"
    BY <2>1 DEF q
  <2> QED BY <2>2 DEF Catches, q
<1>4. Catches(IF cmd.committed THEN <<Queue!Invert>> ELSE <<>>)
  BY CatchesOne, CatchesNone DEF Queue!Invert, Steps
<1>5. CASE cmd.kind = "export"
  BY <1>1, <1>2, <1>3, <1>5, CatchesJoined DEF Queue!Cleanup, Dropped
<1>6. CASE cmd.kind = "place"
  BY <1>1, <1>2, <1>4, <1>6, CatchesJoined DEF Queue!Cleanup
<1>7. CASE cmd.kind = "inverse"
  BY <1>1, <1>7 DEF Queue!Cleanup
<1>8. CASE cmd.kind = "update"
  BY <1>2, <1>8, CatchesNone DEF Queue!Cleanup
<1>9. CASE cmd.kind = "delete"
  BY <1>1, <1>9, CatchesNone DEF Queue!Cleanup
<1>10. CASE cmd.kind \notin {"export", "place", "inverse", "update", "delete"}
  BY <1>10, CatchesNone DEF Queue!Cleanup
<1> QED BY <1>5, <1>6, <1>7, <1>8, <1>9, <1>10


(* The renames a command plans: of rows that are there, each of its own.    *)
Moving(M, R) ==
    /\ M \in Seq(QueueMoves)
    /\ \A k \in DOMAIN M : \E r \in R : M[k].from = r.name
                             /\ M[k].to = [r.name EXCEPT !.order = M[k].to.order]
    /\ \A j, k \in DOMAIN M : M[j].from = M[k].from => j = k

(* A move of a row is a move, ...                                           *)
LEMMA MoveType ==
    ASSUME NEW r \in Queue!Row, NEW k \in Queue!Orders
    PROVE  Queue!Move(r, k) \in QueueMoves
BY DEF Queue!Move, QueueMoves, Queue!Row, Queue!FileName

(* ... from its name to the same name at another order.                     *)
LEMMA MoveIs ==
    ASSUME NEW r \in Queue!Row, NEW k
    PROVE  /\ Queue!Move(r, k).from = r.name /\ Queue!Move(r, k).to.order = k
           /\ Queue!Move(r, k).to = [r.name EXCEPT !.order = Queue!Move(r, k).to.order]
BY DEF Queue!Move, Queue!Row, Queue!FileName

(* The first gap: every order up to it is taken.                            *)
LEMMA GapIs ==
    ASSUME QueueBounds, NEW R \in SUBSET Queue!Row, NEW k \in Queue!Orders
    PROVE  /\ Queue!Gap(R, k) \in k .. MaxOrder + 1
           /\ \A r \in R : r.name.order # Queue!Gap(R, k)
           /\ \A j \in k .. Queue!Gap(R, k) - 1 : \E r \in R : r.name.order = j
<1> DEFINE T == {j \in k .. MaxOrder + 1 : \A r \in R : r.name.order # j}
           l == Queue!Min(T)
<1>1. MaxOrder \in Nat /\ k \in 1..MaxOrder /\ \A r \in R : r.name.order \in 1..MaxOrder
  BY DEF QueueBounds, Queue!Orders, Queue!Row, Queue!FileName
<1>2. T \subseteq Nat /\ MaxOrder + 1 \in T
  BY <1>1
<1>3. \E j \in T : \A m \in T : j <= m
  BY <1>2, Least
<1>4. l \in T /\ \A m \in T : l <= m
  BY <1>3 DEF Queue!Min
<1>5. Queue!Gap(R, k) = l
  BY DEF Queue!Gap
<1>6. ASSUME NEW j \in k .. l - 1 PROVE \E r \in R : r.name.order = j
  <2>1. j \in k .. MaxOrder + 1 /\ ~(l <= j)
    BY <1>1, <1>2, <1>4, <1>6
  <2>2. j \notin T
    BY <1>4, <2>1
  <2> QED BY <2>1, <2>2
<1> QED BY <1>4, <1>5, <1>6

(* The row at an order that is taken.                                       *)
LEMMA AtIs ==
    ASSUME NEW R, NEW k, \E r \in R : r.name.order = k
    PROVE  Queue!At(R, k) \in R /\ Queue!At(R, k).name.order = k
BY DEF Queue!At

(* Making room moves each row of a run of orders, and leaves the first
   free.                                                                    *)
LEMMA ShiftedMoves ==
    ASSUME QueueBounds, NEW R \in SUBSET Queue!Row, NEW k \in Queue!Orders,
           \A j \in DOMAIN Queue!Shifted(R, k) : Queue!Shifted(R, k)[j].to.order \in Queue!Orders
    PROVE  /\ Moving(Queue!Shifted(R, k), R)
           /\ \A j \in DOMAIN Queue!Shifted(R, k) : Queue!Shifted(R, k)[j].to.order # k
<1> DEFINE M == Queue!Shifted(R, k)
           N == Queue!Gap(R, k) - k
<1>1. MaxOrder \in Nat /\ k \in 1..MaxOrder /\ Queue!Gap(R, k) \in k .. MaxOrder + 1
  BY GapIs DEF QueueBounds, Queue!Orders
<1>2. N \in Nat /\ DOMAIN M = 1..N /\ M = [j \in 1..N |-> M[j]]
  BY <1>1 DEF Queue!Shifted
<1>3. ASSUME NEW j \in 1..N
      PROVE  /\ Queue!At(R, k + j - 1) \in R /\ Queue!At(R, k + j - 1).name.order = k + j - 1
             /\ M[j] = Queue!Move(Queue!At(R, k + j - 1), k + j)
  <2>1. k + j - 1 \in k .. Queue!Gap(R, k) - 1
    BY <1>1, <1>2
  <2>2. \E r \in R : r.name.order = k + j - 1
    BY <2>1, GapIs
  <2> QED BY <2>2, AtIs DEF Queue!Shifted
<1>4. ASSUME NEW j \in 1..N
      PROVE  /\ M[j].from = Queue!At(R, k + j - 1).name /\ M[j].to.order = k + j
             /\ M[j].to = [Queue!At(R, k + j - 1).name EXCEPT !.order = M[j].to.order]
  <2>1. Queue!At(R, k + j - 1) \in Queue!Row
    BY <1>3
  <2> QED BY <1>3, <2>1, MoveIs
<1>5. ASSUME NEW j \in 1..N PROVE M[j] \in QueueMoves
  <2>1. Queue!At(R, k + j - 1) \in Queue!Row /\ k + j \in Queue!Orders
    BY <1>2, <1>3, <1>4
  <2> QED BY <1>3, <2>1, MoveType
<1> HIDE DEF M, N
<1>6. M \in Seq(QueueMoves)
  BY <1>2, <1>5
<1>7. \A j, m \in 1..N : M[j].from = M[m].from => j = m
  <2>1. \A j \in 1..N : M[j].from.order = k + j - 1
    BY <1>3, <1>4
  <2> QED BY <1>1, <1>2, <2>1
<1>8. \A j \in 1..N : M[j].to.order # k
  <2>1. \A j \in 1..N : M[j].to.order = k + j
    BY <1>4
  <2> QED BY <1>1, <1>2, <2>1
<1>9. Moving(M, R)
  BY <1>2, <1>3, <1>4, <1>6, <1>7 DEF Moving
<1> QED BY <1>2, <1>8, <1>9 DEF M

(* So does a reorder, with the row it is about.                             *)
LEMMA ReorderIs ==
    ASSUME QueueBounds, rows \in SUBSET Queue!Row, NEW r \in Queue!Placed, NEW k \in Queue!Orders,
           Queue!WellFormed(Queue!Placed),
           \A j \in DOMAIN Queue!ReorderMoves(r, k) : Queue!ReorderMoves(r, k)[j].to.order \in Queue!Orders
    PROVE  Moving(Queue!ReorderMoves(r, k), Queue!Placed) /\ Queue!ReorderMoves(r, k) # <<>>
<1> DEFINE R == Queue!Placed \ {r}
           S == Queue!Shifted(R, k)
           M == Queue!ReorderMoves(r, k)
           N == Queue!Gap(R, k) - k
<1>1. R \in SUBSET Queue!Row /\ Queue!Placed \in SUBSET Queue!Row /\ r \in Queue!Row
  BY DEF Queue!Placed
<1>2. Queue!Gap(R, k) \in k .. MaxOrder + 1 /\ MaxOrder \in Nat /\ k \in 1..MaxOrder
  BY <1>1, GapIs DEF QueueBounds, Queue!Orders
<1>3. N \in Nat /\ DOMAIN S = 1..N /\ S = [j \in 1..N |-> S[j]]
  BY <1>2 DEF Queue!Shifted
<1>4. M = Append(S, Queue!Move(r, k))
  BY DEF Queue!ReorderMoves
<1>5. DOMAIN M = 1 .. N + 1 /\ M[N + 1] = Queue!Move(r, k) /\ \A j \in 1..N : M[j] = S[j]
  <2> HIDE DEF S, N
  <2>1. S \in Seq({S[j] : j \in 1..N})
    BY <1>3
  <2>2. Len(S) = N
    BY <1>3
  <2> HIDE DEF M
  <2> QED BY <1>3, <1>4, <2>1, <2>2
<1>6. \A j \in DOMAIN S : S[j].to.order \in Queue!Orders
  <2>1. \A j \in DOMAIN M : M[j].to.order \in Queue!Orders
    OBVIOUS
  <2> HIDE DEF M, S, N
  <2> QED BY <1>3, <1>5, <2>1
<1>7. Moving(S, R)
  BY <1>1, <1>6, ShiftedMoves
<1>8. Queue!Move(r, k) \in QueueMoves
  BY <1>1, MoveType
<1> HIDE DEF M, N, S, R
<1>9. M \in Seq(QueueMoves)
  BY <1>4, <1>7, <1>8 DEF Moving
<1>13. M[N + 1].from = r.name /\ M[N + 1].to = [r.name EXCEPT !.order = M[N + 1].to.order]
  <2>1. M[N + 1] = Queue!Move(r, k)
    BY <1>5
  <2> QED BY <1>1, <2>1, MoveIs
<1>14. ASSUME NEW j \in 1..N
       PROVE  \E s \in R : M[j].from = s.name /\ M[j].to = [s.name EXCEPT !.order = M[j].to.order]
  <2>1. M[j] = S[j] /\ j \in DOMAIN S
    BY <1>3, <1>5
  <2> QED BY <1>7, <2>1 DEF Moving
<1>15. R \subseteq Queue!Placed /\ r \in Queue!Placed
  BY DEF R
<1>10. \A j \in DOMAIN M : \E s \in Queue!Placed : M[j].from = s.name
                             /\ M[j].to = [s.name EXCEPT !.order = M[j].to.order]
  <2>1. ASSUME NEW j \in DOMAIN M, j # N + 1 PROVE j \in 1..N
    BY <1>3, <1>5, <2>1
  <2> QED BY <1>13, <1>14, <1>15, <2>1
<1>11. \A j, m \in DOMAIN M : M[j].from = M[m].from => j = m
  <2>1. \A j \in 1..N : M[j].from # r.name
    <3>1. ASSUME NEW s \in R PROVE s.name # r.name
      BY <3>1 DEF R, Queue!WellFormed
    <3> QED BY <1>14, <3>1
  <2>2. M[N + 1].from = r.name
    BY <1>13
  <2>3. \A j, m \in 1..N : M[j].from = M[m].from => j = m
    BY <1>3, <1>5, <1>7 DEF Moving
  <2> QED BY <1>3, <1>5, <2>1, <2>2, <2>3
<1>12. M # <<>>
  BY <1>3, <1>5
<1> QED BY <1>9, <1>10, <1>11, <1>12 DEF Moving, M


(* A function of 1..N is a sequence.                                        *)
LEMMA Listing ==
    ASSUME NEW R, NEW N \in Int, NEW q, q = [j \in 1..N |-> q[j]], \A j \in 1..N : q[j] \in R
    PROVE  q \in Seq(R) /\ DOMAIN q = 1..N
<1>1. CASE N \in Nat
  BY <1>1
<1>2. CASE N \notin Nat
  <2>1. 1..N = 1..0
    BY <1>2
  <2> QED BY <2>1
<1> QED BY <1>1, <1>2

(* How many of the placed rows a row is at or above.                        *)
Below(r) == {s \in Queue!Placed : s.name.order <= r.name.order}
Rank(r) == Cardinality(Below(r))

(* Rows that have distinct orders have all ranks up to their number, each
   once.                                                                    *)
LEMMA RankIs ==
    ASSUME QueueBounds, rows \in SUBSET Queue!Row, Queue!WellFormed(Queue!Placed)
    PROVE  /\ IsFiniteSet(Queue!Placed) /\ Cardinality(Queue!Placed) \in 0..MaxOrder
           /\ \A k \in 1..Cardinality(Queue!Placed) : Queue!Ranked(k) \in Queue!Placed
                                                        /\ Rank(Queue!Ranked(k)) = k
<1> DEFINE N == Cardinality(Queue!Placed)
           o == [r \in Queue!Placed |-> r.name.order]
           w == [r \in Queue!Placed |-> Rank(r)]
<1>1. MaxOrder \in Nat /\ \A r \in Queue!Placed : r.name.order \in 1..MaxOrder
  BY DEF QueueBounds, Queue!Placed, Queue!Row, Queue!FileName, Queue!Orders
<1>2. o \in Injection(Queue!Placed, 1..MaxOrder)
  BY <1>1 DEF Injection, IsInjective, Queue!WellFormed
<1>3. IsFiniteSet(1..MaxOrder) /\ Cardinality(1..MaxOrder) = MaxOrder
  BY <1>1, FS_Interval
<1>4. IsFiniteSet(Queue!Placed) /\ N <= MaxOrder /\ N \in Nat
  BY <1>2, <1>3, FS_Injection, FS_CardinalityType
<1>5. ASSUME NEW r \in Queue!Placed
      PROVE  Rank(r) \in 1..N /\ IsFiniteSet(Below(r))
  <2>1. Below(r) \in SUBSET Queue!Placed /\ r \in Below(r)
    BY <1>1 DEF Below
  <2>2. IsFiniteSet(Below(r)) /\ Cardinality(Below(r)) <= N
    BY <1>4, <2>1, FS_Subset
  <2>3. Cardinality(Below(r)) \in Nat /\ Cardinality(Below(r)) # 0
    BY <2>1, <2>2, FS_CardinalityType, FS_EmptySet
  <2> QED BY <1>4, <2>2, <2>3 DEF Rank
<1>6. ASSUME NEW r \in Queue!Placed, NEW s \in Queue!Placed, r.name.order < s.name.order
      PROVE  Rank(r) < Rank(s)
  <2>1. Below(r) \in SUBSET Below(s) /\ s \in Below(s) /\ s \notin Below(r)
    BY <1>1, <1>6 DEF Below
  <2>2. IsFiniteSet(Below(s)) /\ Rank(r) \in Nat /\ Rank(s) \in Nat
    BY <1>5
  <2>3. Rank(r) <= Rank(s) /\ Rank(r) # Rank(s)
    BY <2>1, <2>2, FS_Subset DEF Rank
  <2> QED BY <2>2, <2>3
<1>7. w \in Injection(Queue!Placed, 1..N)
  <2>1. ASSUME NEW r \in Queue!Placed, NEW s \in Queue!Placed, Rank(r) = Rank(s) PROVE r = s
    <3>1. Rank(r) \in Nat /\ Rank(s) \in Nat
      BY <1>5
    <3>2. ~(r.name.order < s.name.order) /\ ~(s.name.order < r.name.order)
      BY <1>6, <2>1, <3>1
    <3>3. r.name.order = s.name.order
      BY <1>1, <3>2
    <3> QED BY <3>3 DEF Queue!WellFormed
  <2>2. w \in [Queue!Placed -> 1..N]
    BY <1>5
  <2> HIDE DEF N
  <2> QED BY <2>1, <2>2 DEF Injection, IsInjective
<1>8. IsFiniteSet(1..N) /\ Cardinality(1..N) = N
  BY <1>4, FS_Interval
<1>9. w \in Surjection(Queue!Placed, 1..N)
  BY <1>7, <1>8, FS_Injection
<1>10. \A k \in 1..N : \E r \in Queue!Placed : Rank(r) = k
  BY <1>9 DEF Surjection
<1>11. \A k \in 1..N : Queue!Ranked(k) \in Queue!Placed /\ Rank(Queue!Ranked(k)) = k
  <2>1. ASSUME NEW k \in 1..N PROVE Queue!Ranked(k) = CHOOSE r \in Queue!Placed : Rank(r) = k
    BY DEF Queue!Ranked, Rank, Below, Queue!Cardinality, Cardinality
  <2> QED BY <1>10, <2>1
<1> QED BY <1>1, <1>4, <1>11

(* A compaction moves rows that are there, each once.                       *)
LEMMA CompactIs ==
    ASSUME QueueBounds, rows \in SUBSET Queue!Row, Queue!WellFormed(Queue!Placed)
    PROVE  Moving(Queue!CompactMoves, Queue!Placed)
<1> DEFINE M == Queue!CompactMoves
           a == Queue!Gap(Queue!Placed, 1)
           C == Cardinality(Queue!Placed)
           N == C + 1 - a
<1>1. Queue!Placed \in SUBSET Queue!Row
  BY DEF Queue!Placed
<1>2. C \in 0..MaxOrder /\ MaxOrder \in Nat /\ \A k \in 1..C : Queue!Ranked(k) \in Queue!Placed
        /\ Rank(Queue!Ranked(k)) = k
  BY RankIs DEF QueueBounds
<1>3. 1 \in Queue!Orders
  <2>1. Len(Listed) \in Nat /\ Len(Listed) >= 1
    BY DEF QueueBounds
  <2> QED BY <1>2, <2>1 DEF QueueBounds, Queue!Orders
<1>4. a \in 1 .. MaxOrder + 1
  BY <1>1, <1>3, GapIs
<1>5. ASSUME NEW j \in 1..N
      PROVE  /\ a + j - 1 \in 1..C /\ Queue!Ranked(a + j - 1) \in Queue!Placed
                  /\ Rank(Queue!Ranked(a + j - 1)) = a + j - 1
             /\ M[j] = Queue!Move(Queue!Ranked(a + j - 1), a + j - 1)
  <2>1. a + j - 1 \in 1..C
    BY <1>2, <1>4
  <2> QED BY <1>2, <2>1 DEF Queue!CompactMoves, Queue!Cardinality, Cardinality
<1>6. ASSUME NEW j \in 1..N
      PROVE  /\ M[j] \in QueueMoves /\ M[j].from = Queue!Ranked(a + j - 1).name
             /\ M[j].to = [Queue!Ranked(a + j - 1).name EXCEPT !.order = M[j].to.order]
  <2>1. Queue!Ranked(a + j - 1) \in Queue!Row /\ a + j - 1 \in Queue!Orders
    BY <1>1, <1>2, <1>4, <1>5 DEF Queue!Orders
  <2> QED BY <1>5, <2>1, MoveType, MoveIs
<1>7. M = [j \in 1..N |-> M[j]] /\ N \in Int
  BY <1>2, <1>4 DEF Queue!CompactMoves, Queue!Cardinality, Cardinality
<1> HIDE DEF M, N, C
<1>8. M \in Seq(QueueMoves) /\ DOMAIN M = 1..N
  BY <1>6, <1>7, Listing
<1>9. ASSUME NEW j \in 1..N, NEW m \in 1..N, M[j].from = M[m].from PROVE j = m
  <2>1. Queue!Ranked(a + j - 1).name = Queue!Ranked(a + m - 1).name
    BY <1>6, <1>9
  <2>2. Queue!Ranked(a + j - 1) = Queue!Ranked(a + m - 1)
    BY <1>5, <2>1 DEF Queue!WellFormed
  <2>3. a + j - 1 = a + m - 1
    BY <1>5, <2>2
  <2> QED BY <1>4, <1>7, <2>3
<1> QED BY <1>5, <1>6, <1>8, <1>9 DEF Moving, M


(* The plan of no command is a plan, ...                                    *)
LEMMA NoNameType ==
    ASSUME QueueBounds
    PROVE  Queue!NoName \in Queue!FileName /\ Queue!NoCommand \in Plans
<1>1. 1 \in Queue!Orders /\ Listed[1] \in Patches
  BY DEF QueueBounds, Queue!Orders
<1>2. Queue!NoName \in Queue!FileName
  BY <1>1 DEF QueueBounds, Queue!NoName, Queue!NameOf, Queue!FileName
<1> QED BY <1>2 DEF Queue!NoCommand, Queue!Plan, Plans

(* ... and the name of a new patch a name.                                  *)
LEMMA NameType ==
    ASSUME QueueBounds, NEW k \in Queue!Orders, NEW p \in Patches
    PROVE  Queue!NameOf(k, p) \in Queue!FileName /\ Queue!NewBody(p) \in Queue!Body
BY DEF QueueBounds, Queue!NameOf, Queue!FileName, Queue!NewBody, Queue!Body

(* At first the directory is the queue it starts with.                      *)
LEMMA QueueInitTypes ==
    ASSUME QueueBounds, Queue!Init
    PROVE  QueueTypes
<1>1. \A j \in DOMAIN Listed : j \in Queue!Orders /\ Listed[j] \in Patches
  BY DEF QueueBounds, Queue!Orders
<1>2. \A j \in DOMAIN Listed : Queue!NameOf(j, Listed[j]) \in Queue!FileName
                                 /\ Queue!NameOf(j, Listed[j]).order = j
  BY <1>1, NameType DEF Queue!NameOf
<1>3. \A j \in DOMAIN Listed : [id |-> Listed[j], ver |-> 0] \in Queue!Body
  BY <1>1 DEF Queue!Body
<1> DEFINE X == {Queue!NameOf(j, Listed[j]) : j \in DOMAIN Listed}
<1>4. X \in SUBSET Queue!FileName /\ \A m \in X : m.order \in DOMAIN Listed
  BY <1>2
<1>5. \A m \in X : [id |-> Listed[m.order], ver |-> 0] \in Queue!Body
  BY <1>3, <1>4
<1>6. disk = [m \in X |-> [id |-> Listed[m.order], ver |-> 0]]
  BY DEF Queue!Init
<1>7. IsFiniteSet(X)
  <2> DEFINE w == [j \in DOMAIN Listed |-> Queue!NameOf(j, Listed[j])]
  <2>1. w \in Surjection(DOMAIN Listed, X)
    BY DEF Surjection
  <2>2. DOMAIN Listed = 1..Len(Listed) /\ Len(Listed) \in Nat
    BY DEF QueueBounds
  <2>3. IsFiniteSet(DOMAIN Listed)
    BY <2>2, FS_Interval
  <2> QED BY <2>1, <2>3, FS_Surjection
<1> HIDE DEF X
<1>8. disk \in [X -> Queue!Body] /\ DOMAIN disk = X
  BY <1>5, <1>6
<1>9. disk \in Disks /\ IsFiniteSet(DOMAIN disk)
  BY <1>4, <1>7, <1>8 DEF Disks
<1>10. rows \in SUBSET Queue!Row
  BY <1>1, <1>2 DEF Queue!Init, Queue!Row
<1>11. cmd \in Plans /\ undo \in Seq(Steps) /\ cmd.drop = {} /\ cmd.committed = FALSE /\ undo = <<>>
         /\ Queue!Half = 0
  BY NoNameType DEF Queue!Init, Queue!NoCommand, Queue!Plan, Queue!Half
<1>12. before.disk = disk /\ before.rows = rows /\ qpc = "idle" /\ at = 1
  BY DEF Queue!Init
<1>13. IsFiniteSet(cmd.drop)
  BY <1>11, FS_EmptySet
<1>14. qcommands \in 0 .. MaxCommands /\ qfaults \in 0 .. MaxFaults /\ crashes \in 0 .. MaxCrashes
       /\ spoiled \in BOOLEAN /\ outcome = "none"
  <2>1. qcommands = 0 /\ qfaults = 0 /\ crashes = 0 /\ spoiled = FALSE /\ outcome = "none"
    BY DEF Queue!Init
  <2>2. MaxCommands \in Nat /\ MaxFaults \in Nat /\ MaxCrashes \in Nat
    BY DEF QueueBounds
  <2>3. 0 \in 0 .. MaxCommands /\ 0 \in 0 .. MaxFaults /\ 0 \in 0 .. MaxCrashes
    BY <2>2
  <2> QED BY <2>1, <2>3, ZenonT(20)
<1>15. at \in 1 .. 2 * Queue!Half + 1
  BY <1>11, <1>12
<1>16. KindAt
  BY <1>11, <1>12, NoNameType DEF KindAt, Queue!Init, Queue!NoCommand, Queue!Plan
<1> QED BY <1>9, <1>10, <1>11, <1>12, <1>13, <1>14, <1>15, <1>16 DEF QueueTypes

(* A command that begins with a plan of the right type.                     *)
Fitting(c, where) ==
    /\ c \in Plans /\ c.committed = FALSE
    /\ IsFiniteSet(c.drop) /\ c.drop \subseteq DOMAIN disk /\ (c.drop # {} => c.kind = "export")
    /\ c.kind \in {"export", "place", "update"} => c.body \in Queue!Body
    /\ \/ where = "rename" /\ c.kind \in {"renumber", "place"} /\ c.moves # <<>>
       \/ where = "write" /\ c.kind \in {"export", "place", "update"}
       \/ where = "unrow" /\ c.kind = "delete"

(* It leaves every variable in its type, ...                                *)
LEMMA BeginTypes ==
    ASSUME QueueBounds, QueueTypes, NEW c, NEW where, Fitting(c, where), Queue!Begin(c, where)
    PROVE  QueueTypes'
<1>1. cmd' = c /\ qpc' = where /\ at' = 1 /\ undo' = <<>> /\ outcome' = "running"
      /\ before' = [disk |-> disk, rows |-> rows] /\ qcommands' = qcommands + 1
           /\ qcommands < MaxCommands
      /\ disk' = disk /\ rows' = rows /\ spoiled' = spoiled /\ qfaults' = qfaults
           /\ crashes' = crashes
  BY DEF Queue!Begin
<1>2. Len(c.moves) \in Nat /\ (c.moves # <<>> => Len(c.moves) >= 1)
  BY DEF Fitting, Plans
<1>3. Queue!Half' = Len(c.moves)
  BY <1>1 DEF Queue!Half
<1>4. at' \in 1 .. 2 * Queue!Half' + 1 /\ (qpc' = "rename" => at' <= 2 * Queue!Half')
  BY <1>1, <1>2, <1>3 DEF Fitting
<1>5. qcommands' \in 0 .. MaxCommands
  BY <1>1 DEF QueueBounds, QueueTypes
<1>6. KindAt'
  BY <1>1, <1>4 DEF Fitting, KindAt
<1>7. qpc' \in {"rename", "write", "unrow"} /\ undo' \in Seq(Steps)
  BY <1>1 DEF Fitting
<1> QED BY <1>1, <1>4, <1>5, <1>6, <1>7 DEF Fitting, QueueTypes

(* ... and the plans of the commands are such.                              *)
LEMMA PlanFits ==
    ASSUME QueueBounds, NEW kind \in {"export", "place", "renumber", "update", "delete"},
           NEW m \in Queue!FileName, NEW b \in Queue!Body \cup {Queue!NoBody},
           NEW M \in Seq(QueueMoves),
           NEW X \in SUBSET Queue!FileName, IsFiniteSet(X), X \subseteq DOMAIN disk,
           X # {} => kind = "export",
           kind \in {"export", "place", "update"} => b \in Queue!Body, NEW where,
           \/ where = "rename" /\ kind \in {"renumber", "place"} /\ M # <<>>
           \/ where = "write" /\ kind \in {"export", "place", "update"}
           \/ where = "unrow" /\ kind = "delete"
    PROVE  Fitting(Queue!Plan(kind, m, b, M, X), where)
<1> DEFINE c == Queue!Plan(kind, m, b, M, X)
<1>1. c \in Plans /\ c.committed = FALSE /\ c.kind = kind /\ c.moves = M /\ c.body = b /\ c.drop = X
  BY DEF Queue!Plan, Plans
<1> HIDE DEF c
<1>2. Fitting(c, where)
  BY <1>1 DEF Fitting
<1> QED BY <1>2 DEF c

(* A placed row is a row.                                                   *)
LEMMA PlacedRows ==
    ASSUME QueueTypes
    PROVE  Queue!Placed \in SUBSET Queue!Row
BY DEF QueueTypes, Queue!Placed

(* Every command keeps the types as it begins.                              *)
LEMMA CommandTypes ==
    ASSUME QueueBounds, QueueTypes, Queue!Command
    PROVE  QueueTypes'
<1>1. ASSUME NEW p \in Patches, Queue!Export(p) PROVE QueueTypes'
  <2>1. PICK X \in SUBSET ({r.name : r \in rows} \cap DOMAIN disk) :
             Queue!Begin(Queue!Plan("export", Queue!NameOf(Queue!NextOrder, p), Queue!NewBody(p), <<>>, X), "write")
    BY <1>1 DEF Queue!Export
  <2>2. Queue!NameOf(Queue!NextOrder, p) \in Queue!FileName /\ Queue!NewBody(p) \in Queue!Body
    BY <1>1, NameType DEF Queue!Export
  <2>3. X \in SUBSET Queue!FileName /\ X \subseteq DOMAIN disk /\ IsFiniteSet(X)
    BY FS_Subset, DiskType DEF QueueTypes
  <2>4. <<>> \in Seq(QueueMoves)
    OBVIOUS
  <2>5. Fitting(Queue!Plan("export", Queue!NameOf(Queue!NextOrder, p), Queue!NewBody(p), <<>>, X), "write")
    BY <2>2, <2>3, <2>4, PlanFits
  <2> QED BY <2>1, <2>5, BeginTypes
<1>2. ASSUME NEW p \in Patches, NEW k \in Queue!Orders, Queue!Place(p, k) PROVE QueueTypes'
  <2> DEFINE M == Queue!Shifted(Queue!Placed, k)
             where == IF M = <<>> THEN "write" ELSE "rename"
  <2>0. IsFiniteSet({}) /\ {} \in SUBSET Queue!FileName /\ {} \subseteq DOMAIN disk
    BY FS_EmptySet
  <2>1. /\ Queue!WellFormed(Queue!Placed) /\ \A j \in DOMAIN M : M[j].to.order \in Queue!Orders
        /\ Queue!Begin(Queue!Plan("place", Queue!NameOf(k, p), Queue!NewBody(p), M, {}), where)
    BY <1>2 DEF Queue!Place
  <2>2. M \in Seq(QueueMoves)
    BY <2>1, PlacedRows, ShiftedMoves DEF Moving
  <2>3. Queue!NameOf(k, p) \in Queue!FileName /\ Queue!NewBody(p) \in Queue!Body
    BY NameType
  <2> HIDE DEF M
  <2>4. Fitting(Queue!Plan("place", Queue!NameOf(k, p), Queue!NewBody(p), M, {}), where)
    BY <2>2, <2>3, <2>0, PlanFits
  <2> QED BY <2>1, <2>4, BeginTypes
<1>3. ASSUME NEW r \in Queue!Placed, NEW k \in Queue!Orders, Queue!Reorder(r, k) PROVE QueueTypes'
  <2> DEFINE M == Queue!ReorderMoves(r, k)
  <2>0. IsFiniteSet({}) /\ {} \in SUBSET Queue!FileName /\ {} \subseteq DOMAIN disk
    BY FS_EmptySet
  <2>1. /\ Queue!WellFormed(Queue!Placed) /\ \A j \in DOMAIN M : M[j].to.order \in Queue!Orders
        /\ Queue!Begin(Queue!Plan("renumber", Queue!NoName, Queue!NoBody, M, {}), "rename")
    BY <1>3 DEF Queue!Reorder
  <2>2. M \in Seq(QueueMoves) /\ M # <<>>
    BY <2>1, ReorderIs DEF Moving, QueueTypes
  <2> HIDE DEF M
  <2>4. Fitting(Queue!Plan("renumber", Queue!NoName, Queue!NoBody, M, {}), "rename")
    BY <2>2, NoNameType, <2>0, PlanFits
  <2> QED BY <2>1, <2>4, BeginTypes
<1>4. ASSUME Queue!Compact PROVE QueueTypes'
  <2> DEFINE M == Queue!CompactMoves
  <2>0. IsFiniteSet({}) /\ {} \in SUBSET Queue!FileName /\ {} \subseteq DOMAIN disk
    BY FS_EmptySet
  <2>1. Queue!WellFormed(Queue!Placed) /\ M # <<>>
          /\ Queue!Begin(Queue!Plan("renumber", Queue!NoName, Queue!NoBody, M, {}), "rename")
    BY <1>4 DEF Queue!Compact
  <2>2. M \in Seq(QueueMoves)
    BY <2>1, CompactIs DEF Moving, QueueTypes
  <2> HIDE DEF M
  <2>4. Fitting(Queue!Plan("renumber", Queue!NoName, Queue!NoBody, M, {}), "rename")
    BY <2>1, <2>2, NoNameType, <2>0, PlanFits
  <2> QED BY <2>1, <2>4, BeginTypes
<1>5. ASSUME NEW r \in rows, Queue!Update(r) PROVE QueueTypes'
  <2>0. IsFiniteSet({}) /\ {} \in SUBSET Queue!FileName /\ {} \subseteq DOMAIN disk
    BY FS_EmptySet
  <2>1. r.name \in Queue!FileName /\ [id |-> r.id, ver |-> 1] \in Queue!Body
          /\ <<>> \in Seq(QueueMoves)
    BY DEF QueueTypes, Queue!Row, Queue!Body
  <2>2. Fitting(Queue!Plan("update", r.name, [id |-> r.id, ver |-> 1], <<>>, {}), "write")
    BY <2>1, <2>0, PlanFits
  <2> QED BY <1>5, <2>2, BeginTypes DEF Queue!Update
<1>6. ASSUME NEW r \in rows, Queue!Delete(r) PROVE QueueTypes'
  <2>0. IsFiniteSet({}) /\ {} \in SUBSET Queue!FileName /\ {} \subseteq DOMAIN disk
    BY FS_EmptySet
  <2>1. r.name \in Queue!FileName /\ <<>> \in Seq(QueueMoves)
    BY DEF QueueTypes, Queue!Row
  <2>2. Fitting(Queue!Plan("delete", r.name, Queue!NoBody, <<>>, {}), "unrow")
    BY <2>1, <2>0, PlanFits
  <2> QED BY <1>6, <2>2, BeginTypes DEF Queue!Delete
<1>7. ASSUME Queue!Repair PROVE QueueTypes'
  <2>1. ASSUME NEW m \in DOMAIN disk
        PROVE  [id |-> IF \E r \in rows : r.name = m
                       THEN (CHOOSE r \in rows : r.name = m).id ELSE disk[m].id,
                ver |-> disk[m].ver, name |-> m] \in Queue!Row
    <3>1. m \in Queue!FileName /\ disk[m] \in Queue!Body
      BY DiskType DEF QueueTypes
    <3>2. ASSUME \E r \in rows : r.name = m PROVE (CHOOSE r \in rows : r.name = m).id \in Patches
      <4>1. (CHOOSE r \in rows : r.name = m) \in rows
        BY <3>2
      <4> QED BY <4>1 DEF QueueTypes, Queue!Row
    <3> QED BY <3>1, <3>2 DEF Queue!Row, Queue!Body
  <2>2. rows' \in SUBSET Queue!Row
    BY <1>7, <2>1 DEF Queue!Repair
  <2>3. /\ qpc = "idle" /\ qpc' = qpc /\ cmd' = cmd /\ at' = at /\ undo' = undo /\ disk' = disk
        /\ before' = [disk |-> disk, rows |-> rows] /\ outcome' = "repaired"
        /\ spoiled' = spoiled /\ qfaults' = qfaults /\ crashes' = crashes
        /\ qcommands' = qcommands + 1 /\ qcommands < MaxCommands
    BY <1>7 DEF Queue!Repair
  <2>4. qcommands' \in 0 .. MaxCommands
    BY <2>3 DEF QueueBounds, QueueTypes
  <2>5. cmd'.drop = {}
    BY <2>3 DEF QueueTypes, KindAt
  <2>6. KindAt'
    BY <2>3, <2>5 DEF QueueTypes, KindAt
  <2>7. at' \in 1 .. 2 * Queue!Half' + 1
    BY <2>3 DEF QueueTypes, Queue!Half
  <2> QED BY <2>2, <2>3, <2>4, <2>5, <2>6, <2>7 DEF QueueTypes
<1> QED BY <1>1, <1>2, <1>3, <1>4, <1>5, <1>6, <1>7 DEF Queue!Command


(* The types a step of a command leaves: what it may change is the           *)
(* directory, the rows, and where the command is.                            *)
Steady ==
    /\ disk' \in Disks /\ IsFiniteSet(DOMAIN disk') /\ rows' \in SUBSET Queue!Row
    /\ before' = before /\ spoiled' \in BOOLEAN
    /\ qcommands' = qcommands /\ qfaults' \in 0 .. MaxFaults /\ crashes' \in 0 .. MaxCrashes

(* Such a step that ends the command keeps the types, ...                   *)
LEMMA EndTypes ==
    ASSUME QueueBounds, QueueTypes, Steady, NEW how, Queue!End(how),
           how \in {"done", "failed", "crashed"}
    PROVE  QueueTypes'
<1>1. cmd' = Queue!NoCommand /\ cmd' \in Plans /\ cmd'.drop = {} /\ cmd'.committed = FALSE
      /\ cmd'.moves = <<>> /\ Queue!Half' = 0
  BY NoNameType DEF Queue!End, Queue!NoCommand, Queue!Plan, Queue!Half
<1>0. cmd'.kind = "none"
  BY DEF Queue!End, Queue!NoCommand, Queue!Plan
<1>2. IsFiniteSet(cmd'.drop)
  BY <1>1, FS_EmptySet
<1>3. undo' = <<>> /\ undo' \in Seq(Steps) /\ at' = 1 /\ qpc' = "idle" /\ outcome' = how
  BY DEF Queue!End
<1>4. KindAt'
  BY <1>0, <1>1, <1>3 DEF KindAt
<1> QED BY <1>1, <1>2, <1>3, <1>4 DEF QueueTypes, Steady

(* ... one that goes on, ...                                                *)
LEMMA GotoTypes ==
    ASSUME QueueBounds, QueueTypes, Steady, NEW where, Queue!Goto(where),
           \/ where = "row" /\ qpc = "write"
           \/ where = "drop" /\ cmd.kind = "export"
           \/ where = "unlink" /\ qpc = "unrow"
    PROVE  QueueTypes'
<1>1. qpc' = where /\ cmd' = cmd /\ at' = at /\ undo' = undo /\ outcome' = outcome
        /\ Queue!Half' = Queue!Half
  BY DEF Queue!Goto, Queue!Half
<1>2. KindAt'
  BY <1>1 DEF QueueTypes, KindAt
<1> QED BY <1>1, <1>2 DEF QueueTypes, Steady

(* ... and one that turns to compensation.                                  *)
LEMMA CompensateTypes ==
    ASSUME QueueBounds, QueueTypes, NEW q, Catches(q), Queue!Compensate(q),
           qfaults' \in 0 .. MaxFaults
    PROVE  QueueTypes'
<1>1. qpc' = "undo" /\ undo' = q /\ at' = 1 /\ cmd' = cmd /\ disk' = disk /\ rows' = rows
      /\ before' = before /\ outcome' = outcome /\ qcommands' = qcommands /\ crashes' = crashes
  BY DEF Queue!Compensate
<1>2. spoiled' \in BOOLEAN
  BY DEF Queue!Compensate, QueueTypes
<1>3. at' \in 1 .. 2 * Queue!Half' + 1
  BY <1>1, HalfType DEF Queue!Half
<1>4. KindAt'
  BY <1>1 DEF QueueTypes, KindAt
<1> QED BY <1>1, <1>2, <1>3, <1>4 DEF QueueTypes, Catches

(* The failures are counted up to their bound.                              *)
LEMMA FaultType ==
    ASSUME QueueBounds, QueueTypes, Queue!Fault \/ UNCHANGED qfaults
    PROVE  qfaults' \in 0 .. MaxFaults
BY DEF QueueBounds, QueueTypes, Queue!Fault

(* A rename of a renumbering,                                               *)
LEMMA RenamingTypes ==
    ASSUME QueueBounds, QueueTypes, Queue!RenameNext
    PROVE  QueueTypes'
<1>1. qpc = "rename" /\ at \in 1 .. 2 * Queue!Half /\ Queue!Half \in Nat
  BY HalfType DEF Queue!RenameNext, QueueTypes, KindAt
<1>2. Queue!RenameAt(at).from \in DOMAIN disk /\ Queue!RenameAt(at).to \in Queue!FileName
  BY <1>1, RenameType DEF Queue!RenameNext, Queue!CanRename
<1>3. disk' \in Disks /\ IsFiniteSet(DOMAIN disk')
  BY <1>2, RenamedType, FiniteDisk DEF Queue!RenameNext, QueueTypes
<1>4. cmd' = cmd /\ Queue!Half' = Queue!Half /\ at' = at + 1
  BY DEF Queue!RenameNext, Queue!Half
<1>5. /\ qpc' = IF at = 2 * Queue!Half THEN "save" ELSE "rename"
      /\ cmd.kind \in {"renumber", "place", "inverse"} /\ cmd.moves # <<>>
  BY <1>1 DEF Queue!RenameNext, QueueTypes, KindAt
<1>6. KindAt' /\ at' \in 1 .. 2 * Queue!Half' + 1
  BY <1>1, <1>4, <1>5 DEF Queue!RenameNext, QueueTypes, KindAt
<1> QED BY <1>3, <1>4, <1>5, <1>6 DEF Queue!RenameNext, QueueTypes, Queue!counts

(* the manifest it leads to, ...                                            *)
LEMMA RowsAfterType ==
    ASSUME QueueTypes
    PROVE  Queue!RowsAfter(cmd.moves) \in SUBSET Queue!Row
<1> DEFINE M == cmd.moves
           S(r) == {k \in DOMAIN M : M[k].from = r.name}
<1>1. ASSUME NEW r \in rows
      PROVE  (IF S(r) = {} THEN r ELSE [r EXCEPT !.name = M[CHOOSE k \in S(r) : TRUE].to]) \in Queue!Row
  <2>1. CASE S(r) = {}
    BY <2>1 DEF QueueTypes
  <2>2. CASE S(r) # {}
    <3>1. (CHOOSE k \in S(r) : TRUE) \in S(r)
      BY <2>2
    <3>2. M[CHOOSE k \in S(r) : TRUE] \in QueueMoves
      BY <3>1 DEF QueueTypes, Plans
    <3>3. r \in Queue!Row /\ M[CHOOSE k \in S(r) : TRUE].to \in Queue!FileName
      BY <3>2 DEF QueueTypes, QueueMoves
    <3> QED BY <2>2, <3>3 DEF Queue!Row
  <2> QED BY <2>1, <2>2
<1>2. Queue!RowsAfter(M) = {IF S(r) = {} THEN r ELSE [r EXCEPT !.name = M[CHOOSE k \in S(r) : TRUE].to] : r \in rows}
  BY DEF Queue!RowsAfter
<1> HIDE DEF S
<1> QED BY <1>1, <1>2

(* ... its write,                                                           *)
LEMMA SaveTypes ==
    ASSUME QueueBounds, QueueTypes, Queue!SaveRenumbered
    PROVE  QueueTypes'
<1>1. qpc = "save" /\ rows' = Queue!RowsAfter(cmd.moves) /\ at' = 1
        /\ cmd.kind \in {"renumber", "place", "inverse"}
      /\ cmd.moves # <<>> /\ disk' = disk /\ before' = before /\ spoiled' = spoiled
      /\ qcommands' = qcommands /\ qfaults' = qfaults /\ crashes' = crashes
  BY DEF Queue!SaveRenumbered, QueueTypes, KindAt, Queue!counts
<1>2. Steady
  BY <1>1, RowsAfterType DEF Steady, QueueTypes
<1>3. CASE cmd.kind = "renumber"
  <2>1. Queue!End("done")
    BY <1>3 DEF Queue!SaveRenumbered
  <2> QED BY <1>2, <2>1, EndTypes
<1>4. CASE cmd.kind = "place"
  <2>1. qpc' = "write" /\ cmd' = [cmd EXCEPT !.committed = TRUE] /\ undo' = undo
          /\ outcome' = outcome
    BY <1>4 DEF Queue!SaveRenumbered
  <2>2. cmd' \in Plans /\ cmd'.moves = cmd.moves /\ cmd'.drop = cmd.drop /\ cmd'.kind = "place"
        /\ cmd'.body = cmd.body /\ cmd'.committed = TRUE
    BY <1>4, <2>1 DEF QueueTypes, Plans
  <2>3. Queue!Half' = Queue!Half /\ Queue!Half \in Nat
    BY <2>2, HalfType DEF Queue!Half
  <2>4. at' \in 1 .. 2 * Queue!Half' + 1
    BY <1>1, <2>3
  <2>5. KindAt'
    BY <1>4, <2>1, <2>2 DEF QueueTypes, KindAt
  <2> QED BY <1>1, <1>2, <2>1, <2>2, <2>4, <2>5 DEF QueueTypes, Steady
<1>5. CASE cmd.kind = "inverse"
  <2>1. qpc' = "undo" /\ undo' = Queue!Cleanup /\ cmd' = cmd /\ outcome' = outcome
    BY <1>5 DEF Queue!SaveRenumbered
  <2>2. Catches(Queue!Cleanup)
    BY CleanupType
  <2>3. at' \in 1 .. 2 * Queue!Half' + 1
    BY <1>1, <2>1, HalfType DEF Queue!Half
  <2>4. KindAt'
    BY <2>1 DEF QueueTypes, KindAt
  <2> QED BY <1>2, <2>1, <2>2, <2>3, <2>4 DEF QueueTypes, Steady, Catches
<1> QED BY <1>1, <1>3, <1>4, <1>5

(* a step that fails,                                                       *)
LEMMA FailingTypes ==
    ASSUME QueueBounds, QueueTypes, Queue!RenameFails \/ Queue!SaveFails \/ Queue!StepFails
    PROVE  QueueTypes'
<1>1. Catches(Queue!Unwind \o Queue!Cleanup) /\ Catches(Queue!Unplace \o Queue!Cleanup)
        /\ Catches(Queue!Cleanup)
  BY UnwindType, UnplaceType, CleanupType, PlainCatches, CatchesJoined
<1>2. qfaults' \in 0 .. MaxFaults
  BY FaultType DEF Queue!RenameFails, Queue!SaveFails, Queue!StepFails
<1> QED BY <1>1, <1>2, CompensateTypes DEF Queue!RenameFails, Queue!SaveFails, Queue!StepFails

(* the writes of an export or update,                                       *)
LEMMA WritingTypes ==
    ASSUME QueueBounds, QueueTypes, Queue!WriteBody \/ Queue!WriteRow \/ Queue!DropSuperseded
    PROVE  QueueTypes'
<1>1. CASE Queue!WriteBody
  <2>1. cmd.name \in Queue!FileName /\ cmd.body \in Queue!Body /\ qpc = "write"
    BY <1>1 DEF Queue!WriteBody, QueueTypes, KindAt, Plans
  <2>2. Steady
    BY <1>1, <2>1, PutType, FiniteDisk DEF Queue!WriteBody, QueueTypes, Steady, Queue!counts
  <2> QED BY <1>1, <2>1, <2>2, GotoTypes DEF Queue!WriteBody
<1>2. CASE Queue!WriteRow
  <2>1. cmd.name \in Queue!FileName /\ cmd.body \in Queue!Body /\ qpc = "row"
          /\ cmd.kind \in {"export", "place", "update"}
    BY <1>2 DEF Queue!WriteRow, QueueTypes, KindAt, Plans
  <2>2. [id |-> cmd.body.id, ver |-> cmd.body.ver, name |-> cmd.name] \in Queue!Row
          /\ cmd.body.ver \in {0, 1}
    BY <2>1 DEF Queue!Row, Queue!Body
  <2>3. \A r \in rows : r \in Queue!Row /\ [r EXCEPT !.ver = cmd.body.ver] \in Queue!Row
    BY <2>2 DEF QueueTypes, Queue!Row
  <2>4. rows' \in SUBSET Queue!Row
    BY <1>2, <2>2, <2>3 DEF Queue!WriteRow
  <2>5. Steady
    BY <1>2, <2>4 DEF Queue!WriteRow, QueueTypes, Steady, Queue!counts
  <2>6. CASE cmd.drop = {}
    BY <1>2, <2>5, <2>6, EndTypes DEF Queue!WriteRow
  <2>7. CASE cmd.drop # {}
    <3>1. cmd.kind = "export"
      BY <2>7 DEF QueueTypes, KindAt
    <3> QED BY <1>2, <2>5, <2>7, <3>1, GotoTypes DEF Queue!WriteRow
  <2> QED BY <2>6, <2>7
<1>3. CASE Queue!DropSuperseded
  <2>1. PICK m \in cmd.drop \cap DOMAIN disk :
             /\ disk' = Queue!Without(disk, m)
             /\ IF cmd.drop \cap DOMAIN disk = {m} THEN Queue!End("done") ELSE Queue!Goto("drop")
    BY <1>3 DEF Queue!DropSuperseded
  <2>2. Steady /\ cmd.kind = "export"
    BY <1>3, <2>1, WithoutType, FiniteDisk DEF Queue!DropSuperseded, QueueTypes, Steady,
       Queue!counts, KindAt
  <2> QED BY <2>1, <2>2, EndTypes, GotoTypes
<1> QED BY <1>1, <1>2, <1>3

(* the removals of a delete,                                                *)
LEMMA RemovingTypes ==
    ASSUME QueueBounds, QueueTypes, Queue!RemoveRow \/ Queue!Unlink
    PROVE  QueueTypes'
<1>1. Steady
  BY WithoutType, FiniteDisk DEF Queue!RemoveRow, Queue!Unlink, QueueTypes, Steady, Queue!counts
<1> QED BY <1>1, EndTypes, GotoTypes DEF Queue!RemoveRow, Queue!Unlink

(* the steps of compensation,                                               *)
LEMMA UndoTypes ==
    ASSUME QueueBounds, QueueTypes, Queue!UndoStep \/ Queue!UndoFails
    PROVE  QueueTypes'
<1>1. undo \in Seq(Steps) /\ undo # <<>> /\ undo' = Tail(undo) /\ qpc = "undo"
      /\ qpc' = qpc /\ cmd' = cmd /\ at' = at /\ outcome' = outcome
  BY DEF Queue!UndoStep, Queue!UndoFails, QueueTypes
<1>2. Tail(undo) \in Seq(Steps) /\ \A k \in DOMAIN Tail(undo) : k + 1 \in DOMAIN undo
        /\ Tail(undo)[k] = undo[k + 1]
  BY <1>1
<1>3. Head(undo) \in Steps
  BY <1>1
<1>4. \A k \in DOMAIN undo' : undo'[k].do = "inverse" => cmd'.committed
  BY <1>1, <1>2 DEF QueueTypes
<1>5. disk' \in Disks /\ IsFiniteSet(DOMAIN disk') /\ rows' \in SUBSET Queue!Row
  <2>1. CASE Queue!UndoFails
    BY <2>1 DEF Queue!UndoFails, QueueTypes
  <2>2. CASE Queue!UndoStep
    <3> DEFINE s == Head(undo)
    <3>1. Queue!Compensation /\ s \in Steps
      BY <1>3, <2>2 DEF Queue!UndoStep
    <3>2. CASE s.do = "rename"
      <4>1. s.from \in DOMAIN disk /\ s.to \in Queue!FileName
              /\ disk' = Queue!Renamed(disk, s.from, s.to) /\ rows' = rows
        BY <3>1, <3>2 DEF Queue!Compensation, Steps
      <4> QED BY <4>1, RenamedType, FiniteDisk DEF QueueTypes
    <3>3. CASE s.do = "put"
      <4>1. s.name \in Queue!FileName /\ s.body \in Queue!Body
              /\ disk' = Queue!Put(disk, s.name, s.body) /\ rows' = rows
        BY <3>1, <3>3 DEF Queue!Compensation, Steps
      <4> QED BY <4>1, PutType, FiniteDisk DEF QueueTypes
    <3>4. CASE s.do = "remove"
      <4>1. disk' = Queue!Without(disk, s.name) /\ rows' = rows
        BY <3>1, <3>4 DEF Queue!Compensation
      <4> QED BY <4>1, WithoutType, FiniteDisk DEF QueueTypes
    <3>5. CASE s.do = "save"
      <4>1. disk' = disk /\ rows' = before.rows
        BY <3>1, <3>5 DEF Queue!Compensation
      <4> QED BY <4>1 DEF QueueTypes
    <3>6. s.do # "inverse"
      BY <3>1 DEF Queue!Compensation
    <3>7. s.do \in {"rename", "put", "remove", "inverse", "save"}
      BY <3>1 DEF Steps
    <3> QED BY <3>2, <3>3, <3>4, <3>5, <3>6, <3>7
  <2> QED BY <2>1, <2>2
<1>6. qfaults' \in 0 .. MaxFaults /\ spoiled' \in BOOLEAN
  <2>1. CASE Queue!UndoFails
    BY <2>1, FaultType DEF Queue!UndoFails
  <2>2. CASE Queue!UndoStep
    BY <2>2 DEF Queue!UndoStep, QueueTypes, Queue!counts
  <2> QED BY <2>1, <2>2
<1>7. before' = before /\ qcommands' = qcommands /\ crashes' = crashes
  BY DEF Queue!UndoStep, Queue!UndoFails, Queue!counts
<1>8. KindAt' /\ at' \in 1 .. 2 * Queue!Half' + 1
  BY <1>1 DEF QueueTypes, KindAt, Queue!Half
<1> QED BY <1>1, <1>2, <1>4, <1>5, <1>6, <1>7, <1>8 DEF QueueTypes

(* the inverse renumbering,                                                 *)
LEMMA InverseTypes ==
    ASSUME QueueBounds, QueueTypes, Queue!StartInverse
    PROVE  QueueTypes'
<1> DEFINE N == Queue!Inverted(cmd.moves)
<1>1. cmd.moves \in Seq(QueueMoves) /\ cmd.committed /\ cmd.moves # <<>>
  <2>1. undo \in Seq(Steps) /\ undo # <<>> /\ Head(undo).do = "inverse"
    BY DEF Queue!StartInverse, QueueTypes
  <2>2. 1 \in DOMAIN undo /\ undo[1].do = "inverse"
    BY <2>1
  <2> QED BY <2>2 DEF QueueTypes, Plans
<1>2. DOMAIN cmd.moves = 1..Queue!Half /\ Queue!Half \in Nat /\ Queue!Half >= 1
  BY <1>1 DEF Queue!Half
<1>3. N = [j \in 1..Queue!Half |-> N[j]] /\ \A j \in 1..Queue!Half : N[j] \in QueueMoves
  BY <1>2, HalfType DEF Queue!Inverted, QueueMoves
<1> HIDE DEF N
<1>4. N \in Seq(QueueMoves) /\ Len(N) = Queue!Half
  BY <1>2, <1>3
<1>5. cmd' = [cmd EXCEPT !.kind = "inverse", !.moves = N] /\ qpc' = "rename" /\ at' = 1
        /\ undo' = <<>>
  BY DEF Queue!StartInverse, N
<1>6. cmd' \in Plans /\ cmd'.moves = N /\ cmd'.kind = "inverse" /\ cmd'.drop = cmd.drop
      /\ cmd'.committed = cmd.committed
  BY <1>4, <1>5 DEF QueueTypes, Plans
<1>7. Queue!Half' = Queue!Half /\ N # <<>> /\ at' <= 2 * Queue!Half'
        /\ at' \in 1 .. 2 * Queue!Half' + 1
  BY <1>2, <1>4, <1>5, <1>6 DEF Queue!Half
<1>9. cmd'.drop = {}
  BY <1>1, <1>6 DEF QueueTypes, KindAt
<1>8. KindAt'
  <2>1. qpc' = "rename" /\ cmd'.kind = "inverse" /\ cmd'.moves # <<>> /\ at' <= 2 * Queue!Half'
    BY <1>4, <1>5, <1>6, <1>7
  <2> QED BY <1>9, <2>1 DEF KindAt
<1> QED BY <1>1, <1>5, <1>6, <1>7, <1>8 DEF Queue!StartInverse, QueueTypes, Queue!counts

(* and an end or a crash keep the types.                                    *)
LEMMA StoppingTypes ==
    ASSUME QueueBounds, QueueTypes, Queue!Failed \/ Queue!Crash
    PROVE  QueueTypes'
<1>1. Steady
  BY DEF Queue!Failed, Queue!Crash, QueueBounds, QueueTypes, Steady, Queue!counts
<1> QED BY <1>1, EndTypes DEF Queue!Failed, Queue!Crash

(* Every step keeps the types of the queue.                                 *)
LEMMA QueueTypeStep ==
    ASSUME QueueBounds, QueueTypes, [Queue!Next]_(Queue!vars)
    PROVE  QueueTypes'
<1>1. CASE UNCHANGED Queue!vars
  BY <1>1 DEF Queue!vars, QueueTypes, KindAt, Queue!Half
<1>2. CASE Queue!Next
  BY <1>2, CommandTypes, RenamingTypes, SaveTypes, FailingTypes, WritingTypes, RemovingTypes,
     UndoTypes, InverseTypes, StoppingTypes DEF Queue!Next, Queue!Step
<1> QED BY <1>1, <1>2


(* Patches have names of their own, so the slug of a file tells whose it is. *)
OwnNames == \A p, q \in Patches : Slug[p] = Slug[q] => p = q

(* Each file, or row, is named for its patch, and no patch has two.          *)
Tidy(x) ==
    /\ \A m \in DOMAIN x : m.slug = Slug[x[m].id]
    /\ \A m, l \in DOMAIN x : m.slug = l.slug => m = l

TidyRows(R) ==
    /\ \A r \in R : r.name.slug = Slug[r.id]
    /\ \A r, s \in R : r.name.slug = s.name.slug => r = s

(* A directory with its files under other names, each with its slug.         *)
Keeping(x, P) == \A l \in DOMAIN x : P[l] \in Queue!FileName /\ P[l].slug = l.slug
Lay(x, P) == [m \in {P[l] : l \in DOMAIN x} |-> x[CHOOSE l \in DOMAIN x : P[l] = m]]

(* It is a directory, with every body under its new name.                   *)
LEMMA LayIs ==
    ASSUME NEW x \in Disks, Tidy(x), NEW P, Keeping(x, P)
    PROVE  /\ Lay(x, P) \in Disks /\ DOMAIN Lay(x, P) = {P[l] : l \in DOMAIN x}
           /\ \A l \in DOMAIN x : Lay(x, P)[P[l]] = x[l]
           /\ Tidy(Lay(x, P))
<1> DEFINE y == Lay(x, P)
<1>1. DOMAIN y = {P[l] : l \in DOMAIN x} /\ y = [m \in DOMAIN y |-> y[m]]
  BY DEF Lay
<1>2. \A l, m \in DOMAIN x : P[l] = P[m] => l = m
  BY DEF Keeping, Tidy
<1>3. ASSUME NEW l \in DOMAIN x PROVE y[P[l]] = x[l]
  <2>1. (CHOOSE m \in DOMAIN x : P[m] = P[l]) = l
    BY <1>2
  <2> QED BY <2>1 DEF Lay
<1> HIDE DEF y
<1>4. \A l \in DOMAIN x : x[l] \in Queue!Body /\ P[l] \in Queue!FileName /\ P[l].slug = l.slug
  BY DiskType DEF Keeping
<1>5. y \in Disks
  BY <1>1, <1>3, <1>4, DiskType
<1>6. Tidy(y)
  BY <1>1, <1>3, <1>4 DEF Tidy
<1> QED BY <1>1, <1>3, <1>5, <1>6 DEF y

(* There is one such directory.                                             *)
LEMMA LayUnique ==
    ASSUME NEW x \in Disks, Tidy(x), NEW P, Keeping(x, P), NEW y \in Disks,
           DOMAIN y = {P[l] : l \in DOMAIN x}, \A l \in DOMAIN x : y[P[l]] = x[l]
    PROVE  y = Lay(x, P)
<1> DEFINE z == Lay(x, P)
<1>1. z \in Disks /\ DOMAIN z = DOMAIN y /\ \A l \in DOMAIN x : z[P[l]] = x[l]
  BY LayIs
<1> HIDE DEF z
<1>2. \A m \in DOMAIN y : y[m] = z[m]
  BY <1>1
<1>3. y = [m \in DOMAIN y |-> y[m]] /\ z = [m \in DOMAIN y |-> z[m]]
  BY <1>1, DiskType
<1>4. y = z
  BY <1>2, <1>3
<1> QED BY <1>4 DEF z

(* Files that keep their names are where they were, ...                     *)
LEMMA LaySame ==
    ASSUME NEW x \in Disks, Tidy(x), NEW P, \A l \in DOMAIN x : P[l] = l
    PROVE  Lay(x, P) = x
<1>1. Keeping(x, P)
  BY DiskType DEF Keeping
<1>2. DOMAIN x = {P[l] : l \in DOMAIN x} /\ \A l \in DOMAIN x : x[P[l]] = x[l]
  OBVIOUS
<1> QED BY <1>1, <1>2, LayUnique

(* One file renamed.                                                         *)
LEMMA LayRename ==
    ASSUME NEW x \in Disks, Tidy(x), NEW P, Keeping(x, P), NEW Q, Keeping(x, Q),
           NEW m \in DOMAIN x, \A l \in DOMAIN x : l # m => Q[l] = P[l]
    PROVE  P[m] \in DOMAIN Lay(x, P) /\ Queue!Renamed(Lay(x, P), P[m], Q[m]) = Lay(x, Q)
<1> DEFINE y == Lay(x, P)
           z == Queue!Renamed(y, P[m], Q[m])
<1>1. y \in Disks /\ DOMAIN y = {P[l] : l \in DOMAIN x} /\ \A l \in DOMAIN x : y[P[l]] = x[l]
  BY LayIs
<1> HIDE DEF y
<1>2. P[m] \in DOMAIN y /\ Q[m] \in Queue!FileName
  BY <1>1 DEF Keeping
<1>3. z \in Disks
  BY <1>1, <1>2, RenamedType
<1>4. /\ DOMAIN z = (DOMAIN y \ {P[m]}) \cup {Q[m]} /\ z[Q[m]] = y[P[m]]
      /\ \A l \in DOMAIN y \ {P[m], Q[m]} : z[l] = y[l]
  BY DEF Queue!Renamed, Queue!Put, Queue!Without, Queue!Restrict
<1>5. \A l \in DOMAIN x : l # m => P[l] # P[m] /\ Q[l] # Q[m] /\ P[l] # Q[m]
  BY DEF Keeping, Tidy
<1> HIDE DEF z
<1>6. DOMAIN z = {Q[l] : l \in DOMAIN x}
  BY <1>1, <1>4, <1>5
<1>7. \A l \in DOMAIN x : z[Q[l]] = x[l]
  BY <1>1, <1>4, <1>5
<1>8. z = Lay(x, Q)
  BY <1>3, <1>6, <1>7, LayUnique
<1> QED BY <1>2, <1>8 DEF y, z

(* ... files named back are there again, ...                                *)
LEMMA LayBack ==
    ASSUME NEW x \in Disks, Tidy(x), NEW P, Keeping(x, P), NEW Q, Keeping(Lay(x, P), Q),
           \A l \in DOMAIN x : Q[P[l]] = l
    PROVE  Lay(Lay(x, P), Q) = x
<1> DEFINE y == Lay(x, P)
<1>1. y \in Disks /\ Tidy(y) /\ DOMAIN y = {P[l] : l \in DOMAIN x}
        /\ \A l \in DOMAIN x : y[P[l]] = x[l]
  BY LayIs
<1> HIDE DEF y
<1>2. DOMAIN x = {Q[m] : m \in DOMAIN y} /\ \A m \in DOMAIN y : x[Q[m]] = y[m]
  BY <1>1
<1>3. x = Lay(y, Q)
  <2>1. Keeping(y, Q)
    BY DEF y
  <2>2. y \in Disks /\ Tidy(y) /\ x \in Disks
    BY <1>1
  <2>3. DOMAIN x = {Q[l] : l \in DOMAIN y}
    BY <1>2
  <2>4. \A l \in DOMAIN y : x[Q[l]] = y[l]
    BY <1>2
  <2> QED BY <2>1, <2>2, <2>3, <2>4, LayUnique
<1> QED BY <1>3 DEF y

(* ... and under other names the bodies are the same.                       *)
LEMMA LayBodies ==
    ASSUME NEW x \in Disks, Tidy(x), NEW P, Keeping(x, P), NEW p
    PROVE  Queue!HasBody(x, p) <=> Queue!HasBody(Lay(x, P), p)
<1>1. DOMAIN Lay(x, P) = {P[l] : l \in DOMAIN x} /\ \A l \in DOMAIN x : Lay(x, P)[P[l]] = x[l]
  BY LayIs
<1> QED BY <1>1 DEF Queue!HasBody


(* Renames of files each of its own, that keep the slug.                     *)
Apart(M) ==
    /\ M \in Seq(QueueMoves)
    /\ \A k \in DOMAIN M : M[k].to.slug = M[k].from.slug
    /\ \A j, k \in DOMAIN M : M[j].from.slug = M[k].from.slug => j = k

(* Where the files of a directory are while those of the moves in A are     *)
(* staged, by the run c, and those of the moves in B are in place.           *)
Aside(m, c) == [m EXCEPT !.run = c]
Where(x, M, c, A, B) ==
    [l \in DOMAIN x |->
        IF \E k \in A : M[k].from = l THEN Aside(l, c)
        ELSE IF \E k \in B : M[k].from = l THEN M[CHOOSE k \in B : M[k].from = l].to
        ELSE l]

(* The runs that give staging names.                                        *)
Runs == 0 .. MaxCommands

(* A staging name is a file name with the slug of the file.                 *)
LEMMA AsideType ==
    ASSUME QueueBounds, NEW m \in Queue!FileName, NEW c \in Runs
    PROVE  Aside(m, c) \in Queue!FileName /\ Aside(m, c).slug = m.slug
BY DEF QueueBounds, Runs, Aside, Queue!FileName

(* No two such renames are of one file.                                     *)
LEMMA ApartIs ==
    ASSUME NEW M, Apart(M)
    PROVE  /\ \A k \in DOMAIN M : M[k].from \in Queue!FileName /\ M[k].to \in Queue!FileName
           /\ \A j, k \in DOMAIN M : M[j].from = M[k].from => j = k
           /\ DOMAIN M = 1..Len(M) /\ Len(M) \in Nat
<1>1. M \in Seq(QueueMoves) /\ \A k \in DOMAIN M : M[k] \in QueueMoves
  BY DEF Apart
<1> QED BY <1>1 DEF Apart, QueueMoves

(* The moves in A and those in B.                                            *)
Halves(M, A, B) == Apart(M) /\ A \subseteq DOMAIN M /\ B \subseteq DOMAIN M /\ A \cap B = {}

(* The new name of a file is staged, final or its own.                      *)
LEMMA WhereIs ==
    ASSUME NEW x, NEW M, NEW c, NEW A, NEW B, Halves(M, A, B), NEW l \in DOMAIN x
    PROVE  /\ \A k \in A : M[k].from = l => Where(x, M, c, A, B)[l] = Aside(l, c)
           /\ \A k \in B : M[k].from = l => Where(x, M, c, A, B)[l] = M[k].to
           /\ (\A k \in A \cup B : M[k].from # l) => Where(x, M, c, A, B)[l] = l
<1>0. \A j, k \in DOMAIN M : M[j].from = M[k].from => j = k
  BY ApartIs DEF Halves
<1>1. ASSUME NEW k \in A, M[k].from = l
      PROVE  Where(x, M, c, A, B)[l] = Aside(l, c)
  BY <1>1 DEF Where
<1>2. ASSUME NEW k \in B, M[k].from = l
      PROVE  Where(x, M, c, A, B)[l] = M[k].to
  <2>1. ~(\E j \in A : M[j].from = l)
    BY <1>0, <1>2 DEF Halves
  <2>2. (CHOOSE j \in B : M[j].from = l) = k
    BY <1>0, <1>2 DEF Halves
  <2> QED BY <1>2, <2>1, <2>2 DEF Where
<1>3. ASSUME \A k \in A \cup B : M[k].from # l
      PROVE  Where(x, M, c, A, B)[l] = l
  BY <1>3 DEF Where
<1> QED BY <1>1, <1>2, <1>3

(* It has the slug of the file.                                             *)
LEMMA WhereKeeps ==
    ASSUME QueueBounds, NEW x \in Disks, NEW M, NEW c \in Runs, NEW A, NEW B, Halves(M, A, B)
    PROVE  Keeping(x, Where(x, M, c, A, B))
<1> DEFINE W == Where(x, M, c, A, B)
<1>1. SUFFICES ASSUME NEW l \in DOMAIN x PROVE W[l] \in Queue!FileName /\ W[l].slug = l.slug
  BY DEF Keeping
<1>2. l \in Queue!FileName
  BY DiskType
<1>3. CASE \E k \in A : M[k].from = l
  <2>1. W[l] = Aside(l, c)
    BY <1>3, WhereIs
  <2> QED BY <1>2, <2>1, AsideType
<1>4. CASE \E k \in B : M[k].from = l
  <2>1. PICK k \in B : M[k].from = l
    BY <1>4
  <2>2. W[l] = M[k].to
    BY <2>1, WhereIs
  <2>3. M[k].to \in Queue!FileName /\ M[k].to.slug = M[k].from.slug
    BY ApartIs DEF Apart, Halves
  <2> QED BY <2>1, <2>2, <2>3
<1>5. CASE \A k \in A \cup B : M[k].from # l
  <2>1. W[l] = l
    BY <1>5, WhereIs
  <2> QED BY <1>2, <2>1
<1> QED BY <1>3, <1>4, <1>5

(* One move takes its file on, and leaves the others where they are.         *)
LEMMA WhereStep ==
    ASSUME QueueBounds, NEW x \in Disks, Tidy(x), NEW M, NEW c \in Runs,
           NEW A, NEW B, Halves(M, A, B), NEW C, NEW D, Halves(M, C, D),
           NEW j \in DOMAIN M, M[j].from \in DOMAIN x,
           A \ {j} = C \ {j}, B \ {j} = D \ {j}
    PROVE  LET P == Where(x, M, c, A, B)
               Q == Where(x, M, c, C, D)
           IN  /\ P[M[j].from] \in DOMAIN Lay(x, P)
               /\ Queue!Renamed(Lay(x, P), P[M[j].from], Q[M[j].from]) = Lay(x, Q)
<1> DEFINE P == Where(x, M, c, A, B)
           Q == Where(x, M, c, C, D)
<1>1. Keeping(x, P) /\ Keeping(x, Q)
  BY WhereKeeps
<1>2. ASSUME NEW l \in DOMAIN x, l # M[j].from PROVE Q[l] = P[l]
  <2>1. CASE \E k \in A : M[k].from = l
    <3>1. PICK k \in A : M[k].from = l
      BY <2>1
    <3>2. k \in C
      BY <1>2, <3>1
    <3>3. P[l] = Aside(l, c)
      BY <3>1, WhereIs
    <3>4. Q[l] = Aside(l, c)
      BY <3>1, <3>2, WhereIs
    <3> QED BY <3>3, <3>4
  <2>2. CASE \E k \in B : M[k].from = l
    <3>1. PICK k \in B : M[k].from = l
      BY <2>2
    <3>2. k \in D
      BY <1>2, <3>1
    <3>3. P[l] = M[k].to
      BY <3>1, WhereIs
    <3>4. Q[l] = M[k].to
      BY <3>1, <3>2, WhereIs
    <3> QED BY <3>3, <3>4
  <2>3. CASE \A k \in A \cup B : M[k].from # l
    <3>1. \A k \in C \cup D : M[k].from # l
      BY <1>2, <2>3
    <3>2. P[l] = l
      BY <2>3, WhereIs
    <3>3. Q[l] = l
      BY <3>1, WhereIs
    <3> QED BY <3>2, <3>3
  <2> QED BY <2>1, <2>2, <2>3
<1> HIDE DEF P, Q
<1>3. P[M[j].from] \in DOMAIN Lay(x, P)
        /\ Queue!Renamed(Lay(x, P), P[M[j].from], Q[M[j].from]) = Lay(x, Q)
  BY <1>1, <1>2, LayRename
<1> QED BY <1>3 DEF P, Q

(* All moves in place, none staged, ...                                     *)
LEMMA AllHalves ==
    ASSUME NEW M, Apart(M)
    PROVE  Halves(M, {}, DOMAIN M)
BY DEF Halves

(* The directory once all moves are made, and made back.                     *)
MovedBy(x, M, c) == Lay(x, Where(x, M, c, {}, DOMAIN M))

(* ... and before any of them nothing is moved.                             *)
LEMMA UnmovedIs ==
    ASSUME NEW x \in Disks, Tidy(x), NEW M, NEW c
    PROVE  Lay(x, Where(x, M, c, {}, {})) = x
BY LaySame DEF Where

(* After all of them the directory has the bodies it had.                   *)
LEMMA MovedIs ==
    ASSUME QueueBounds, NEW x \in Disks, Tidy(x), NEW M, Apart(M), NEW c \in Runs
    PROVE  /\ MovedBy(x, M, c) \in Disks /\ Tidy(MovedBy(x, M, c))
           /\ \A p : Queue!HasBody(x, p) <=> Queue!HasBody(MovedBy(x, M, c), p)
           /\ DOMAIN MovedBy(x, M, c) = {Where(x, M, c, {}, DOMAIN M)[l] : l \in DOMAIN x}
           /\ \A l \in DOMAIN x : MovedBy(x, M, c)[Where(x, M, c, {}, DOMAIN M)[l]] = x[l]
           /\ M = <<>> => MovedBy(x, M, c) = x
<1> DEFINE W == Where(x, M, c, {}, DOMAIN M)
<1>1. Keeping(x, W)
  BY WhereKeeps, AllHalves
<1>2. M = <<>> => MovedBy(x, M, c) = x
  BY UnmovedIs DEF MovedBy
<1> HIDE DEF W
<1>3. /\ Lay(x, W) \in Disks /\ Tidy(Lay(x, W))
           /\ \A p : Queue!HasBody(x, p) <=> Queue!HasBody(Lay(x, W), p)
      /\ DOMAIN Lay(x, W) = {W[l] : l \in DOMAIN x} /\ \A l \in DOMAIN x : Lay(x, W)[W[l]] = x[l]
  BY <1>1, LayIs, LayBodies
<1> QED BY <1>2, <1>3 DEF W, MovedBy

(* The inverse moves, and their inverses.                                   *)
LEMMA InvertedIs ==
    ASSUME NEW M, Apart(M)
    PROVE  /\ Apart(Queue!Inverted(M)) /\ DOMAIN Queue!Inverted(M) = DOMAIN M
                /\ Len(Queue!Inverted(M)) = Len(M)
           /\ \A k \in DOMAIN M : Queue!Inverted(M)[k].from = M[k].to
                                    /\ Queue!Inverted(M)[k].to = M[k].from
           /\ Queue!Inverted(Queue!Inverted(M)) = M
<1> DEFINE N == Queue!Inverted(M)
<1>1. /\ DOMAIN M = 1..Len(M) /\ Len(M) \in Nat
      /\ \A k \in DOMAIN M : M[k] \in QueueMoves /\ M[k].from \in Queue!FileName
                               /\ M[k].to \in Queue!FileName
  BY ApartIs DEF Apart
<1>2. /\ N = [k \in 1..Len(M) |-> N[k]]
           /\ \A k \in DOMAIN M : N[k] = [from |-> M[k].to, to |-> M[k].from]
  BY <1>1 DEF Queue!Inverted
<1>3. Queue!Inverted(N) = [k \in 1..Len(M) |-> [from |-> N[k].to, to |-> N[k].from]]
  BY <1>2 DEF Queue!Inverted
<1> HIDE DEF N
<1>4. \A k \in DOMAIN M : N[k] \in QueueMoves /\ N[k].from = M[k].to /\ N[k].to = M[k].from
  BY <1>1, <1>2 DEF QueueMoves
<1>5. N \in Seq(QueueMoves) /\ DOMAIN N = DOMAIN M /\ Len(N) = Len(M)
  BY <1>1, <1>2, <1>4
<1>6. Apart(N)
  BY <1>4, <1>5 DEF Apart
<1>7. \A k \in DOMAIN M : [from |-> N[k].to, to |-> N[k].from] = M[k]
  BY <1>1, <1>4 DEF QueueMoves
<1>8. Queue!Inverted(N) = M
  <2>1. M = [k \in 1..Len(M) |-> M[k]]
    BY <1>1 DEF Apart
  <2> QED BY <1>1, <1>3, <1>7, <2>1
<1> QED BY <1>4, <1>5, <1>6, <1>8 DEF N

(* They lead back to the directory the moves started from.                  *)
LEMMA MovedBack ==
    ASSUME QueueBounds, NEW x \in Disks, Tidy(x), NEW M, Apart(M), NEW c \in Runs,
           \A k \in DOMAIN M : M[k].from \in DOMAIN x
    PROVE  MovedBy(MovedBy(x, M, c), Queue!Inverted(M), c) = x
<1> DEFINE P == Where(x, M, c, {}, DOMAIN M)
           y == MovedBy(x, M, c)
           N == Queue!Inverted(M)
           Q == Where(y, N, c, {}, DOMAIN N)
<1>1. y \in Disks /\ Tidy(y) /\ DOMAIN y = {P[l] : l \in DOMAIN x} /\ y = Lay(x, P)
  <2>1. y = Lay(x, P)
    BY DEF MovedBy
  <2>2. Keeping(x, P)
    BY WhereKeeps, AllHalves
  <2> HIDE DEF P, y
  <2> QED BY <2>1, <2>2, LayIs
<1>2. Apart(N) /\ DOMAIN N = DOMAIN M /\ \A k \in DOMAIN M : N[k].from = M[k].to
        /\ N[k].to = M[k].from
  BY InvertedIs
<1>0. Halves(M, {}, DOMAIN M) /\ Halves(N, {}, DOMAIN N)
  BY <1>2, AllHalves
<1>3. Keeping(x, P)
  BY <1>0, WhereKeeps
<1>4. Keeping(y, Q)
  <2> HIDE DEF y, N
  <2> QED BY <1>0, <1>1, <1>2, WhereKeeps
<1>5. ASSUME NEW l \in DOMAIN x PROVE Q[P[l]] = l
  <2>0. P[l] \in DOMAIN y
    BY <1>1
  <2>1. CASE \E k \in DOMAIN M : M[k].from = l
    <3>1. PICK k \in DOMAIN M : M[k].from = l
      BY <2>1
    <3>2. P[l] = M[k].to
      BY <1>0, <3>1, WhereIs
    <3>3. N[k].from = P[l] /\ N[k].to = l /\ k \in DOMAIN N
      BY <1>2, <3>1, <3>2
    <3> HIDE DEF y, N, P
    <3> QED BY <1>0, <2>0, <3>3, WhereIs
  <2>2. CASE \A k \in DOMAIN M : M[k].from # l
    <3>1. P[l] = l
      BY <1>0, <2>2, WhereIs
    <3>2. \A k \in DOMAIN M : M[k].to # l
      BY <2>2 DEF Apart, Tidy
    <3>3. \A k \in DOMAIN N : N[k].from # l
      BY <1>2, <3>2
    <3> HIDE DEF y, N, P
    <3> QED BY <1>0, <2>0, <3>1, <3>3, WhereIs
  <2> QED BY <2>1, <2>2
<1> HIDE DEF P, y, N, Q
<1>6. Lay(Lay(x, P), Q) = x
  BY <1>1, <1>3, <1>4, <1>5, LayBack
<1> QED BY <1>1, <1>6 DEF P, y, N, Q, MovedBy


(* A directory that has kept what the rows list, and the runs of undo steps  *)
(* through such directories.                                                 *)
Fine(x, b, R) ==
    /\ x \in Disks /\ Tidy(x)
    /\ \A r \in R : Queue!HasBody(b, r.id) => Queue!HasBody(x, r.id)

(* One step of compensation, from one directory to the next.                *)
Took(s, x, y) ==
    \/ s.do = "rename" /\ s.from \in DOMAIN x /\ y = Queue!Renamed(x, s.from, s.to)
    \/ s.do = "put" /\ y = Queue!Put(x, s.name, s.body)
    \/ s.do = "remove" /\ y = Queue!Without(x, s.name)

(* The directories that steps pass, all of them fine, ...                   *)
Trace(w, D, b, R) ==
    /\ \A k \in 0..Len(w) : Fine(D[k], b, R)
    /\ \A k \in 1..Len(w) : Took(w[k], D[k - 1], D[k])

(* ... from a first one to a last one.                                      *)
RunsTo(w, x, y, b, R) ==
    /\ w \in Seq(Steps)
    /\ \E D \in [0..Len(w) -> Disks] : D[0] = x /\ D[Len(w)] = y /\ Trace(w, D, b, R)

(* No steps stay, ...                                                       *)
LEMMA RunNone ==
    ASSUME NEW x, NEW b, NEW R, Fine(x, b, R)
    PROVE  RunsTo(<<>>, x, x, b, R)
<1> DEFINE D == [k \in 0..0 |-> x]
<1>1. D \in [0..0 -> Disks] /\ D[0] = x
  BY DEF Fine
<1>2. Len(<<>>) = 0 /\ <<>> \in Seq(Steps)
  OBVIOUS
<1>3. Trace(<<>>, D, b, R)
  BY <1>2 DEF Trace
<1> QED BY <1>1, <1>2, <1>3 DEF RunsTo

(* ... one step is a run of its own, ...                                    *)
LEMMA RunOne ==
    ASSUME NEW s \in Steps, NEW x, NEW y, NEW b, NEW R, Fine(x, b, R), Fine(y, b, R), Took(s, x, y)
    PROVE  RunsTo(<<s>>, x, y, b, R)
<1> DEFINE D == [k \in 0..1 |-> IF k = 0 THEN x ELSE y]
<1>1. D \in [0..1 -> Disks] /\ D[0] = x /\ D[1] = y
  BY DEF Fine
<1>2. Len(<<s>>) = 1 /\ <<s>> \in Seq(Steps) /\ <<s>>[1] = s
  OBVIOUS
<1> HIDE DEF D
<1>3. Trace(<<s>>, D, b, R)
  BY <1>1, <1>2 DEF Trace
<1> QED BY <1>1, <1>2, <1>3 DEF RunsTo

(* ... and a run goes on where another ends.                                *)
LEMMA RunJoined ==
    ASSUME NEW u, NEW v, NEW x, NEW y, NEW z, NEW b, NEW R,
           RunsTo(u, x, y, b, R), RunsTo(v, y, z, b, R)
    PROVE  RunsTo(u \o v, x, z, b, R)
<1> DEFINE N == Len(u)
           K == Len(v)
           w == u \o v
<1>1. u \in Seq(Steps) /\ v \in Seq(Steps) /\ N \in Nat /\ K \in Nat
  BY DEF RunsTo
<1>2. /\ w \in Seq(Steps) /\ Len(w) = N + K
      /\ \A k \in 1..N : w[k] = u[k]
      /\ \A k \in 1..K : w[N + k] = v[k]
  BY <1>1
<1>3. PICK D \in [0..N -> Disks] : D[0] = x /\ D[N] = y /\ Trace(u, D, b, R)
  BY DEF RunsTo
<1>4. PICK E \in [0..K -> Disks] : E[0] = y /\ E[K] = z /\ Trace(v, E, b, R)
  BY DEF RunsTo
<1> DEFINE F == [k \in 0..N + K |-> IF k <= N THEN D[k] ELSE E[k - N]]
<1> HIDE DEF N, K, w
<1>5. F \in [0..N + K -> Disks] /\ F[0] = x
  BY <1>1, <1>3
<1>6. (\A k \in 0..N : F[k] = D[k]) /\ (\A k \in 0..K : F[N + k] = E[k])
  <2>1. \A k \in 0..N : F[k] = D[k]
    BY <1>1
  <2>2. ASSUME NEW k \in 0..K PROVE F[N + k] = E[k]
    <3>1. N + k \in 0..N + K /\ N + k - N = k
      BY <1>1
    <3>2. CASE k = 0
      BY <1>1, <1>3, <1>4, <2>1, <3>2
    <3>3. CASE k # 0
      <4>1. \A m \in 0..N + K : ~(m <= N) => F[m] = E[m - N]
        OBVIOUS
      <4> DEFINE l == N + k
      <4>2. l \in 0..N + K /\ ~(l <= N) /\ l - N = k
        BY <1>1, <3>3
      <4> HIDE DEF F, l
      <4>3. F[l] = E[l - N]
        BY <4>1, <4>2
      <4>4. F[l] = E[k]
        BY <4>2, <4>3
      <4> QED BY <4>4 DEF l
    <3> QED BY <3>2, <3>3
  <2> QED BY <2>1, <2>2
<1>7. F[N + K] = z
  BY <1>1, <1>4, <1>6
<1> HIDE DEF F
<1>8. ASSUME NEW k \in 0..Len(w) PROVE Fine(F[k], b, R)
  <2>1. CASE k <= N
    BY <1>1, <1>2, <1>3, <1>6, <2>1 DEF Trace, N
  <2>2. CASE ~(k <= N)
    <3>1. k - N \in 0..K /\ k = N + (k - N)
      BY <1>1, <1>2, <2>2
    <3>2. F[k] = E[k - N]
      BY <1>6, <3>1
    <3> QED BY <1>4, <3>1, <3>2 DEF Trace, K
  <2> QED BY <2>1, <2>2
<1>9. ASSUME NEW k \in 1..Len(w) PROVE Took(w[k], F[k - 1], F[k])
  <2>1. CASE k <= N
    <3>1. k \in 1..N /\ k \in 0..N /\ k - 1 \in 0..N
      BY <1>1, <2>1
    <3>2. w[k] = u[k] /\ F[k] = D[k] /\ F[k - 1] = D[k - 1]
      BY <1>2, <1>6, <3>1
    <3> QED BY <1>3, <3>1, <3>2 DEF Trace, N
  <2>2. CASE ~(k <= N)
    <3>1. k - N \in 1..K /\ k - N \in 0..K /\ k - N - 1 \in 0..K /\ k = N + (k - N)
            /\ k - 1 = N + (k - N - 1)
      BY <1>1, <1>2, <2>2
    <3>2. w[k] = v[k - N] /\ F[k] = E[k - N] /\ F[k - 1] = E[k - N - 1]
      BY <1>2, <1>6, <3>1
    <3> QED BY <1>4, <3>1, <3>2 DEF Trace, K
  <2> QED BY <2>1, <2>2
<1>10. Trace(w, F, b, R)
  BY <1>8, <1>9 DEF Trace
<1> QED BY <1>2, <1>5, <1>7, <1>10 DEF RunsTo, w

(* Both ends of a run are fine.                                             *)
LEMMA RunFine ==
    ASSUME NEW w, NEW x, NEW y, NEW b, NEW R, RunsTo(w, x, y, b, R)
    PROVE  /\ Fine(x, b, R) /\ Fine(y, b, R) /\ w \in Seq(Steps)
           /\ w = <<>> => x = y
<1>1. w \in Seq(Steps) /\ Len(w) \in Nat
  BY DEF RunsTo
<1>2. PICK D \in [0..Len(w) -> Disks] : D[0] = x /\ D[Len(w)] = y /\ Trace(w, D, b, R)
  BY DEF RunsTo
<1>3. 0 \in 0..Len(w) /\ Len(w) \in 0..Len(w)
  BY <1>1
<1>4. Fine(x, b, R) /\ Fine(y, b, R)
  BY <1>2, <1>3 DEF Trace
<1>5. w = <<>> => Len(w) = 0
  OBVIOUS
<1> QED BY <1>1, <1>2, <1>4, <1>5

(* A run takes its first step and is a run still, ...                       *)
LEMMA RunHead ==
    ASSUME NEW w, NEW x, NEW y, NEW b, NEW R, RunsTo(w, x, y, b, R), w # <<>>
    PROVE  \E z : Took(w[1], x, z) /\ RunsTo(Tail(w), z, y, b, R)
<1> DEFINE N == Len(w)
           v == Tail(w)
<1>1. w \in Seq(Steps) /\ N \in Nat /\ N >= 1
  BY DEF RunsTo
<1>2. v \in Seq(Steps) /\ Len(v) = N - 1 /\ \A k \in 1..N - 1 : v[k] = w[k + 1]
  BY <1>1
<1>3. PICK D \in [0..N -> Disks] : D[0] = x /\ D[N] = y /\ Trace(w, D, b, R)
  BY DEF RunsTo
<1> DEFINE E == [k \in 0..N - 1 |-> D[k + 1]]
<1> HIDE DEF N, v
<1>4. E \in [0..N - 1 -> Disks] /\ E[0] = D[1] /\ E[N - 1] = y
        /\ \A k \in 0..N - 1 : E[k] = D[k + 1]
  BY <1>1, <1>3
<1> HIDE DEF E
<1>5. ASSUME NEW k \in 0..N - 1 PROVE Fine(E[k], b, R)
  <2>1. k + 1 \in 0..N
    BY <1>1
  <2> QED BY <1>3, <1>4, <2>1 DEF Trace, N
<1>6. ASSUME NEW k \in 1..N - 1 PROVE Took(v[k], E[k - 1], E[k])
  <2>1. k + 1 \in 1..N /\ k - 1 \in 0..N - 1 /\ k \in 0..N - 1 /\ k + 1 - 1 = k /\ k - 1 + 1 = k
    BY <1>1
  <2>2. Took(w[k + 1], D[k + 1 - 1], D[k + 1])
    BY <1>3, <2>1 DEF Trace, N
  <2>3. v[k] = w[k + 1] /\ E[k] = D[k + 1] /\ E[k - 1] = D[k]
    BY <1>2, <1>4, <2>1
  <2> QED BY <2>1, <2>2, <2>3
<1>7. Trace(v, E, b, R)
  BY <1>2, <1>5, <1>6 DEF Trace
<1>8. RunsTo(v, D[1], y, b, R)
  BY <1>2, <1>4, <1>7 DEF RunsTo
<1>9. Took(w[1], x, D[1])
  <2>1. 1 \in 1..N /\ 1 - 1 = 0
    BY <1>1
  <2> QED BY <1>3, <2>1 DEF Trace, N
<1> QED BY <1>8, <1>9 DEF v

(* ... and a step leads to one directory.                                   *)
LEMMA TookOne ==
    ASSUME NEW s, NEW x, NEW y, NEW z, Took(s, x, y), Took(s, x, z)
    PROVE  y = z
BY DEF Took


(* Renames that take the files one by one from where A[0] and B[0] say to    *)
(* where the last of them say.                                               *)
Sweeping(x, M, c, w, A, B, o) ==
    /\ w \in Seq(Steps)
    /\ \A k \in 0..Len(w) : Halves(M, A[k], B[k])
    /\ \A k \in 1..Len(w) :
         /\ o[k] \in DOMAIN M /\ M[o[k]].from \in DOMAIN x
         /\ A[k - 1] \ {o[k]} = A[k] \ {o[k]} /\ B[k - 1] \ {o[k]} = B[k] \ {o[k]}
         /\ w[k] = Queue!Back(Where(x, M, c, A[k - 1], B[k - 1])[M[o[k]].from],
                        Where(x, M, c, A[k], B[k])[M[o[k]].from])

(* Files under other names keep every body.                                 *)
LEMMA LaidFine ==
    ASSUME QueueBounds, NEW x \in Disks, Tidy(x), NEW M, NEW c \in Runs,
           NEW A, NEW B, Halves(M, A, B), NEW R
    PROVE  Fine(Lay(x, Where(x, M, c, A, B)), x, R)
<1> DEFINE P == Where(x, M, c, A, B)
<1>1. Keeping(x, P)
  BY WhereKeeps
<1> HIDE DEF P
<1>2. Lay(x, P) \in Disks /\ Tidy(Lay(x, P))
  BY <1>1, LayIs
<1>3. \A p : Queue!HasBody(x, p) <=> Queue!HasBody(Lay(x, P), p)
  BY <1>1, LayBodies
<1>4. Fine(Lay(x, P), x, R)
  BY <1>2, <1>3 DEF Fine
<1> QED BY <1>4 DEF P

(* Such renames are a run.                                                  *)
LEMMA SweepRuns ==
    ASSUME QueueBounds, NEW x \in Disks, Tidy(x), NEW M, NEW c \in Runs,
           NEW w, NEW A, NEW B, NEW o, Sweeping(x, M, c, w, A, B, o), NEW R
    PROVE  RunsTo(w, Lay(x, Where(x, M, c, A[0], B[0])),
                  Lay(x, Where(x, M, c, A[Len(w)], B[Len(w)])), x, R)
<1> DEFINE D == [k \in 0..Len(w) |-> Lay(x, Where(x, M, c, A[k], B[k]))]
<1>1. w \in Seq(Steps) /\ Len(w) \in Nat
  BY DEF Sweeping
<1>2. \A k \in 0..Len(w) : D[k] = Lay(x, Where(x, M, c, A[k], B[k]))
  OBVIOUS
<1>3. ASSUME NEW k \in 0..Len(w) PROVE Fine(D[k], x, R)
  <2>1. Halves(M, A[k], B[k])
    BY DEF Sweeping
  <2>2. Fine(Lay(x, Where(x, M, c, A[k], B[k])), x, R)
    BY <2>1, LaidFine
  <2> QED BY <1>2, <2>2
<1>4. D \in [0..Len(w) -> Disks]
  <2>1. \A k \in 0..Len(w) : D[k] \in Disks
    BY <1>3 DEF Fine
  <2>2. D = [k \in 0..Len(w) |-> D[k]]
    OBVIOUS
  <2> HIDE DEF D
  <2> QED BY <2>1, <2>2
<1> HIDE DEF D
<1>5. ASSUME NEW k \in 1..Len(w) PROVE Took(w[k], D[k - 1], D[k])
  <2> DEFINE m == M[o[k]].from
             P == Where(x, M, c, A[k - 1], B[k - 1])
             Q == Where(x, M, c, A[k], B[k])
  <2>1. k \in 0..Len(w) /\ k - 1 \in 0..Len(w)
    BY <1>1
  <2>2. Halves(M, A[k - 1], B[k - 1]) /\ Halves(M, A[k], B[k])
    BY <2>1 DEF Sweeping
  <2>3. /\ o[k] \in DOMAIN M /\ m \in DOMAIN x
        /\ A[k - 1] \ {o[k]} = A[k] \ {o[k]} /\ B[k - 1] \ {o[k]} = B[k] \ {o[k]}
        /\ w[k] = Queue!Back(P[m], Q[m])
    BY DEF Sweeping
  <2>4. P[m] \in DOMAIN Lay(x, P) /\ Queue!Renamed(Lay(x, P), P[m], Q[m]) = Lay(x, Q)
    BY <2>2, <2>3, WhereStep
  <2>5. D[k - 1] = Lay(x, P) /\ D[k] = Lay(x, Q)
    BY <1>2, <2>1
  <2> HIDE DEF m, P, Q
  <2>6. w[k].do = "rename" /\ w[k].from = P[m] /\ w[k].to = Q[m]
    BY <2>3 DEF Queue!Back
  <2> QED BY <2>4, <2>5, <2>6 DEF Took
<1>6. Trace(w, D, x, R)
  BY <1>3, <1>5 DEF Trace
<1>7. 0 \in 0..Len(w) /\ Len(w) \in 0..Len(w)
  BY <1>1
<1>8. /\ D[0] = Lay(x, Where(x, M, c, A[0], B[0]))
      /\ D[Len(w)] = Lay(x, Where(x, M, c, A[Len(w)], B[Len(w)]))
  BY <1>2, <1>7
<1> QED BY <1>1, <1>4, <1>6, <1>8 DEF RunsTo

(* The staging name of the model, ...                                       *)
LEMMA StagingIs ==
    ASSUME NEW m
    PROVE  Queue!Staging(m) = Aside(m, qcommands)
BY DEF Queue!Staging, Aside

(* ... unique to the command that runs.                                     *)
LEMMA QueueRun ==
    ASSUME QueueTypes
    PROVE  qcommands \in Runs
BY DEF QueueTypes, Runs

(* The staged files put back.                                                *)
LEMMA UnstageRuns ==
    ASSUME QueueBounds, QueueTypes, NEW x \in Disks, Tidy(x), Apart(cmd.moves),
           NEW N \in 0..Queue!Half,
           \A k \in 1..N : cmd.moves[k].from \in DOMAIN x, NEW R
    PROVE  RunsTo(Queue!BackFrom(1, N), Lay(x, Where(x, cmd.moves, qcommands, 1..N, {})), x, x, R)
<1> DEFINE M == cmd.moves
           w == Queue!BackFrom(1, N)
           A == [k \in 0..N |-> k + 1 .. N]
           B == [k \in 0..N |-> {}]
           o == [k \in 1..N |-> k]
<1>1. Queue!Half \in Nat /\ N \in Nat /\ N <= Queue!Half /\ DOMAIN M = 1..Queue!Half
        /\ qcommands \in Runs
  BY HalfType, QueueRun DEF Queue!Half, QueueTypes, Plans
<1>2. w \in Seq(Steps)
  <2>1. 1 \in 1 .. 2 * Queue!Half + 1 /\ N \in 0 .. 2 * Queue!Half
    BY <1>1
  <2> QED BY <2>1, BackFromType DEF QueuePlain
<1>3. Len(w) = N
  <2>1. w = [k \in 1 .. N + 1 - 1 |-> w[k]]
    BY DEF Queue!BackFrom
  <2>2. DOMAIN w = 1..N
    BY <1>1, <2>1
  <2> HIDE DEF w
  <2> QED BY <1>1, <1>2, <2>2
<1>4. ASSUME NEW k \in 1..N PROVE w[k] = Queue!Back(Aside(M[k].from, qcommands), M[k].from)
  <2>1. w[k] = Queue!Back(Queue!RenameAt(1 - 1 + k).to, Queue!RenameAt(1 - 1 + k).from)
    BY <1>1 DEF Queue!BackFrom
  <2>2. 1 - 1 + k = k /\ k <= Queue!Half
    BY <1>1
  <2>3. Queue!RenameAt(k) = [from |-> M[k].from, to |-> Queue!Staging(M[k].from)]
    BY <2>2 DEF Queue!RenameAt
  <2> QED BY <2>1, <2>2, <2>3, StagingIs
<1> HIDE DEF w
<1>5. ASSUME NEW k \in 0..N PROVE Halves(M, A[k], B[k])
  <2>1. A[k] \subseteq 1..Queue!Half /\ B[k] = {}
    BY <1>1
  <2> HIDE DEF A, B
  <2> QED BY <1>1, <2>1 DEF Halves
<1>6. ASSUME NEW k \in 1..N
      PROVE  /\ o[k] \in DOMAIN M /\ M[o[k]].from \in DOMAIN x
             /\ A[k - 1] \ {o[k]} = A[k] \ {o[k]} /\ B[k - 1] \ {o[k]} = B[k] \ {o[k]}
             /\ w[k] = Queue!Back(Where(x, M, qcommands, A[k - 1], B[k - 1])[M[o[k]].from],
                            Where(x, M, qcommands, A[k], B[k])[M[o[k]].from])
  <2>1. o[k] = k /\ k \in DOMAIN M /\ M[k].from \in DOMAIN x
    BY <1>1
  <2>2. k - 1 \in 0..N /\ k \in 0..N
    BY <1>1
  <2>3. A[k - 1] = k .. N /\ A[k] = k + 1 .. N /\ B[k - 1] = {} /\ B[k] = {}
    BY <1>1, <2>2
  <2>4. k \in A[k - 1] /\ k \notin A[k] /\ A[k - 1] \ {k} = A[k] \ {k}
          /\ B[k - 1] \ {k} = B[k] \ {k}
    BY <1>1, <2>3
  <2>5. Halves(M, A[k - 1], B[k - 1]) /\ Halves(M, A[k], B[k])
    BY <1>5, <2>2
  <2>6. Where(x, M, qcommands, A[k - 1], B[k - 1])[M[k].from] = Aside(M[k].from, qcommands)
    <3> HIDE DEF A, B
    <3> QED BY <2>1, <2>4, <2>5, WhereIs
  <2>7. Where(x, M, qcommands, A[k], B[k])[M[k].from] = M[k].from
    <3>1. \A j \in A[k] \cup B[k] : M[j].from # M[k].from
      <4>1. \A j \in DOMAIN M : M[j].from = M[k].from => j = k
        BY <2>1, ApartIs
      <4>2. A[k] \subseteq DOMAIN M
        BY <2>5 DEF Halves
      <4> QED BY <2>3, <2>4, <4>1, <4>2
    <3> HIDE DEF A, B
    <3> QED BY <2>1, <2>5, <3>1, WhereIs
  <2> HIDE DEF A, B, o
  <2> QED BY <1>4, <2>1, <2>4, <2>6, <2>7
<1>7. 0 \in 0..N /\ N \in 0..N
  BY <1>1
<1>8. A[0] = 1..N /\ B[0] = {} /\ A[N] = {} /\ B[N] = {}
  BY <1>1, <1>7
<1> HIDE DEF A, B, o, M
<1>9. Sweeping(x, M, qcommands, w, A, B, o)
  BY <1>2, <1>3, <1>5, <1>6 DEF Sweeping
<1>10. RunsTo(w, Lay(x, Where(x, M, qcommands, A[0], B[0])), Lay(x, Where(x, M, qcommands, A[N], B[N])), x, R)
  BY <1>1, <1>3, <1>9, SweepRuns
<1>11. Lay(x, Where(x, M, qcommands, {}, {})) = x
  BY UnmovedIs
<1> QED BY <1>8, <1>10, <1>11 DEF M, w


(* A placed file is where its move put it.                                   *)
LEMMA PlacedAt ==
    ASSUME NEW x, NEW M, NEW c, NEW A, NEW B, Halves(M, A, B),
           NEW k \in DOMAIN M, M[k].from \in DOMAIN x
    PROVE  /\ k \in A => Where(x, M, c, A, B)[M[k].from] = Aside(M[k].from, c)
           /\ k \in B => Where(x, M, c, A, B)[M[k].from] = M[k].to
           /\ k \notin A \cup B => Where(x, M, c, A, B)[M[k].from] = M[k].from
<1>1. k \in A => Where(x, M, c, A, B)[M[k].from] = Aside(M[k].from, c)
  BY WhereIs
<1>2. k \in B => Where(x, M, c, A, B)[M[k].from] = M[k].to
  BY WhereIs
<1>3. ASSUME k \notin A \cup B PROVE Where(x, M, c, A, B)[M[k].from] = M[k].from
  <2>1. \A j \in A \cup B : j \in DOMAIN M
    BY DEF Halves
  <2>2. \A j \in DOMAIN M : M[j].from = M[k].from => j = k
    BY ApartIs DEF Halves
  <2>3. \A j \in A \cup B : M[j].from # M[k].from
    BY <1>3, <2>1, <2>2
  <2> QED BY <2>3, WhereIs
<1> QED BY <1>1, <1>2, <1>3

(* A rename taken back.                                                     *)
LEMMA BackIs ==
    ASSUME NEW j, NEW l, NEW k \in 1 .. l + 1 - j
    PROVE  Queue!BackFrom(j, l)[k] = Queue!Back(Queue!RenameAt(j - 1 + k).to, Queue!RenameAt(j - 1 + k).from)
BY DEF Queue!BackFrom

(* The placed files staged again.                                            *)
LEMMA RestageRuns ==
    ASSUME QueueBounds, QueueTypes, NEW x \in Disks, Tidy(x), Apart(cmd.moves),
           NEW N \in 0..Queue!Half,
           \A k \in 1..N : cmd.moves[k].from \in DOMAIN x, NEW R
    PROVE  RunsTo(Queue!BackFrom(Queue!Half + 1, Queue!Half + N), Lay(x, Where(x, cmd.moves, qcommands, N + 1 .. Queue!Half, 1..N)),
                  Lay(x, Where(x, cmd.moves, qcommands, 1..Queue!Half, {})), x, R)
<1> DEFINE M == cmd.moves
           w == Queue!BackFrom(Queue!Half + 1, Queue!Half + N)
           A == [k \in 0..N |-> (N + 1 .. Queue!Half) \cup 1..k]
           B == [k \in 0..N |-> k + 1 .. N]
           o == [k \in 1..N |-> k]
<1>1. Queue!Half \in Nat /\ N \in Nat /\ N <= Queue!Half /\ DOMAIN M = 1..Queue!Half
        /\ qcommands \in Runs
  BY HalfType, QueueRun DEF Queue!Half, QueueTypes, Plans
<1>2. w \in Seq(Steps)
  <2>1. Queue!Half + 1 \in 1 .. 2 * Queue!Half + 1 /\ Queue!Half + N \in 0 .. 2 * Queue!Half
    BY <1>1
  <2> QED BY <2>1, BackFromType DEF QueuePlain
<1>3. Len(w) = N
  <2>1. w = [k \in 1 .. (Queue!Half + N) + 1 - (Queue!Half + 1) |-> w[k]]
    BY DEF Queue!BackFrom
  <2>2. DOMAIN w = 1..N
    BY <1>1, <2>1
  <2> HIDE DEF w
  <2> QED BY <1>1, <1>2, <2>2
<1>4. ASSUME NEW k \in 1..N PROVE w[k] = Queue!Back(M[k].to, Aside(M[k].from, qcommands))
  <2> DEFINE j == Queue!Half + 1
             l == Queue!Half + k
  <2>1. j - 1 + k = l /\ k \in 1 .. Queue!Half + N + 1 - j /\ ~(l <= Queue!Half)
          /\ l - Queue!Half = k
    BY <1>1
  <2>2. w = Queue!BackFrom(j, Queue!Half + N)
    OBVIOUS
  <2> HIDE DEF j, l, w
  <2>3. w[k] = Queue!Back(Queue!RenameAt(j - 1 + k).to, Queue!RenameAt(j - 1 + k).from)
    BY <2>1, <2>2, BackIs
  <2>4. Queue!RenameAt(l) = [from |-> Queue!Staging(M[l - Queue!Half].from), to |-> M[l - Queue!Half].to]
    BY <2>1 DEF Queue!RenameAt
  <2>5. Queue!RenameAt(l).from = Queue!Staging(M[k].from) /\ Queue!RenameAt(l).to = M[k].to
    BY <2>1, <2>4
  <2> QED BY <2>1, <2>3, <2>5, StagingIs
<1> HIDE DEF w
<1>5. ASSUME NEW k \in 0..N PROVE Halves(M, A[k], B[k])
  <2>1. A[k] \subseteq 1..Queue!Half /\ B[k] \subseteq 1..Queue!Half /\ A[k] \cap B[k] = {}
    BY <1>1
  <2> HIDE DEF A, B
  <2> QED BY <1>1, <2>1 DEF Halves
<1>6. ASSUME NEW k \in 1..N
      PROVE  /\ o[k] \in DOMAIN M /\ M[o[k]].from \in DOMAIN x
             /\ A[k - 1] \ {o[k]} = A[k] \ {o[k]} /\ B[k - 1] \ {o[k]} = B[k] \ {o[k]}
             /\ w[k] = Queue!Back(Where(x, M, qcommands, A[k - 1], B[k - 1])[M[o[k]].from],
                            Where(x, M, qcommands, A[k], B[k])[M[o[k]].from])
  <2>1. o[k] = k /\ k \in DOMAIN M /\ M[k].from \in DOMAIN x
    BY <1>1
  <2>2. k - 1 \in 0..N /\ k \in 0..N
    BY <1>1
  <2>3. /\ A[k - 1] = (N + 1 .. Queue!Half) \cup 1 .. k - 1
             /\ A[k] = (N + 1 .. Queue!Half) \cup 1..k
        /\ B[k - 1] = k .. N /\ B[k] = k + 1 .. N
    BY <1>1, <2>2
  <2>4. k \in A[k] /\ k \in B[k - 1] /\ A[k - 1] \ {k} = A[k] \ {k} /\ B[k - 1] \ {k} = B[k] \ {k}
    <3>1. k \in A[k] /\ k \in B[k - 1] /\ B[k - 1] \ {k} = B[k] \ {k}
      BY <1>1, <2>3
    <3>2. (1 .. k - 1) \ {k} = (1..k) \ {k}
      BY <1>1
    <3> QED BY <2>3, <3>1, <3>2
  <2>5. Halves(M, A[k - 1], B[k - 1]) /\ Halves(M, A[k], B[k])
    BY <1>5, <2>2
  <2> HIDE DEF A, B
  <2>6. Where(x, M, qcommands, A[k - 1], B[k - 1])[M[k].from] = M[k].to
    BY <2>1, <2>4, <2>5, PlacedAt
  <2>7. Where(x, M, qcommands, A[k], B[k])[M[k].from] = Aside(M[k].from, qcommands)
    BY <2>1, <2>4, <2>5, PlacedAt
  <2> HIDE DEF o
  <2> QED BY <1>4, <2>1, <2>4, <2>6, <2>7
<1>7. 0 \in 0..N /\ N \in 0..N
  BY <1>1
<1>8. A[0] = N + 1 .. Queue!Half /\ B[0] = 1..N /\ A[N] = 1..Queue!Half /\ B[N] = {}
  <2>1. A[0] = (N + 1 .. Queue!Half) \cup 1..0 /\ A[N] = (N + 1 .. Queue!Half) \cup 1..N
    BY <1>7
  <2>2. B[0] = 0 + 1 .. N /\ B[N] = N + 1 .. N
    BY <1>7
  <2>3. 0 + 1 = 1 /\ N + 1 .. N = {} /\ 1..0 = {} /\ (N + 1 .. Queue!Half) \cup 1..N = 1..Queue!Half
    BY <1>1
  <2> HIDE DEF A, B
  <2> QED BY <2>1, <2>2, <2>3
<1> HIDE DEF A, B, o, M
<1>9. Sweeping(x, M, qcommands, w, A, B, o)
  BY <1>2, <1>3, <1>5, <1>6 DEF Sweeping
<1>10. RunsTo(w, Lay(x, Where(x, M, qcommands, A[0], B[0])), Lay(x, Where(x, M, qcommands, A[N], B[N])), x, R)
  <2>1. Tidy(x) /\ qcommands \in Runs
    BY <1>1
  <2> QED BY <1>3, <1>9, <2>1, SweepRuns
<1> QED BY <1>8, <1>10 DEF M, w

(* The files renamed from their new names to their old ones.                 *)
LEMMA UnplaceRuns ==
    ASSUME QueueBounds, QueueTypes, NEW x \in Disks, Tidy(x), Apart(cmd.moves),
           \A k \in 1..Queue!Half : cmd.moves[k].from \in DOMAIN x, NEW R
    PROVE  RunsTo(Queue!Unplace, MovedBy(x, cmd.moves, qcommands), x, x, R)
<1> DEFINE M == cmd.moves
           N == Queue!Half
           w == Queue!Unplace
           A == [k \in 0..N |-> {}]
           B == [k \in 0..N |-> k + 1 .. N]
           o == [k \in 1..N |-> k]
<1>1. N \in Nat /\ DOMAIN M = 1..N /\ qcommands \in Runs /\ M \in Seq(QueueMoves)
  BY HalfType, QueueRun DEF Queue!Half, QueueTypes, Plans
<1>2. w \in Seq(Steps)
  BY UnplaceType DEF QueuePlain
<1>3. Len(w) = N
  <2>1. DOMAIN w = 1..N
    BY <1>1 DEF Queue!Unplace
  <2> HIDE DEF w
  <2> QED BY <1>1, <1>2, <2>1
<1>4. ASSUME NEW k \in 1..N PROVE w[k] = Queue!Back(M[k].to, M[k].from)
  BY <1>1 DEF Queue!Unplace
<1> HIDE DEF w
<1>5. ASSUME NEW k \in 0..N PROVE Halves(M, A[k], B[k])
  <2>1. A[k] = {} /\ B[k] \subseteq 1..N
    BY <1>1
  <2> HIDE DEF A, B
  <2> QED BY <1>1, <2>1 DEF Halves
<1>6. ASSUME NEW k \in 1..N
      PROVE  /\ o[k] \in DOMAIN M /\ M[o[k]].from \in DOMAIN x
             /\ A[k - 1] \ {o[k]} = A[k] \ {o[k]} /\ B[k - 1] \ {o[k]} = B[k] \ {o[k]}
             /\ w[k] = Queue!Back(Where(x, M, qcommands, A[k - 1], B[k - 1])[M[o[k]].from],
                            Where(x, M, qcommands, A[k], B[k])[M[o[k]].from])
  <2>1. o[k] = k /\ k \in DOMAIN M /\ M[k].from \in DOMAIN x
    BY <1>1
  <2>2. k - 1 \in 0..N /\ k \in 0..N
    BY <1>1
  <2>3. A[k - 1] = {} /\ A[k] = {} /\ B[k - 1] = k - 1 + 1 .. N /\ B[k] = k + 1 .. N
    BY <2>2
  <2>4. k \notin A[k] \cup B[k] /\ k \in B[k - 1] /\ A[k - 1] \ {k} = A[k] \ {k}
          /\ B[k - 1] \ {k} = B[k] \ {k}
    <3> HIDE DEF A, B
    <3> QED BY <1>1, <2>3
  <2>5. Halves(M, A[k - 1], B[k - 1]) /\ Halves(M, A[k], B[k])
    BY <1>5, <2>2
  <2> HIDE DEF A, B
  <2>6. Where(x, M, qcommands, A[k - 1], B[k - 1])[M[k].from] = M[k].to
    BY <2>1, <2>4, <2>5, PlacedAt
  <2>7. Where(x, M, qcommands, A[k], B[k])[M[k].from] = M[k].from
    BY <2>1, <2>4, <2>5, PlacedAt
  <2> HIDE DEF o
  <2> QED BY <1>4, <2>1, <2>4, <2>6, <2>7
<1>7. 0 \in 0..N /\ N \in 0..N
  BY <1>1
<1>8. A[0] = {} /\ B[0] = DOMAIN M /\ A[N] = {} /\ B[N] = {}
  BY <1>1, <1>7
<1> HIDE DEF A, B, o, M, N
<1>9. Sweeping(x, M, qcommands, w, A, B, o)
  BY <1>2, <1>3, <1>5, <1>6 DEF Sweeping, N
<1>10. RunsTo(w, Lay(x, Where(x, M, qcommands, A[0], B[0])), Lay(x, Where(x, M, qcommands, A[N], B[N])), x, R)
  <2>1. Tidy(x) /\ qcommands \in Runs
    BY <1>1
  <2> QED BY <1>3, <1>9, <2>1, SweepRuns
<1>11. Lay(x, Where(x, M, qcommands, {}, {})) = x
  BY UnmovedIs
<1> QED BY <1>8, <1>10, <1>11 DEF M, w, MovedBy

(* Where a renumbering has its files.                                        *)
Asides == IF at <= Queue!Half THEN 1 .. at - 1 ELSE at - Queue!Half .. Queue!Half

(* The moves whose file is in place.                                        *)
Inplace == IF at <= Queue!Half THEN {} ELSE 1 .. at - Queue!Half - 1

(* A renumbering that fails in its first or second phase puts all files
   back.                                                                    *)
LEMMA UnwindRuns ==
    ASSUME QueueBounds, QueueTypes, NEW x \in Disks, Tidy(x), Apart(cmd.moves),
           \A k \in 1..Queue!Half : k < at => cmd.moves[k].from \in DOMAIN x, NEW R
    PROVE  RunsTo(Queue!Unwind, Lay(x, Where(x, cmd.moves, qcommands, Asides, Inplace)), x, x, R)
<1>1. Queue!Half \in Nat /\ at \in 1 .. 2 * Queue!Half + 1
  BY HalfType DEF QueueTypes
<1>2. CASE at <= Queue!Half
  <2>1. at - 1 \in 0..Queue!Half /\ \A k \in 1 .. at - 1 : k \in 1..Queue!Half /\ k < at
    BY <1>1, <1>2
  <2>2. \A k \in 1 .. at - 1 : cmd.moves[k].from \in DOMAIN x
    BY <2>1
  <2>3. RunsTo(Queue!BackFrom(1, at - 1), Lay(x, Where(x, cmd.moves, qcommands, 1 .. at - 1, {})), x, x, R)
    BY <2>1, <2>2, UnstageRuns
  <2> QED BY <1>2, <2>3 DEF Queue!Unwind, Asides, Inplace
<1>3. CASE ~(at <= Queue!Half)
  <2> DEFINE N == at - Queue!Half - 1
  <2>1. /\ N \in 0..Queue!Half /\ Queue!Half \in 0..Queue!Half /\ N + 1 = at - Queue!Half
             /\ Queue!Half + N = at - 1
        /\ \A k \in 1..Queue!Half : k < at
        /\ \A k \in 1..N : k \in 1..Queue!Half
    BY <1>1, <1>3
  <2>2. (\A k \in 1..Queue!Half : cmd.moves[k].from \in DOMAIN x)
          /\ \A k \in 1..N : cmd.moves[k].from \in DOMAIN x
    BY <2>1
  <2> HIDE DEF N
  <2>3. RunsTo(Queue!BackFrom(1, Queue!Half), Lay(x, Where(x, cmd.moves, qcommands, 1..Queue!Half, {})), x, x, R)
    BY <2>1, <2>2, UnstageRuns
  <2>4. RunsTo(Queue!BackFrom(Queue!Half + 1, Queue!Half + N), Lay(x, Where(x, cmd.moves, qcommands, N + 1 .. Queue!Half, 1..N)),
               Lay(x, Where(x, cmd.moves, qcommands, 1..Queue!Half, {})), x, R)
    BY <2>1, <2>2, RestageRuns
  <2>5. RunsTo(Queue!BackFrom(Queue!Half + 1, at - 1) \o Queue!BackFrom(1, Queue!Half),
               Lay(x, Where(x, cmd.moves, qcommands, at - Queue!Half .. Queue!Half, 1..N)), x, x, R)
    BY <2>1, <2>3, <2>4, RunJoined
  <2> QED BY <1>3, <2>5 DEF Queue!Unwind, Asides, Inplace, N
<1> QED BY <1>2, <1>3


(* The rows that describe a directory, and rows under their new names.       *)
RowsOf(x) == {[id |-> x[m].id, ver |-> x[m].ver, name |-> m] : m \in DOMAIN x}

(* A row under the new name of its file, ...                                *)
Rowed(M, r) ==
    LET ms == {k \in DOMAIN M : M[k].from = r.name}
    IN IF ms = {} THEN r ELSE [r EXCEPT !.name = M[CHOOSE k \in ms : TRUE].to]

(* ... and all of them.                                                     *)
RowsBy(M, R) == {Rowed(M, r) : r \in R}

(* These are the rows of the manifest a renumbering writes.                 *)
LEMMA RowsAre == Queue!RowsAfter(cmd.moves) = RowsBy(cmd.moves, rows)
BY DEF Queue!RowsAfter, RowsBy, Rowed

(* A row is renamed as its file, and keeps the rest.                        *)
LEMMA RowedIs ==
    ASSUME NEW M, Apart(M), NEW r \in Queue!Row
    PROVE  /\ \A k \in DOMAIN M : M[k].from = r.name => Rowed(M, r) = [r EXCEPT !.name = M[k].to]
           /\ (\A k \in DOMAIN M : M[k].from # r.name) => Rowed(M, r) = r
           /\ Rowed(M, r) \in Queue!Row /\ Rowed(M, r).id = r.id /\ Rowed(M, r).ver = r.ver
           /\ Rowed(M, r).name.slug = r.name.slug
<1> DEFINE ms == {k \in DOMAIN M : M[k].from = r.name}
           m == CHOOSE k \in ms : TRUE
<1>1. ASSUME NEW k \in DOMAIN M, M[k].from = r.name PROVE Rowed(M, r) = [r EXCEPT !.name = M[k].to]
  <2>1. m \in ms
    BY <1>1
  <2>2. m = k
    BY <1>1, <2>1, ApartIs
  <2> QED BY <2>1, <2>2 DEF Rowed
<1>2. ASSUME \A k \in DOMAIN M : M[k].from # r.name PROVE Rowed(M, r) = r
  <2>1. ms = {}
    BY <1>2
  <2> QED BY <2>1 DEF Rowed
<1>3. /\ Rowed(M, r) \in Queue!Row /\ Rowed(M, r).id = r.id /\ Rowed(M, r).ver = r.ver
      /\ Rowed(M, r).name.slug = r.name.slug
  <2>1. CASE \E k \in DOMAIN M : M[k].from = r.name
    <3>1. PICK k \in DOMAIN M : M[k].from = r.name
      BY <2>1
    <3>2. M[k].to \in Queue!FileName /\ M[k].to.slug = r.name.slug
      BY <3>1, ApartIs DEF Apart
    <3> QED BY <1>1, <3>1, <3>2 DEF Queue!Row
  <2>2. CASE \A k \in DOMAIN M : M[k].from # r.name
    BY <1>2, <2>2
  <2> QED BY <2>1, <2>2
<1> QED BY <1>1, <1>2, <1>3

(* The rows are still one for each patch, named for it.                     *)
LEMMA RowsByTidy ==
    ASSUME NEW M, Apart(M), NEW R \in SUBSET Queue!Row, TidyRows(R)
    PROVE  TidyRows(RowsBy(M, R)) /\ \A s \in RowsBy(M, R) : \E r \in R : s.id = r.id
<1>1. \A r \in R : Rowed(M, r).id = r.id /\ Rowed(M, r).name.slug = r.name.slug
  BY RowedIs
<1>2. \A s \in RowsBy(M, R) : \E r \in R : s = Rowed(M, r)
  BY DEF RowsBy
<1> QED BY <1>1, <1>2 DEF TidyRows

(* No moves change no row, ...                                              *)
LEMMA RowsByNone ==
    ASSUME NEW R \in SUBSET Queue!Row, Apart(<<>>)
    PROVE  RowsBy(<<>>, R) = R
<1>1. \A r \in R : Rowed(<<>>, r) = r
  BY RowedIs
<1> QED BY <1>1 DEF RowsBy

(* ... being moves of distinct files.                                       *)
LEMMA NoneApart == Apart(<<>>)
BY DEF Apart

(* The rows that describe a directory are rows, one for each patch.         *)
LEMMA RowsOfType ==
    ASSUME NEW x \in Disks, Tidy(x)
    PROVE  RowsOf(x) \in SUBSET Queue!Row /\ TidyRows(RowsOf(x))
<1>1. \A m \in DOMAIN x : m \in Queue!FileName /\ x[m] \in Queue!Body
  BY DiskType
<1>2. RowsOf(x) \in SUBSET Queue!Row
  BY <1>1 DEF RowsOf, Queue!Row, Queue!Body
<1>3. TidyRows(RowsOf(x))
  BY <1>1 DEF RowsOf, TidyRows, Tidy, Queue!Body
<1> QED BY <1>2, <1>3

(* Rows that describe a directory describe it still once both are renumbered. *)
LEMMA RowsByDisk ==
    ASSUME QueueBounds, NEW x \in Disks, Tidy(x), NEW M, Apart(M), NEW c \in Runs
    PROVE  RowsBy(M, RowsOf(x)) = RowsOf(MovedBy(x, M, c))
<1> DEFINE W == Where(x, M, c, {}, DOMAIN M)
           y == MovedBy(x, M, c)
           Of(z, m) == [id |-> z[m].id, ver |-> z[m].ver, name |-> m]
<1>1. DOMAIN y = {W[l] : l \in DOMAIN x} /\ \A l \in DOMAIN x : y[W[l]] = x[l]
  <2>1. Keeping(x, W)
    BY WhereKeeps, AllHalves
  <2>2. y = Lay(x, W)
    BY DEF MovedBy
  <2> HIDE DEF W, y
  <2> QED BY <2>1, <2>2, LayIs
<1>2. ASSUME NEW l \in DOMAIN x PROVE Rowed(M, Of(x, l)) = Of(y, W[l])
  <2>1. Of(x, l) \in Queue!Row /\ Of(x, l).name = l
    <3>1. l \in Queue!FileName /\ x[l] \in Queue!Body
      BY DiskType
    <3> QED BY <3>1 DEF Queue!Row, Queue!Body
  <2>2. y[W[l]] = x[l]
    BY <1>1
  <2>3. Halves(M, {}, DOMAIN M)
    BY AllHalves
  <2>4. CASE \E k \in DOMAIN M : M[k].from = l
    <3>1. PICK k \in DOMAIN M : M[k].from = l
      BY <2>4
    <3>2. W[l] = M[k].to
      BY <2>3, <3>1, WhereIs
    <3>3. Rowed(M, Of(x, l)) = [Of(x, l) EXCEPT !.name = M[k].to]
      <4> HIDE DEF Of
      <4> QED BY <2>1, <3>1, RowedIs
    <3> HIDE DEF W, y
    <3>4. [Of(x, l) EXCEPT !.name = M[k].to] = Of(y, W[l])
      BY <2>2, <3>2
    <3> QED BY <3>3, <3>4
  <2>5. CASE \A k \in DOMAIN M : M[k].from # l
    <3>1. W[l] = l
      BY <2>3, <2>5, WhereIs
    <3>2. Rowed(M, Of(x, l)) = Of(x, l)
      <4> HIDE DEF Of
      <4> QED BY <2>1, <2>5, RowedIs
    <3> HIDE DEF W, y
    <3> QED BY <2>2, <3>1, <3>2
  <2> QED BY <2>4, <2>5
<1>3. RowsOf(x) = {Of(x, l) : l \in DOMAIN x} /\ RowsOf(y) = {Of(y, m) : m \in DOMAIN y}
  BY DEF RowsOf
<1> HIDE DEF W, y, Of
<1>4. RowsBy(M, RowsOf(x)) = {Rowed(M, Of(x, l)) : l \in DOMAIN x}
  BY <1>3 DEF RowsBy
<1>5. {Rowed(M, Of(x, l)) : l \in DOMAIN x} = {Of(y, W[l]) : l \in DOMAIN x}
  BY <1>2
<1>6. {Of(y, W[l]) : l \in DOMAIN x} = {Of(y, m) : m \in DOMAIN y}
  BY <1>1
<1> QED BY <1>3, <1>4, <1>5, <1>6 DEF y

-----------------------------------------------------------------------------
(* What a command has planned, and where it has got.                         *)
Froms == \A k \in 1..Queue!Half : cmd.moves[k].from \in DOMAIN before.disk

(* A plan that was made for the directory x and the rows R.                 *)
Fits(c, x, R) ==
    /\ Apart(c.moves)
    /\ c.kind \in {"export", "place"} =>
         /\ c.name.slug = Slug[c.body.id] /\ ~Queue!HasBody(x, c.body.id)
         /\ \A r \in R : r.id # c.body.id
    /\ c.kind \in {"export", "update", "delete"} => c.moves = <<>>
    /\ \A m \in c.drop : \E r \in R : r.name = m
    /\ c.kind = "update" => c.name \in DOMAIN x /\ c.body.id = x[c.name].id
    /\ c.kind = "delete" => \E r \in R : r.name = c.name

(* What a renumbering renumbers: an inverse one starts from the renumbered
   directory.                                                               *)
Base ==
    IF cmd.kind = "inverse" THEN MovedBy(before.disk, Queue!Inverted(cmd.moves), qcommands)
    ELSE before.disk

(* In the middle of its renames, every file is where they have brought it.  *)
Renumbering ==
    /\ disk = Lay(Base, Where(Base, cmd.moves, qcommands, Asides, Inplace))
    /\ \A k \in 1..Queue!Half : k < at => cmd.moves[k].from \in DOMAIN Base
    /\ cmd.kind # "inverse" => rows = before.rows /\ ~cmd.committed
    /\ cmd.kind = "inverse" => \A k \in 1..Queue!Half : cmd.moves[k].to \in DOMAIN before.disk

(* Once it is saved the rows are those of the renumbered files.             *)
Renumbered ==
    /\ Froms /\ (cmd.moves # <<>> => cmd.committed)
    /\ rows = RowsBy(cmd.moves, before.rows)

(* The row of a new patch.                                                  *)
NewRow == [id |-> cmd.body.id, ver |-> cmd.body.ver, name |-> cmd.name]

(* The superseded files go after their rows.                                *)
Dropping ==
    /\ rows = {r \in before.rows : r.name \notin cmd.drop \cup {cmd.name}} \cup {NewRow}
    /\ cmd.name \in DOMAIN disk /\ disk[cmd.name] = cmd.body
    /\ \A m \in DOMAIN disk : m # cmd.name => m \in DOMAIN before.disk /\ disk[m] = before.disk[m]
    /\ \A m \in DOMAIN before.disk : m \notin cmd.drop => m \in DOMAIN disk

(* What an undo still has to do leads back: its steps w to the directory y,
   and then nothing, or the rows, or the inverse renumbering and the rows.  *)
Ending(w, y) ==
    \/ undo = w /\ y = before.disk /\ rows = before.rows
    \/ undo = w \o <<Queue!RestoreRows>> /\ y = before.disk
    \/ /\ undo = w \o <<Queue!Invert, Queue!RestoreRows>>
       /\ cmd.kind = "place" /\ cmd.committed /\ Froms
       /\ y = MovedBy(before.disk, cmd.moves, qcommands)

(* Its steps are a run to there.                                            *)
Undoing == \E w, y : RunsTo(w, disk, y, before.disk, rows) /\ Ending(w, y)

(* Before the body is written ...                                           *)
QueueWriting == Renumbered /\ disk = MovedBy(before.disk, cmd.moves, qcommands)

(* ... and after, ...                                                       *)
Adding ==
    /\ Renumbered
    /\ disk = Queue!Put(MovedBy(before.disk, cmd.moves, qcommands), cmd.name, cmd.body)

(* ... or before the file of a removed row is.                              *)
Unlinking == disk = before.disk /\ rows = {r \in before.rows : r.name # cmd.name}

(* Where the command is, and what that says of disk and rows.               *)
Phase ==
    \/ qpc \in {"rename", "save"} /\ Renumbering
    \/ qpc = "write" /\ QueueWriting
    \/ qpc = "row" /\ Adding
    \/ qpc = "drop" /\ Dropping
    \/ qpc = "unrow" /\ disk = before.disk /\ rows = before.rows
    \/ qpc = "unlink" /\ Unlinking
    \/ qpc = "undo" /\ Undoing

(* While one runs: what it found was in order, its plan fits, and it is in
   one of its phases.                                                       *)
Busy ==
    /\ Tidy(before.disk) /\ TidyRows(before.rows)
    /\ crashes = 0 => before.rows = RowsOf(before.disk)
    /\ Fits(cmd, before.disk, before.rows) /\ Phase

(* Between two: what a failed command leaves, and that rows describe the
   files.                                                                   *)
Resting ==
    /\ outcome = "failed" => disk = before.disk /\ rows = before.rows
    /\ crashes = 0 => rows = RowsOf(disk)

(* The invariant of the queue, ...                                          *)
SoundQueue ==
    /\ Fine(disk, before.disk, rows) /\ TidyRows(rows)
    /\ qpc = "idle" => Resting
    /\ qpc # "idle" => Busy

(* ... as long as no step of compensation has failed.                       *)
QueueSound == ~spoiled => SoundQueue

(* It says what the three properties do.                                    *)
LEMMA SoundSuffices ==
    ASSUME QueueSound
    PROVE  Queue!ListedIsKept /\ Queue!FailedRestores /\ Queue!AgreeAtRest
BY DEF QueueSound, SoundQueue, Fine, Resting, Queue!ListedIsKept, Queue!FailedRestores,
   Queue!AgreeAtRest, RowsOf

(* The phase a command is in.                                               *)
LEMMA PhaseIs ==
    ASSUME Phase
    PROVE  /\ qpc \in {"rename", "save"} => Renumbering
           /\ qpc = "write" => QueueWriting
           /\ qpc = "row" => Adding
           /\ qpc = "drop" => Dropping
           /\ qpc = "unrow" => disk = before.disk /\ rows = before.rows
           /\ qpc = "unlink" => Unlinking
           /\ qpc = "undo" => Undoing
BY DEF Phase

(* A directory has kept what it has.                                        *)
LEMMA SelfFine ==
    ASSUME NEW x \in Disks, Tidy(x), NEW R
    PROVE  Fine(x, x, R)
BY DEF Fine


(* The renames of a plan are of distinct files and keep the slug.           *)
LEMMA MovingApart ==
    ASSUME NEW M, NEW R \in SUBSET Queue!Row, Moving(M, R), TidyRows(R)
    PROVE  Apart(M)
<1>1. ASSUME NEW k \in DOMAIN M
      PROVE  \E r \in R : M[k].from = r.name /\ M[k].to.slug = r.name.slug
  <2>1. PICK r \in R : M[k].from = r.name /\ M[k].to = [r.name EXCEPT !.order = M[k].to.order]
    BY DEF Moving
  <2>2. r.name \in Queue!FileName
    BY DEF Queue!Row
  <2>3. [r.name EXCEPT !.order = M[k].to.order].slug = r.name.slug
    BY <2>2 DEF Queue!FileName
  <2> QED BY <2>1, <2>3
<1>2. \A k \in DOMAIN M : M[k].to.slug = M[k].from.slug
  BY <1>1
<1>3. \A j, k \in DOMAIN M : M[j].from.slug = M[k].from.slug => j = k
  BY <1>1 DEF Moving, TidyRows
<1> QED BY <1>2, <1>3 DEF Apart, Moving

(* A command that begins with a plan that fits what is there.                *)
LEMMA BeginSound ==
    ASSUME QueueBounds, QueueTypes, SoundQueue, NEW c, NEW where, Fitting(c, where),
           Fits(c, disk, rows), Queue!Begin(c, where), where = "write" => c.moves = <<>>
    PROVE  SoundQueue'
<1>1. cmd' = c /\ qpc' = where /\ at' = 1 /\ undo' = <<>> /\ outcome' = "running"
      /\ before' = [disk |-> disk, rows |-> rows] /\ qcommands' = qcommands + 1
           /\ qcommands < MaxCommands
      /\ disk' = disk /\ rows' = rows /\ crashes' = crashes /\ qpc = "idle"
  BY DEF Queue!Begin
<1>2. before.disk' = disk /\ before.rows' = rows
  BY <1>1
<1>3. Tidy(disk) /\ TidyRows(rows) /\ disk \in Disks /\ Resting
  BY <1>1 DEF SoundQueue, Fine
<1>4. (Fine(disk, before.disk, rows))'
  BY <1>1, <1>2, <1>3, SelfFine
<1>5. TidyRows(rows)'
  BY <1>1, <1>3
<1>6. qpc' # "idle" /\ qpc' \in {"rename", "write", "unrow"}
  BY <1>1 DEF Fitting
<1>7. qcommands' \in Runs
  BY <1>1 DEF QueueTypes, QueueBounds, Runs
<1>8. Queue!Half' = Len(c.moves) /\ Len(c.moves) \in Nat /\ (c.moves # <<>> => Len(c.moves) >= 1)
  BY <1>1 DEF Queue!Half, Fitting, Plans
<1>9. ASSUME where = "rename" PROVE Phase'
  <2>1. c.moves # <<>> /\ c.kind # "inverse"
    BY <1>9 DEF Fitting
  <2>2. Base' = disk
    BY <1>1, <1>2, <2>1 DEF Base
  <2>3. Asides' = {} /\ Inplace' = {}
    BY <1>1, <1>8, <2>1 DEF Asides, Inplace
  <2>4. Lay(disk, Where(disk, c.moves, qcommands', {}, {})) = disk
    BY <1>3, UnmovedIs
  <2>5. disk' = Lay(Base', Where(Base', cmd'.moves, qcommands', Asides', Inplace'))
    BY <1>1, <2>2, <2>3, <2>4
  <2>6. Renumbering'
    <3>1. \A k \in 1..Queue!Half' : ~(k < at')
      BY <1>1, <1>8
    <3>2. cmd'.committed = FALSE
      BY <1>1 DEF Fitting
    <3> QED BY <1>1, <1>2, <2>1, <2>5, <3>1, <3>2 DEF Renumbering
  <2> QED BY <1>1, <1>9, <2>6 DEF Phase
<1>10. ASSUME where = "write" PROVE Phase'
  <2>1. c.moves = <<>> /\ Queue!Half' = 0
    BY <1>8, <1>10
  <2>2. MovedBy(disk, <<>>, qcommands') = disk
    BY <1>3, <1>7, NoneApart, UnmovedIs DEF MovedBy
  <2>3. RowsBy(<<>>, rows) = rows
    BY RowsByNone, NoneApart DEF QueueTypes
  <2>4. Froms'
    BY <2>1 DEF Froms
  <2>5. Renumbered'
    BY <1>1, <1>2, <2>1, <2>3, <2>4 DEF Renumbered
  <2>6. disk' = MovedBy(before.disk', cmd'.moves, qcommands')
    BY <1>1, <1>2, <2>1, <2>2
  <2>7. QueueWriting'
    BY <2>5, <2>6 DEF QueueWriting
  <2> QED BY <1>1, <1>10, <2>7 DEF Phase
<1>11. ASSUME where = "unrow" PROVE Phase'
  BY <1>1, <1>2, <1>11 DEF Phase
<1>12. Phase'
  BY <1>1, <1>6, <1>9, <1>10, <1>11
<1>13. Busy'
  BY <1>1, <1>2, <1>3, <1>12 DEF Busy, Resting
<1> QED BY <1>4, <1>5, <1>6, <1>13 DEF SoundQueue

(* When a plan fits.                                                        *)
LEMMA FitsPlan ==
    ASSUME NEW kind, NEW m, NEW b, NEW M, NEW X, NEW x, NEW R, Apart(M),
           kind \in {"export", "place"} =>
             m.slug = Slug[b.id] /\ ~Queue!HasBody(x, b.id) /\ \A r \in R : r.id # b.id,
           kind \in {"export", "update", "delete"} => M = <<>>,
           \A l \in X : \E r \in R : r.name = l,
           kind = "update" => m \in DOMAIN x /\ b.id = x[m].id,
           kind = "delete" => \E r \in R : r.name = m
    PROVE  Fits(Queue!Plan(kind, m, b, M, X), x, R)
BY DEF Fits, Queue!Plan

(* A fresh patch has no file and no row.                                    *)
LEMMA FreshIs ==
    ASSUME NEW p, Queue!Fresh(p), NEW k
    PROVE  /\ Queue!NameOf(k, p).slug = Slug[Queue!NewBody(p).id]
                /\ ~Queue!HasBody(disk, Queue!NewBody(p).id)
           /\ \A r \in rows : r.id # Queue!NewBody(p).id
BY DEF Queue!Fresh, Queue!Ids, Queue!HasBody, Queue!NameOf, Queue!NewBody

(* The rebuild of the manifest describes the files, ...                     *)
LEMMA RepairSound ==
    ASSUME QueueBounds, OwnNames, QueueTypes, SoundQueue, Queue!Repair
    PROVE  SoundQueue'
<1>1. /\ qpc = "idle" /\ qpc' = qpc /\ disk' = disk /\ before' = [disk |-> disk, rows |-> rows]
      /\ outcome' = "repaired"
  BY DEF Queue!Repair
<1>2. Tidy(disk) /\ TidyRows(rows) /\ disk \in Disks /\ rows \in SUBSET Queue!Row
  BY DEF SoundQueue, Fine, QueueTypes
<1>3. ASSUME NEW m \in DOMAIN disk
      PROVE  (IF \E r \in rows : r.name = m THEN (CHOOSE r \in rows : r.name = m).id ELSE disk[m].id) = disk[m].id
  <2>1. ASSUME \E r \in rows : r.name = m PROVE (CHOOSE r \in rows : r.name = m).id = disk[m].id
    <3> DEFINE r == CHOOSE r \in rows : r.name = m
    <3>1. r \in rows /\ r.name = m
      BY <2>1
    <3> HIDE DEF r
    <3>2. m.slug = Slug[r.id] /\ m.slug = Slug[disk[m].id]
      BY <1>2, <3>1 DEF Tidy, TidyRows
    <3>3. r.id \in Patches /\ disk[m].id \in Patches
      BY <1>2, <3>1, DiskType DEF Queue!Row, Queue!Body
    <3>4. r.id = disk[m].id
      BY <3>2, <3>3 DEF OwnNames
    <3> QED BY <3>4 DEF r
  <2> QED BY <2>1
<1>4. rows' = RowsOf(disk)
  BY <1>3 DEF Queue!Repair, RowsOf
<1>5. TidyRows(rows')
  BY <1>2, <1>4, RowsOfType
<1>6. before.disk' = disk
  BY <1>1
<1>7. (Fine(disk, before.disk, rows))'
  BY <1>1, <1>2, <1>6, SelfFine
<1>8. Resting'
  BY <1>1, <1>4 DEF Resting
<1> QED BY <1>1, <1>5, <1>7, <1>8 DEF SoundQueue

(* A plan that supersedes nothing.                                          *)
LEMMA NoneDropped ==
    /\ IsFiniteSet({}) /\ {} \in SUBSET Queue!FileName
    /\ {} \subseteq DOMAIN disk /\ \A l \in {} : FALSE
BY FS_EmptySet

(* ... and every other command begins with a plan that fits.                *)
LEMMA CommandSound ==
    ASSUME QueueBounds, OwnNames, QueueTypes, SoundQueue, Queue!Command
    PROVE  SoundQueue'
<1>0. /\ disk \in Disks /\ rows \in SUBSET Queue!Row /\ Tidy(disk) /\ TidyRows(rows)
      /\ Queue!Placed \in SUBSET Queue!Row /\ TidyRows(Queue!Placed)
  BY DEF SoundQueue, Fine, QueueTypes, Queue!Placed, TidyRows
<1>1. ASSUME NEW p \in Patches, Queue!Export(p) PROVE SoundQueue'
  <2>1. PICK X \in SUBSET ({r.name : r \in rows} \cap DOMAIN disk) :
             Queue!Begin(Queue!Plan("export", Queue!NameOf(Queue!NextOrder, p), Queue!NewBody(p), <<>>, X), "write")
    BY <1>1 DEF Queue!Export
  <2>2. Queue!NameOf(Queue!NextOrder, p) \in Queue!FileName /\ Queue!NewBody(p) \in Queue!Body
    BY <1>1, NameType DEF Queue!Export
  <2>3. X \in SUBSET Queue!FileName /\ X \subseteq DOMAIN disk /\ IsFiniteSet(X)
          /\ \A l \in X : \E r \in rows : r.name = l
    BY FS_Subset, DiskType DEF QueueTypes
  <2>4. <<>> \in Seq(QueueMoves) /\ Apart(<<>>)
    BY NoneApart
  <2> DEFINE m == Queue!NameOf(Queue!NextOrder, p)
             b == Queue!NewBody(p)
             c == Queue!Plan("export", m, b, <<>>, X)
  <2>5. Fitting(c, "write")
    BY <2>2, <2>3, <2>4, PlanFits
  <2>6. m.slug = Slug[b.id] /\ ~Queue!HasBody(disk, b.id) /\ \A r \in rows : r.id # b.id
    BY <1>1, FreshIs DEF Queue!Export
  <2>7. c.moves = <<>> /\ Queue!Begin(c, "write")
    BY <2>1 DEF Queue!Plan
  <2>8. Fits(c, disk, rows)
    <3> HIDE DEF m, b
    <3> QED BY <2>3, <2>4, <2>6, FitsPlan
  <2> HIDE DEF c
  <2> QED BY <2>5, <2>7, <2>8, BeginSound
<1>2. ASSUME NEW p \in Patches, NEW k \in Queue!Orders, Queue!Place(p, k) PROVE SoundQueue'
  <2> DEFINE M == Queue!Shifted(Queue!Placed, k)
             where == IF M = <<>> THEN "write" ELSE "rename"
             m == Queue!NameOf(k, p)
             b == Queue!NewBody(p)
             c == Queue!Plan("place", m, b, M, {})
  <2>1. /\ Queue!WellFormed(Queue!Placed) /\ \A j \in DOMAIN M : M[j].to.order \in Queue!Orders
        /\ Queue!Begin(c, where) /\ Queue!Fresh(p)
    BY <1>2 DEF Queue!Place
  <2>2. Moving(M, Queue!Placed) /\ M \in Seq(QueueMoves)
    BY <2>1, PlacedRows, ShiftedMoves DEF Moving
  <2>3. m \in Queue!FileName /\ b \in Queue!Body
    BY NameType
  <2>6. m.slug = Slug[b.id] /\ ~Queue!HasBody(disk, b.id) /\ \A r \in rows : r.id # b.id
    BY <2>1, FreshIs
  <2> HIDE DEF M
  <2>4. Apart(M)
    BY <1>0, <2>2, MovingApart
  <2>7. c.moves = M
    BY DEF Queue!Plan
  <2> HIDE DEF m, b
  <2>5. Fitting(c, where)
    BY <2>2, <2>3, NoneDropped, PlanFits
  <2>8. Fits(c, disk, rows)
    BY <2>4, <2>6, NoneDropped, FitsPlan
  <2>9. where = "write" => c.moves = <<>>
    BY <2>7
  <2> HIDE DEF c, where
  <2> QED BY <2>1, <2>5, <2>8, <2>9, BeginSound
<1>3. ASSUME NEW M, Moving(M, Queue!Placed), M # <<>>, NEW x, Queue!Begin(Queue!Plan("renumber", Queue!NoName, Queue!NoBody, M, {}), "rename")
      PROVE SoundQueue'
  <2> DEFINE c == Queue!Plan("renumber", Queue!NoName, Queue!NoBody, M, {})
  <2>1. M \in Seq(QueueMoves) /\ Apart(M)
    BY <1>0, <1>3, MovingApart DEF Moving
  <2>2. Fitting(c, "rename")
    BY <1>3, <2>1, NoNameType, NoneDropped, PlanFits
  <2>3. Fits(c, disk, rows)
    BY <2>1, NoneDropped, FitsPlan
  <2> HIDE DEF c
  <2>4. Queue!Begin(c, "rename")
    BY <1>3 DEF c
  <2> QED BY <2>2, <2>3, <2>4, BeginSound
<1>4. ASSUME NEW r \in Queue!Placed, NEW k \in Queue!Orders, Queue!Reorder(r, k) PROVE SoundQueue'
  <2> DEFINE M == Queue!ReorderMoves(r, k)
  <2>1. /\ Queue!WellFormed(Queue!Placed) /\ \A j \in DOMAIN M : M[j].to.order \in Queue!Orders
        /\ Queue!Begin(Queue!Plan("renumber", Queue!NoName, Queue!NoBody, M, {}), "rename")
    BY <1>4 DEF Queue!Reorder
  <2>2. Moving(M, Queue!Placed) /\ M # <<>>
    BY <1>0, <2>1, ReorderIs
  <2> HIDE DEF M
  <2> QED BY <1>3, <2>1, <2>2
<1>5. ASSUME Queue!Compact PROVE SoundQueue'
  <2> DEFINE M == Queue!CompactMoves
  <2>1. Queue!WellFormed(Queue!Placed) /\ M # <<>>
          /\ Queue!Begin(Queue!Plan("renumber", Queue!NoName, Queue!NoBody, M, {}), "rename")
    BY <1>5 DEF Queue!Compact
  <2>2. Moving(M, Queue!Placed)
    BY <1>0, <2>1, CompactIs
  <2> HIDE DEF M
  <2> QED BY <1>3, <2>1, <2>2
<1>6. ASSUME NEW r \in rows, Queue!Update(r) PROVE SoundQueue'
  <2> DEFINE b == [id |-> r.id, ver |-> 1]
             c == Queue!Plan("update", r.name, b, <<>>, {})
  <2>1. r.name \in Queue!FileName /\ b \in Queue!Body /\ <<>> \in Seq(QueueMoves) /\ Apart(<<>>)
    BY <1>0, NoneApart DEF Queue!Row, Queue!Body
  <2>2. r.name \in DOMAIN disk /\ Queue!Begin(c, "write") /\ c.moves = <<>> /\ b.id = r.id
    BY <1>6 DEF Queue!Update, Queue!Plan
  <2>3. r.id = disk[r.name].id
    <3>1. r.name.slug = Slug[r.id] /\ r.name.slug = Slug[disk[r.name].id]
      BY <1>0, <2>2 DEF Tidy, TidyRows
    <3>2. r.id \in Patches /\ disk[r.name].id \in Patches
      BY <1>0, <2>2, DiskType DEF Queue!Row, Queue!Body
    <3> QED BY <3>1, <3>2 DEF OwnNames
  <2> HIDE DEF b
  <2>4. Fitting(c, "write")
    BY <2>1, NoneDropped, PlanFits
  <2>5. Fits(c, disk, rows)
    BY <2>1, <2>2, <2>3, NoneDropped, FitsPlan
  <2> HIDE DEF c
  <2> QED BY <2>2, <2>4, <2>5, BeginSound
<1>7. ASSUME NEW r \in rows, Queue!Delete(r) PROVE SoundQueue'
  <2> DEFINE c == Queue!Plan("delete", r.name, Queue!NoBody, <<>>, {})
  <2>1. r.name \in Queue!FileName /\ <<>> \in Seq(QueueMoves) /\ Apart(<<>>)
    BY <1>0, NoneApart DEF Queue!Row
  <2>2. Queue!Begin(c, "unrow")
    BY <1>7 DEF Queue!Delete
  <2>4. Fitting(c, "unrow")
    BY <2>1, NoneDropped, PlanFits
  <2>5. Fits(c, disk, rows)
    BY <2>1, NoneDropped, FitsPlan
  <2> HIDE DEF c
  <2> QED BY <2>2, <2>4, <2>5, BeginSound
<1> QED BY <1>1, <1>2, <1>4, <1>5, <1>6, <1>7, RepairSound DEF Queue!Command


(* The directory a renumbering starts from, and its bodies.                 *)
LEMMA BaseIs ==
    ASSUME QueueBounds, QueueTypes, Busy
    PROVE  /\ Base \in Disks /\ Tidy(Base) /\ Apart(cmd.moves) /\ qcommands \in Runs
           /\ \A p : Queue!HasBody(before.disk, p) <=> Queue!HasBody(Base, p)
<1>1. before.disk \in Disks /\ Tidy(before.disk) /\ Apart(cmd.moves) /\ qcommands \in Runs
  BY QueueRun DEF QueueTypes, Busy, Fits
<1>2. CASE cmd.kind # "inverse"
  BY <1>1, <1>2 DEF Base
<1>3. CASE cmd.kind = "inverse"
  <2> DEFINE N == Queue!Inverted(cmd.moves)
             x == before.disk
             W == Where(x, N, qcommands, {}, DOMAIN N)
  <2>1. Apart(N)
    BY <1>1, InvertedIs
  <2> HIDE DEF N
  <2>2. Keeping(x, W)
    BY <1>1, <2>1, WhereKeeps, AllHalves
  <2>3. Base = Lay(x, W)
    BY <1>3 DEF Base, N, MovedBy
  <2> HIDE DEF W, x
  <2>4. x \in Disks /\ Tidy(x)
    BY <1>1 DEF x
  <2>5. Lay(x, W) \in Disks /\ Tidy(Lay(x, W))
    BY <2>2, <2>4, LayIs
  <2>6. \A p : Queue!HasBody(x, p) <=> Queue!HasBody(Lay(x, W), p)
    BY <2>2, <2>4, LayBodies
  <2> QED BY <1>1, <2>3, <2>5, <2>6 DEF x
<1> QED BY <1>2, <1>3

(* What is fine for one directory is so for one with the same bodies.       *)
LEMMA FineFrom ==
    ASSUME NEW x, NEW y, NEW b, NEW R, Fine(x, y, R),
           \A p : Queue!HasBody(b, p) <=> Queue!HasBody(y, p)
    PROVE  Fine(x, b, R)
BY DEF Fine

(* The moves that are staged and those in place.                            *)
LEMMA SidesHalve ==
    ASSUME QueueTypes, Apart(cmd.moves)
    PROVE  Halves(cmd.moves, Asides, Inplace)
<1>1. Queue!Half \in Nat /\ at \in 1 .. 2 * Queue!Half + 1 /\ DOMAIN cmd.moves = 1..Queue!Half
  BY HalfType DEF QueueTypes, Queue!Half, Plans
<1>2. Asides \subseteq 1..Queue!Half /\ Inplace \subseteq 1..Queue!Half /\ Asides \cap Inplace = {}
  BY <1>1 DEF Asides, Inplace
<1> QED BY <1>1, <1>2 DEF Halves

(* A rename takes one file on.                                              *)
LEMMA RenamingSound ==
    ASSUME QueueBounds, QueueTypes, SoundQueue, Queue!RenameNext
    PROVE  SoundQueue'
<1> DEFINE M == cmd.moves
           x == Base
           P == Where(x, M, qcommands, Asides, Inplace)
           A == IF at + 1 <= Queue!Half THEN 1..at ELSE at + 1 - Queue!Half .. Queue!Half
           B == IF at + 1 <= Queue!Half THEN {} ELSE 1 .. at - Queue!Half
           Q == Where(x, M, qcommands, A, B)
           j == IF at <= Queue!Half THEN at ELSE at - Queue!Half
<1>1. /\ qpc = "rename" /\ Queue!CanRename
           /\ disk' = Queue!Renamed(disk, Queue!RenameAt(at).from, Queue!RenameAt(at).to)
      /\ at' = at + 1 /\ qpc' = (IF at = 2 * Queue!Half THEN "save" ELSE "rename") /\ rows' = rows
      /\ cmd' = cmd /\ before' = before /\ qcommands' = qcommands /\ crashes' = crashes
  BY DEF Queue!RenameNext, Queue!counts
<1>2. Queue!Half \in Nat /\ at \in 1 .. 2 * Queue!Half /\ DOMAIN M = 1..Queue!Half
  BY <1>1, HalfType DEF QueueTypes, KindAt, Queue!Half, Plans
<1>3. Busy /\ Renumbering /\ TidyRows(rows) /\ Fine(disk, before.disk, rows)
  BY <1>1, PhaseIs DEF SoundQueue, Busy
<1>4. /\ x \in Disks /\ Tidy(x) /\ Apart(M) /\ qcommands \in Runs
      /\ \A p : Queue!HasBody(before.disk, p) <=> Queue!HasBody(x, p)
  BY <1>3, BaseIs
<1>5. Halves(M, Asides, Inplace)
  BY <1>4, SidesHalve
<1>6. Halves(M, A, B)
  <2>1. A \subseteq 1..Queue!Half /\ B \subseteq 1..Queue!Half /\ A \cap B = {}
    BY <1>2
  <2> HIDE DEF A, B, M
  <2> QED BY <1>2, <1>4, <2>1 DEF Halves
<1>7. /\ j \in 1..Queue!Half /\ Asides \ {j} = A \ {j} /\ Inplace \ {j} = B \ {j}
      /\ at <= Queue!Half => j \notin Asides \cup Inplace /\ j \in A
      /\ ~(at <= Queue!Half) => j \in Asides /\ j \in B
  <2>1. CASE at <= Queue!Half
    <3>1. j = at /\ Asides = 1 .. at - 1 /\ Inplace = {}
      BY <2>1 DEF Asides, Inplace
    <3>2. A = 1..at /\ B = {}
      BY <1>2, <2>1
    <3> HIDE DEF A, B, j
    <3> QED BY <1>2, <2>1, <3>1, <3>2
  <2>2. CASE ~(at <= Queue!Half)
    <3>1. j = at - Queue!Half /\ Asides = at - Queue!Half .. Queue!Half
            /\ Inplace = 1 .. at - Queue!Half - 1
      BY <2>2 DEF Asides, Inplace
    <3>2. A = at + 1 - Queue!Half .. Queue!Half /\ B = 1 .. at - Queue!Half
      BY <1>2, <2>2
    <3>3. j \in Asides /\ j \in B
      BY <1>2, <2>2, <3>1, <3>2
    <3> HIDE DEF A, B, j
    <3> QED BY <1>2, <2>2, <3>1, <3>2, <3>3
  <2> QED BY <2>1, <2>2
<1>8. Keeping(x, P)
  BY <1>4, <1>5, WhereKeeps
<1>9. disk = Lay(x, P) /\ DOMAIN disk = {P[l] : l \in DOMAIN x}
  <2>1. disk = Lay(x, P)
    BY <1>3 DEF Renumbering
  <2> HIDE DEF P, x
  <2> QED BY <1>4, <1>8, <2>1, LayIs
<1> HIDE DEF A, B
<1>10. M[j].from \in DOMAIN x
  <2>1. CASE at <= Queue!Half
    <3>1. Queue!RenameAt(at).from = M[j].from
      BY <2>1 DEF Queue!RenameAt
    <3>2. M[j].from \in DOMAIN disk
      BY <1>1, <3>1 DEF Queue!CanRename
    <3>3. PICK l \in DOMAIN x : P[l] = M[j].from
      BY <1>9, <3>2
    <3>4. l.slug = M[j].from.slug
      BY <1>8, <3>3 DEF Keeping
    <3>5. ASSUME NEW k \in Asides \cup Inplace PROVE M[k].from # l
      <4>1. k \in DOMAIN M /\ j \in DOMAIN M /\ k # j
        BY <1>2, <1>5, <1>7, <2>1 DEF Halves
      <4> QED BY <1>4, <3>4, <4>1 DEF Apart
    <3>6. P[l] = l
      BY <1>5, <3>5, WhereIs
    <3> QED BY <3>3, <3>6
  <2>2. CASE ~(at <= Queue!Half)
    <3>1. j < at /\ j \in 1..Queue!Half
      BY <1>2, <1>7, <2>2
    <3> QED BY <1>3, <3>1 DEF Renumbering
  <2> QED BY <2>1, <2>2
<1>11. P[M[j].from] = Queue!RenameAt(at).from /\ Q[M[j].from] = Queue!RenameAt(at).to
  <2>0. j \in DOMAIN M
    BY <1>2, <1>7
  <2>1. CASE at <= Queue!Half
    <3>1. Queue!RenameAt(at) = [from |-> M[j].from, to |-> Aside(M[j].from, qcommands)]
      BY <2>1, StagingIs DEF Queue!RenameAt
    <3>2. j \notin Asides \cup Inplace /\ j \in A
      BY <1>7, <2>1
    <3> HIDE DEF j
    <3>3. P[M[j].from] = M[j].from
      BY <1>5, <1>10, <2>0, <3>2, PlacedAt
    <3>4. Q[M[j].from] = Aside(M[j].from, qcommands)
      BY <1>6, <1>10, <2>0, <3>2, PlacedAt
    <3> QED BY <3>1, <3>3, <3>4
  <2>2. CASE ~(at <= Queue!Half)
    <3>1. Queue!RenameAt(at) = [from |-> Aside(M[j].from, qcommands), to |-> M[j].to]
      BY <2>2, StagingIs DEF Queue!RenameAt
    <3>2. j \in Asides /\ j \in B
      BY <1>7, <2>2
    <3> HIDE DEF j
    <3>3. P[M[j].from] = Aside(M[j].from, qcommands)
      BY <1>5, <1>10, <2>0, <3>2, PlacedAt
    <3>4. Q[M[j].from] = M[j].to
      BY <1>6, <1>10, <2>0, <3>2, PlacedAt
    <3> QED BY <3>1, <3>3, <3>4
  <2> QED BY <2>1, <2>2
<1>12. disk' = Lay(x, Q)
  <2>0. j \in DOMAIN M /\ Asides \ {j} = A \ {j} /\ Inplace \ {j} = B \ {j}
    BY <1>2, <1>7
  <2> HIDE DEF j, M, x
  <2>1. Queue!Renamed(Lay(x, P), P[M[j].from], Q[M[j].from]) = Lay(x, Q)
    BY <1>4, <1>5, <1>6, <1>10, <2>0, WhereStep
  <2> HIDE DEF P, Q
  <2> QED BY <1>1, <1>9, <1>11, <2>1
<1>13. Fine(disk', before.disk', rows')
  <2>1. Fine(Lay(x, Q), x, rows)
    BY <1>4, <1>6, LaidFine
  <2> HIDE DEF Q, x
  <2>2. Fine(Lay(x, Q), before.disk, rows)
    BY <1>4, <2>1, FineFrom
  <2> QED BY <1>1, <1>12, <2>2
<1>14. Queue!Half' = Queue!Half /\ Base' = Base /\ Asides' = A /\ Inplace' = B /\ cmd'.moves = M
  <2>1. Queue!Half' = Queue!Half /\ Base' = Base /\ cmd'.moves = M
    BY <1>1 DEF Queue!Half, Base
  <2>2. Asides' = (IF at + 1 <= Queue!Half THEN 1 .. at + 1 - 1 ELSE at + 1 - Queue!Half .. Queue!Half)
    BY <1>1, <1>2, <2>1 DEF Asides
  <2>3. Inplace' = (IF at + 1 <= Queue!Half THEN {} ELSE 1 .. at + 1 - Queue!Half - 1)
    BY <1>1, <1>2, <2>1 DEF Inplace
  <2>4. at + 1 - 1 = at /\ at + 1 - Queue!Half - 1 = at - Queue!Half
    BY <1>2
  <2> QED BY <2>1, <2>2, <2>3, <2>4 DEF A, B
<1>15. disk' = Lay(Base', Where(Base', cmd'.moves, qcommands', Asides', Inplace'))
  BY <1>1, <1>12, <1>14
<1>16. \A k \in 1..Queue!Half' : k < at' => cmd'.moves[k].from \in DOMAIN Base'
  <2>1. ASSUME NEW k \in 1..Queue!Half, k < at + 1 PROVE M[k].from \in DOMAIN x
    <3>1. CASE k < at
      BY <1>3, <3>1 DEF Renumbering
    <3>2. CASE ~(k < at)
      <4>1. k = at /\ at <= Queue!Half
        BY <1>2, <2>1, <3>2
      <4>2. j = k
        BY <4>1
      <4> QED BY <1>10, <4>2
    <3> QED BY <3>1, <3>2
  <2> QED BY <1>1, <1>14, <2>1
<1>17. Renumbering'
  BY <1>1, <1>3, <1>14, <1>15, <1>16 DEF Renumbering
<1>18. Phase'
  BY <1>1, <1>17 DEF Phase
<1>19. Busy' /\ qpc' # "idle"
  BY <1>1, <1>3, <1>18 DEF Busy
<1> QED BY <1>1, <1>3, <1>13, <1>19 DEF SoundQueue


(* A sequence of undo steps followed by others.                              *)
LEMMA Parting ==
    ASSUME NEW w \in Seq(Steps), NEW t \in Seq(Steps)
    PROVE  /\ w # <<>> => w \o t # <<>> /\ Head(w \o t) = w[1] /\ Tail(w \o t) = Tail(w) \o t
           /\ w = <<>> => w \o t = t
           /\ w \o <<>> = w
<1>1. CASE w = <<>>
  BY <1>1
<1>2. CASE w # <<>>
  <2>1. Len(w) \in Nat /\ Len(w) >= 1 /\ Len(t) \in Nat
    BY <1>2
  <2>2. w \o t # <<>> /\ Head(w \o t) = w[1]
    BY <2>1
  <2>3. Tail(w \o t) = Tail(w) \o t
    BY <2>1
  <2> QED BY <1>2, <2>2, <2>3
<1> QED BY <1>1, <1>2

(* What is left to undo once the directory is done with.                     *)
Ends == {<<>>, <<Queue!RestoreRows>>, <<Queue!Invert, Queue!RestoreRows>>}

(* How they lead back, from the directory y.                                *)
Closing(t, y) ==
    \/ t = <<>> /\ y = before.disk /\ rows = before.rows
    \/ t = <<Queue!RestoreRows>> /\ y = before.disk
    \/ /\ t = <<Queue!Invert, Queue!RestoreRows>> /\ cmd.kind = "place" /\ cmd.committed /\ Froms
       /\ y = MovedBy(before.disk, cmd.moves, qcommands)

(* They are steps.                                                          *)
LEMMA EndsType ==
    /\ \A t \in Ends : t \in Seq(Steps)
    /\ Head(<<Queue!RestoreRows>>).do = "save" /\ Tail(<<Queue!RestoreRows>>) = <<>>
    /\ Head(<<Queue!Invert, Queue!RestoreRows>>).do = "inverse" /\ Queue!RestoreRows \in Steps
BY DEF Ends, Queue!RestoreRows, Queue!Invert, Steps

(* The two ways to say so agree.                                            *)
LEMMA EndingIs ==
    ASSUME NEW w \in Seq(Steps), NEW y
    PROVE  Ending(w, y) <=> \E t \in Ends : undo = w \o t /\ Closing(t, y)
<1>1. w \o <<>> = w
  BY Parting, EndsType DEF Ends
<1> QED BY <1>1 DEF Ending, Closing, Ends


(* Where an undo is, ...                                                    *)
LEMMA AtUndo ==
    ASSUME SoundQueue, qpc = "undo"
    PROVE  /\ Busy /\ TidyRows(rows) /\ Fine(disk, before.disk, rows)
           /\ \E w \in Seq(Steps) : \E y : \E t \in Ends :
                RunsTo(w, disk, y, before.disk, rows) /\ undo = w \o t /\ Closing(t, y)
<1>1. Busy /\ Undoing /\ TidyRows(rows) /\ Fine(disk, before.disk, rows)
  BY PhaseIs DEF SoundQueue, Busy
<1>2. PICK w, y : RunsTo(w, disk, y, before.disk, rows) /\ Ending(w, y)
  BY <1>1 DEF Undoing
<1>3. w \in Seq(Steps)
  BY <1>2, RunFine
<1>4. \E t \in Ends : undo = w \o t /\ Closing(t, y)
  BY <1>2, <1>3, EndingIs
<1> QED BY <1>1, <1>2, <1>3, <1>4

(* ... and after one of its steps.                                          *)
LEMMA UndoSound ==
    ASSUME QueueBounds, QueueTypes, SoundQueue, Queue!UndoStep
    PROVE  SoundQueue'
<1>1. /\ qpc = "undo" /\ undo # <<>> /\ Queue!Compensation /\ undo' = Tail(undo) /\ qpc' = qpc
           /\ cmd' = cmd
      /\ at' = at /\ before' = before /\ qcommands' = qcommands /\ crashes' = crashes
  BY DEF Queue!UndoStep, Queue!counts
<1>2. PICK w \in Seq(Steps) : \E y : \E t \in Ends :
           RunsTo(w, disk, y, before.disk, rows) /\ undo = w \o t /\ Closing(t, y)
  BY <1>1, AtUndo
<1>3. PICK y : \E t \in Ends :
           RunsTo(w, disk, y, before.disk, rows) /\ undo = w \o t /\ Closing(t, y)
  BY <1>2
<1>4. PICK t \in Ends : RunsTo(w, disk, y, before.disk, rows) /\ undo = w \o t /\ Closing(t, y)
  BY <1>3
<1>5. Busy /\ TidyRows(rows) /\ Fine(disk, before.disk, rows) /\ t \in Seq(Steps)
  BY <1>1, AtUndo, EndsType
<1>6. CASE w # <<>>
  <2>1. PICK z : Took(w[1], disk, z) /\ RunsTo(Tail(w), z, y, before.disk, rows)
    BY <1>4, <1>6, RunHead
  <2>2. Head(undo) = w[1] /\ Tail(undo) = Tail(w) \o t
    BY <1>4, <1>5, <1>6, Parting
  <2>3. disk' = z /\ rows' = rows
    BY <1>1, <2>1, <2>2 DEF Queue!Compensation, Took
  <2>4. Fine(z, before.disk, rows) /\ Tail(w) \in Seq(Steps)
    BY <2>1, RunFine
  <2>5. Froms' <=> Froms
    BY <1>1 DEF Froms, Queue!Half
  <2>7. undo' = Tail(w) \o t
    BY <1>1, <2>2
  <2>8. Ending(Tail(w), y)'
    <3>1. CASE t = <<>>
      <4>1. undo' = Tail(w)
        BY <2>4, <2>7, <3>1, Parting
      <4>2. y = before.disk /\ rows = before.rows
        BY <1>4, <3>1 DEF Closing
      <4> QED BY <1>1, <2>3, <4>1, <4>2 DEF Ending
    <3>2. CASE t = <<Queue!RestoreRows>>
      <4>1. y = before.disk
        BY <1>4, <3>2 DEF Closing
      <4> QED BY <1>1, <2>7, <3>2, <4>1 DEF Ending, Queue!RestoreRows
    <3>3. CASE t = <<Queue!Invert, Queue!RestoreRows>>
      <4>1. cmd.kind = "place" /\ cmd.committed /\ Froms
              /\ y = MovedBy(before.disk, cmd.moves, qcommands)
        BY <1>4, <3>3 DEF Closing
      <4>2. undo' = Tail(w) \o <<Queue!Invert, Queue!RestoreRows>>
        BY <2>7, <3>3
      <4> QED BY <1>1, <2>5, <4>1, <4>2 DEF Ending, Queue!RestoreRows, Queue!Invert
    <3> QED BY <3>1, <3>2, <3>3 DEF Ends
  <2>9. RunsTo(Tail(w), disk', y, before.disk', rows')
    BY <1>1, <2>1, <2>3
  <2>10. Undoing'
    BY <2>8, <2>9 DEF Undoing
  <2>11. Phase'
    BY <1>1, <2>10 DEF Phase
  <2>12. Fine(disk', before.disk', rows') /\ qpc' # "idle"
    BY <1>1, <2>3, <2>4
  <2>13. Busy'
    BY <1>1, <1>5, <2>11 DEF Busy
  <2> QED BY <1>5, <2>3, <2>12, <2>13 DEF SoundQueue
<1>7. CASE w = <<>>
  <2>1. undo = t /\ disk = y
    BY <1>4, <1>5, <1>7, Parting, RunFine
  <2>2. t = <<Queue!RestoreRows>> /\ y = before.disk
    BY <1>1, <1>4, <2>1, EndsType DEF Closing, Queue!Compensation
  <2>3. disk' = before.disk /\ rows' = before.rows /\ undo' = <<>>
    BY <1>1, <2>1, <2>2, EndsType DEF Queue!Compensation
  <2>4. before.disk \in Disks /\ Tidy(before.disk) /\ TidyRows(before.rows)
    BY <1>5 DEF Busy, QueueTypes
  <2>5. Fine(before.disk, before.disk, before.rows)
    BY <2>4, SelfFine
  <2>6. RunsTo(<<>>, before.disk, before.disk, before.disk, before.rows)
    BY <2>5, RunNone
  <2>7. Ending(<<>>, y)'
    BY <1>1, <2>2, <2>3 DEF Ending
  <2>8. RunsTo(<<>>, disk', y, before.disk', rows')
    BY <1>1, <2>2, <2>3, <2>6
  <2>10. Undoing'
    BY <2>7, <2>8 DEF Undoing
  <2>11. Phase'
    BY <1>1, <2>10 DEF Phase
  <2>12. Fine(disk', before.disk', rows') /\ TidyRows(rows') /\ qpc' # "idle"
    BY <1>1, <2>3, <2>4, <2>5
  <2>13. Busy'
    BY <1>1, <1>5, <2>11 DEF Busy
  <2> QED BY <2>12, <2>13 DEF SoundQueue
<1> QED BY <1>6, <1>7

(* An undo that is done has restored directory and rows.                    *)
LEMMA FailedSound ==
    ASSUME QueueBounds, QueueTypes, SoundQueue, Queue!Failed
    PROVE  SoundQueue'
<1>1. /\ qpc = "undo" /\ undo = <<>> /\ qpc' = "idle" /\ disk' = disk /\ rows' = rows
           /\ before' = before
      /\ crashes' = crashes
  BY DEF Queue!Failed, Queue!End, Queue!counts
<1>2. PICK w \in Seq(Steps) : \E y : \E t \in Ends :
           RunsTo(w, disk, y, before.disk, rows) /\ undo = w \o t /\ Closing(t, y)
  BY <1>1, AtUndo
<1>3. PICK y : \E t \in Ends :
           RunsTo(w, disk, y, before.disk, rows) /\ undo = w \o t /\ Closing(t, y)
  BY <1>2
<1>4. PICK t \in Ends : RunsTo(w, disk, y, before.disk, rows) /\ undo = w \o t /\ Closing(t, y)
  BY <1>3
<1>5. Busy /\ TidyRows(rows) /\ Fine(disk, before.disk, rows) /\ t \in Seq(Steps)
  BY <1>1, AtUndo, EndsType
<1>6. w = <<>> /\ t = <<>> /\ disk = y
  BY <1>1, <1>4, <1>5, Parting, RunFine
<1>7. disk = before.disk /\ rows = before.rows
  BY <1>4, <1>6 DEF Closing
<1>8. Resting'
  BY <1>1, <1>5, <1>7 DEF Resting, Busy
<1> QED BY <1>1, <1>5, <1>8 DEF SoundQueue

(* A process that dies leaves the bodies where they are.                    *)
LEMMA CrashSound ==
    ASSUME QueueBounds, QueueTypes, SoundQueue, Queue!Crash
    PROVE  SoundQueue'
<1>1. /\ qpc' = "idle" /\ disk' = disk /\ rows' = rows /\ before' = before /\ outcome' = "crashed"
      /\ crashes' = crashes + 1 /\ crashes \in Nat
  BY DEF Queue!Crash, Queue!End, QueueTypes
<1>2. crashes' # 0
  BY <1>1
<1>3. Resting'
  BY <1>1, <1>2 DEF Resting
<1> QED BY <1>1, <1>3 DEF SoundQueue

(* The inverse renumbering starts from the renumbered directory ...         *)
LEMMA InverseSound ==
    ASSUME QueueBounds, QueueTypes, SoundQueue, Queue!StartInverse
    PROVE  SoundQueue'
<1> DEFINE M == cmd.moves
           N == Queue!Inverted(M)
<1>1. /\ qpc = "undo" /\ undo # <<>> /\ Head(undo).do = "inverse"
      /\ cmd' = [cmd EXCEPT !.kind = "inverse", !.moves = N] /\ qpc' = "rename" /\ at' = 1
      /\ disk' = disk /\ rows' = rows /\ before' = before /\ qcommands' = qcommands
           /\ crashes' = crashes
  BY DEF Queue!StartInverse, Queue!counts
<1>2. PICK w \in Seq(Steps) : \E y : \E t \in Ends :
           RunsTo(w, disk, y, before.disk, rows) /\ undo = w \o t /\ Closing(t, y)
  BY <1>1, AtUndo
<1>3. PICK y : \E t \in Ends :
           RunsTo(w, disk, y, before.disk, rows) /\ undo = w \o t /\ Closing(t, y)
  BY <1>2
<1>4. PICK t \in Ends : RunsTo(w, disk, y, before.disk, rows) /\ undo = w \o t /\ Closing(t, y)
  BY <1>3
<1>5. Busy /\ TidyRows(rows) /\ Fine(disk, before.disk, rows) /\ t \in Seq(Steps)
  BY <1>1, AtUndo, EndsType
<1>6. w = <<>>
  <2>1. SUFFICES ASSUME w # <<>> PROVE FALSE
    OBVIOUS
  <2>2. PICK z : Took(w[1], disk, z)
    BY <1>4, <2>1, RunHead
  <2>3. Head(undo) = w[1]
    BY <1>4, <1>5, <2>1, Parting
  <2> QED BY <1>1, <2>2, <2>3 DEF Took
<1>7. undo = t /\ disk = y
  BY <1>4, <1>5, <1>6, Parting, RunFine
<1>8. disk = MovedBy(before.disk, M, qcommands) /\ Froms
  BY <1>1, <1>4, <1>7, EndsType DEF Closing
<1>9. /\ cmd'.kind = "inverse" /\ cmd'.moves = N
      /\ Apart(M) /\ qcommands \in Runs /\ Queue!Half \in Nat /\ DOMAIN M = 1..Queue!Half
           /\ Queue!Half = Len(M)
  <2>1. cmd'.kind = "inverse" /\ cmd'.moves = N
    <3> HIDE DEF N
    <3> QED BY <1>1 DEF QueueTypes, Plans
  <2>2. Queue!Half \in Nat /\ DOMAIN M = 1..Queue!Half
    BY HalfType DEF QueueTypes, Queue!Half, Plans
  <2> QED BY <1>5, <2>1, <2>2, QueueRun DEF Busy, Fits, Queue!Half
<1>10. /\ Apart(N) /\ DOMAIN N = DOMAIN M /\ Len(N) = Len(M) /\ Queue!Inverted(N) = M
       /\ \A k \in DOMAIN M : N[k].from = M[k].to /\ N[k].to = M[k].from
  BY <1>9, InvertedIs
<1> HIDE DEF N
<1>11. Queue!Half' = Queue!Half
  BY <1>9, <1>10 DEF Queue!Half
<1>12. Base' = MovedBy(before.disk, M, qcommands)
  BY <1>1, <1>9, <1>10 DEF Base
<1>13. Asides' = {} /\ Inplace' = {}
  BY <1>1, <1>9, <1>11 DEF Asides, Inplace
<1>14. Base' = disk /\ disk \in Disks /\ Tidy(disk)
  BY <1>5, <1>8, <1>12 DEF Fine
<1>15. Lay(disk, Where(disk, N, qcommands, {}, {})) = disk
  BY <1>14, UnmovedIs
<1>16. disk' = Lay(Base', Where(Base', cmd'.moves, qcommands', Asides', Inplace'))
  BY <1>1, <1>9, <1>13, <1>14, <1>15
<1>17. \A k \in 1..Queue!Half' : ~(k < at')
  BY <1>1, <1>9, <1>11
<1>18. \A k \in 1..Queue!Half' : cmd'.moves[k].to \in DOMAIN before.disk'
  <2>1. \A k \in 1..Queue!Half : N[k].to = M[k].from /\ M[k].from \in DOMAIN before.disk
    BY <1>8, <1>9, <1>10 DEF Froms
  <2> QED BY <1>1, <1>9, <1>11, <2>1
<1>19. Renumbering'
  BY <1>9, <1>16, <1>17, <1>18 DEF Renumbering
<1>20. Phase' /\ qpc' # "idle"
  BY <1>1, <1>19 DEF Phase
<1>21. Fits(cmd', before.disk', before.rows')
  <2>1. cmd'.drop = {}
    BY <1>1, <1>4, <1>7, EndsType DEF QueueTypes, KindAt, Plans, Closing
  <2> QED BY <1>9, <1>10, <2>1 DEF Fits
<1>22. Busy'
  BY <1>1, <1>5, <1>20, <1>21 DEF Busy
<1> QED BY <1>1, <1>5, <1>20, <1>22 DEF SoundQueue


(* ... and its save has the old rows; any other has the new ones.           *)
LEMMA SaveSound ==
    ASSUME QueueBounds, QueueTypes, SoundQueue, Queue!SaveRenumbered
    PROVE  SoundQueue'
<1> DEFINE M == cmd.moves
<1>1. /\ qpc = "save" /\ rows' = RowsBy(M, rows) /\ at' = 1 /\ disk' = disk /\ before' = before
      /\ qcommands' = qcommands /\ crashes' = crashes
  BY RowsAre DEF Queue!SaveRenumbered, Queue!counts
<1>2. at = 2 * Queue!Half + 1 /\ Queue!Half \in Nat /\ Queue!Half >= 1 /\ DOMAIN M = 1..Queue!Half
      /\ cmd.kind \in {"renumber", "place", "inverse"}
  BY <1>1, HalfType DEF QueueTypes, KindAt, Queue!Half, Plans
<1>3. Busy /\ Renumbering /\ TidyRows(rows) /\ Fine(disk, before.disk, rows)
  BY <1>1, PhaseIs DEF SoundQueue, Busy
<1>4. /\ Base \in Disks /\ Tidy(Base) /\ Apart(M) /\ qcommands \in Runs
      /\ \A p : Queue!HasBody(before.disk, p) <=> Queue!HasBody(Base, p)
  BY <1>3, BaseIs
<1>5. Asides = {} /\ Inplace = DOMAIN M
  BY <1>2 DEF Asides, Inplace
<1>6. disk = MovedBy(Base, M, qcommands)
  BY <1>3, <1>5 DEF Renumbering, MovedBy
<1>7. rows \in SUBSET Queue!Row /\ before.rows \in SUBSET Queue!Row /\ TidyRows(rows')
  BY <1>1, <1>3, <1>4, RowsByTidy DEF QueueTypes
<1>8. Fine(disk, before.disk, rows')
  <2>1. Halves(M, {}, DOMAIN M)
    BY <1>4, AllHalves
  <2>2. Fine(Lay(Base, Where(Base, M, qcommands, {}, DOMAIN M)), Base, rows')
    BY <1>4, <2>1, LaidFine
  <2>3. Fine(disk, Base, rows')
    BY <1>6, <2>2 DEF MovedBy
  <2> QED BY <1>4, <2>3, FineFrom
<1>9. \A k \in 1..Queue!Half : cmd.moves[k].from \in DOMAIN Base
  <2>1. \A k \in 1..Queue!Half : k < at
    BY <1>2
  <2> QED BY <1>3, <2>1 DEF Renumbering
<1>10. CASE cmd.kind = "renumber"
  <2>1. qpc' = "idle" /\ outcome' = "done"
    BY <1>10 DEF Queue!SaveRenumbered, Queue!End
  <2>2. rows = before.rows /\ Base = before.disk
    BY <1>3, <1>10 DEF Renumbering, Base
  <2>3. ASSUME crashes = 0 PROVE rows' = RowsOf(disk)
    <3>1. rows = RowsOf(Base)
      BY <1>3, <2>2, <2>3 DEF Busy
    <3> QED BY <1>1, <1>4, <1>6, <3>1, RowsByDisk
  <2>4. Resting'
    BY <1>1, <2>1, <2>3 DEF Resting
  <2> QED BY <1>1, <1>7, <1>8, <2>1, <2>4 DEF SoundQueue
<1>11. CASE cmd.kind = "place"
  <2>1. qpc' = "write" /\ cmd' = [cmd EXCEPT !.committed = TRUE]
    BY <1>11 DEF Queue!SaveRenumbered
  <2>2. /\ cmd'.moves = M /\ cmd'.drop = cmd.drop /\ cmd'.kind = "place" /\ cmd'.name = cmd.name
        /\ cmd'.body = cmd.body /\ cmd'.committed = TRUE
    BY <1>11, <2>1 DEF QueueTypes, Plans
  <2>3. rows = before.rows /\ Base = before.disk /\ Queue!Half' = Queue!Half
    BY <1>3, <1>11, <2>2 DEF Renumbering, Base, Queue!Half
  <2>4. Froms'
    BY <1>1, <1>9, <2>2, <2>3 DEF Froms
  <2>5. Renumbered'
    BY <1>1, <2>2, <2>3, <2>4 DEF Renumbered
  <2>6. disk' = MovedBy(before.disk', cmd'.moves, qcommands')
    BY <1>1, <1>6, <2>2, <2>3
  <2>7. QueueWriting'
    BY <2>5, <2>6 DEF QueueWriting
  <2>8. Phase' /\ qpc' # "idle"
    BY <2>1, <2>7 DEF Phase
  <2>9. Fits(cmd', before.disk', before.rows')
    BY <1>1, <1>3, <1>11, <2>2 DEF Busy, Fits
  <2>10. Busy'
    BY <1>1, <1>3, <2>8, <2>9 DEF Busy
  <2> QED BY <1>1, <1>7, <1>8, <2>8, <2>10 DEF SoundQueue
<1>12. CASE cmd.kind = "inverse"
  <2> DEFINE N == Queue!Inverted(M)
  <2>0. PICK x : x = before.disk
    OBVIOUS
  <2>1. qpc' = "undo" /\ undo' = Queue!Cleanup /\ cmd' = cmd
    BY <1>12 DEF Queue!SaveRenumbered
  <2>2. undo' = <<Queue!RestoreRows>>
    BY <1>12, <2>1 DEF Queue!Cleanup
  <2>3. /\ Apart(N) /\ DOMAIN N = DOMAIN M /\ Queue!Inverted(N) = M
        /\ \A k \in DOMAIN M : N[k].from = M[k].to
    BY <1>4, InvertedIs
  <2>4. \A k \in DOMAIN N : N[k].from \in DOMAIN x
    BY <1>2, <1>3, <1>12, <2>0, <2>3 DEF Renumbering
  <2>5. x \in Disks /\ Tidy(x) /\ qcommands \in Runs
    BY <1>3, <1>4, <2>0 DEF Busy, QueueTypes
  <2>6. Base = MovedBy(x, N, qcommands)
    BY <1>12, <2>0 DEF Base
  <2> HIDE DEF N
  <2>7. MovedBy(MovedBy(x, N, qcommands), Queue!Inverted(N), qcommands) = x
    BY <2>3, <2>4, <2>5, MovedBack
  <2>8. disk = x
    BY <1>6, <2>3, <2>6, <2>7
  <2>9. RunsTo(<<>>, x, x, x, rows')
    BY <2>5, SelfFine, RunNone
  <2>10. undo' = <<>> \o <<Queue!RestoreRows>>
    BY <2>2
  <2>11. x = before.disk' /\ disk' = x
    BY <1>1, <2>0, <2>8
  <2>12. Ending(<<>>, x)'
    BY <2>10, <2>11 DEF Ending, Queue!RestoreRows
  <2>13. RunsTo(<<>>, disk', x, before.disk', rows')
    BY <2>9, <2>11
  <2>14. Undoing'
    BY <2>12, <2>13 DEF Undoing
  <2>15. Phase' /\ qpc' # "idle"
    BY <2>1, <2>14 DEF Phase
  <2>16. Busy'
    BY <1>1, <1>3, <2>1, <2>15 DEF Busy
  <2> QED BY <1>1, <1>7, <1>8, <2>15, <2>16 DEF SoundQueue
<1> QED BY <1>2, <1>10, <1>11, <1>12


(* A body written, under the name of its patch.                             *)
LEMMA PutTidy ==
    ASSUME OwnNames, NEW y \in Disks, Tidy(y), NEW m \in Queue!FileName, NEW b \in Queue!Body,
           m.slug = Slug[b.id],
           Queue!HasBody(y, b.id) => m \in DOMAIN y /\ b.id = y[m].id
    PROVE  /\ Queue!Put(y, m, b) \in Disks /\ Tidy(Queue!Put(y, m, b))
           /\ \A p : Queue!HasBody(y, p) => Queue!HasBody(Queue!Put(y, m, b), p)
           /\ Queue!HasBody(Queue!Put(y, m, b), b.id)
<1> DEFINE z == Queue!Put(y, m, b)
<1>1. DOMAIN z = DOMAIN y \cup {m} /\ z[m] = b /\ \A l \in DOMAIN y : l # m => z[l] = y[l]
  BY DEF Queue!Put
<1>2. z \in Disks
  BY PutType
<1> HIDE DEF z
<1>3. ASSUME NEW l \in DOMAIN y, l.slug = m.slug PROVE l = m
  <2>1. Slug[y[l].id] = Slug[b.id] /\ y[l].id \in Patches /\ b.id \in Patches
    BY <1>3, DiskType DEF Tidy, Queue!Body
  <2>2. Queue!HasBody(y, b.id)
    BY <2>1 DEF OwnNames, Queue!HasBody
  <2> QED BY <1>3, <2>2 DEF Tidy
<1>4. Tidy(z)
  BY <1>1, <1>3 DEF Tidy
<1>5. ASSUME m \in DOMAIN y PROVE b.id = y[m].id
  <2>1. Slug[y[m].id] = Slug[b.id] /\ y[m].id \in Patches /\ b.id \in Patches
    BY <1>5, DiskType DEF Tidy, Queue!Body
  <2> QED BY <2>1 DEF OwnNames
<1>6. ASSUME NEW p, Queue!HasBody(y, p) PROVE Queue!HasBody(z, p)
  <2>1. PICK l \in DOMAIN y : y[l].id = p
    BY <1>6 DEF Queue!HasBody
  <2>2. l \in DOMAIN z /\ z[l].id = p
    BY <1>1, <1>5, <2>1
  <2> QED BY <2>2 DEF Queue!HasBody
<1>7. Queue!HasBody(z, b.id)
  BY <1>1 DEF Queue!HasBody
<1> QED BY <1>2, <1>4, <1>6, <1>7 DEF z

(* The directory a body is written to.                                       *)
LEMMA TargetIs ==
    ASSUME QueueBounds, OwnNames, QueueTypes, Busy, Renumbered,
           cmd.kind \in {"export", "place", "update"},
           NEW y, y = MovedBy(before.disk, cmd.moves, qcommands)
    PROVE  /\ y \in Disks /\ Tidy(y) /\ \A p : Queue!HasBody(before.disk, p) <=> Queue!HasBody(y, p)
           /\ cmd.name \in Queue!FileName /\ cmd.body \in Queue!Body
                /\ cmd.name.slug = Slug[cmd.body.id]
           /\ Queue!HasBody(y, cmd.body.id) => cmd.name \in DOMAIN y /\ cmd.body.id = y[cmd.name].id
           /\ cmd.moves = <<>> => y = before.disk
           /\ cmd.kind # "update" => ~Queue!HasBody(y, cmd.body.id) /\ cmd.name \notin DOMAIN y
<1> DEFINE x == before.disk
           W == Where(x, cmd.moves, qcommands, {}, DOMAIN cmd.moves)
<1>1. x \in Disks /\ Tidy(x) /\ Apart(cmd.moves) /\ qcommands \in Runs
  BY QueueRun DEF Busy, Fits, QueueTypes
<1>2. Keeping(x, W)
  BY <1>1, WhereKeeps, AllHalves
<1>3. y = Lay(x, W)
  BY DEF MovedBy
<1>4. cmd.moves = <<>> => y = x
  BY <1>1, UnmovedIs DEF MovedBy
<1> HIDE DEF W, x
<1>5. y \in Disks /\ Tidy(y)
  BY <1>1, <1>2, <1>3, LayIs
<1>6. \A p : Queue!HasBody(x, p) <=> Queue!HasBody(y, p)
  BY <1>1, <1>2, <1>3, LayBodies
<1>7. cmd.name \in Queue!FileName /\ cmd.body \in Queue!Body
  BY DEF QueueTypes, KindAt, Plans
<1>8. CASE cmd.kind # "update"
  <2>1. cmd.name.slug = Slug[cmd.body.id] /\ ~Queue!HasBody(x, cmd.body.id)
    BY <1>8 DEF Busy, Fits, x
  <2>2. cmd.name \notin DOMAIN y
    <3>1. SUFFICES ASSUME cmd.name \in DOMAIN y PROVE FALSE
      OBVIOUS
    <3>2. Slug[y[cmd.name].id] = Slug[cmd.body.id] /\ y[cmd.name].id \in Patches
            /\ cmd.body.id \in Patches
      BY <1>5, <1>7, <2>1, <3>1, DiskType DEF Tidy, Queue!Body
    <3>3. Queue!HasBody(y, cmd.body.id)
      BY <3>1, <3>2 DEF OwnNames, Queue!HasBody
    <3> QED BY <1>6, <2>1, <3>3
  <2> QED BY <1>4, <1>5, <1>6, <1>7, <1>8, <2>1, <2>2 DEF x
<1>9. CASE cmd.kind = "update"
  <2>1. cmd.moves = <<>> /\ cmd.name \in DOMAIN x /\ cmd.body.id = x[cmd.name].id
    BY <1>9 DEF Busy, Fits, x
  <2>2. cmd.name.slug = Slug[cmd.body.id]
    BY <1>1, <2>1 DEF Tidy
  <2>3. cmd.name \in DOMAIN y /\ cmd.body.id = y[cmd.name].id
    BY <1>4, <2>1
  <2> QED BY <1>4, <1>5, <1>6, <1>7, <1>9, <2>2, <2>3 DEF x
<1> QED BY <1>8, <1>9

(* The body of an export, a placement or an update.                         *)
LEMMA WriteSound ==
    ASSUME QueueBounds, OwnNames, QueueTypes, SoundQueue, Queue!WriteBody
    PROVE  SoundQueue'
<1> DEFINE y == MovedBy(before.disk, cmd.moves, qcommands)
<1>1. /\ qpc = "write" /\ disk' = Queue!Put(disk, cmd.name, cmd.body) /\ qpc' = "row" /\ cmd' = cmd
           /\ rows' = rows
      /\ before' = before /\ qcommands' = qcommands /\ crashes' = crashes
      /\ cmd.kind \in {"export", "place", "update"}
  BY DEF Queue!WriteBody, Queue!Goto, Queue!counts, QueueTypes, KindAt
<1>2. Busy /\ Renumbered /\ disk = y /\ TidyRows(rows) /\ Fine(disk, before.disk, rows)
  BY <1>1, PhaseIs DEF SoundQueue, Busy, QueueWriting
<1> HIDE DEF y
<1>3. /\ disk \in Disks /\ Tidy(disk)
           /\ \A p : Queue!HasBody(before.disk, p) <=> Queue!HasBody(disk, p)
      /\ cmd.name \in Queue!FileName /\ cmd.body \in Queue!Body /\ cmd.name.slug = Slug[cmd.body.id]
      /\ Queue!HasBody(disk, cmd.body.id) => cmd.name \in DOMAIN disk
           /\ cmd.body.id = disk[cmd.name].id
  BY <1>1, <1>2, TargetIs DEF y
<1>4. disk' \in Disks /\ Tidy(disk') /\ \A p : Queue!HasBody(disk, p) => Queue!HasBody(disk', p)
  BY <1>1, <1>3, PutTidy
<1>5. Fine(disk', before.disk', rows')
  BY <1>1, <1>3, <1>4 DEF Fine
<1>6. Renumbered'
  BY <1>1, <1>2 DEF Renumbered, Froms, Queue!Half
<1>7. Adding'
  BY <1>1, <1>2, <1>6 DEF Adding, y
<1>8. Phase' /\ qpc' # "idle"
  BY <1>1, <1>7 DEF Phase
<1>9. Busy'
  BY <1>1, <1>2, <1>8 DEF Busy
<1> QED BY <1>1, <1>2, <1>5, <1>8, <1>9 DEF SoundQueue

(* The rows of an update, and the directory they describe.                   *)
LEMMA UpdateSound ==
    ASSUME QueueBounds, OwnNames, QueueTypes, SoundQueue, Queue!WriteRow, cmd.kind = "update"
    PROVE  SoundQueue'
<1> DEFINE x == before.disk
           b == cmd.body
           m == cmd.name
<1>1. /\ qpc = "row" /\ disk' = disk /\ before' = before /\ crashes' = crashes
      /\ rows' = {IF r.name = m THEN [r EXCEPT !.ver = b.ver] ELSE r : r \in rows}
      /\ cmd.drop = {} /\ qpc' = "idle" /\ outcome' = "done"
  BY DEF Queue!WriteRow, Queue!counts, QueueTypes, KindAt, Queue!End
<1>2. Busy /\ Renumbered /\ TidyRows(rows) /\ Fine(disk, x, rows)
      /\ disk = Queue!Put(MovedBy(x, cmd.moves, qcommands), m, b)
  BY <1>1, PhaseIs DEF SoundQueue, Busy, Adding
<1>3. m \in DOMAIN x /\ b.id = x[m].id /\ cmd.moves = <<>>
  BY <1>2 DEF Busy, Fits
<1>4. MovedBy(x, cmd.moves, qcommands) = x
  BY <1>2, <1>3, TargetIs
<1>5. rows = before.rows /\ rows \in SUBSET Queue!Row
  BY <1>2, <1>3, RowsByNone, NoneApart DEF Renumbered, QueueTypes
<1>6. DOMAIN disk = DOMAIN x /\ disk[m] = b /\ \A l \in DOMAIN x : l # m => disk[l] = x[l]
  BY <1>2, <1>3, <1>4 DEF Queue!Put
<1>7. ASSUME NEW s \in rows'
      PROVE \E r \in rows : s.id = r.id /\ s.name = r.name /\ (s.name # m => s = r)
  <2>1. PICK r \in rows : s = IF r.name = m THEN [r EXCEPT !.ver = b.ver] ELSE r
    BY <1>1
  <2>2. r \in Queue!Row
    BY <1>5
  <2>3. s.id = r.id /\ s.name = r.name /\ (s.name # m => s = r)
    BY <2>1, <2>2 DEF Queue!Row
  <2> QED BY <2>3
<1>8. \A s \in rows' : s.name = m => s.ver = b.ver
  BY <1>1, <1>5 DEF Queue!Row
<1>9. TidyRows(rows')
  <2>1. ASSUME NEW s \in rows', NEW t \in rows', s.name.slug = t.name.slug PROVE s = t
    <3>1. PICK r \in rows : s = IF r.name = m THEN [r EXCEPT !.ver = b.ver] ELSE r
      BY <1>1
    <3>2. PICK q \in rows : t = IF q.name = m THEN [q EXCEPT !.ver = b.ver] ELSE q
      BY <1>1
    <3>3. r.name = s.name /\ q.name = t.name
      BY <1>5, <3>1, <3>2 DEF Queue!Row
    <3>4. r = q
      BY <1>2, <2>1, <3>3 DEF TidyRows
    <3> QED BY <3>1, <3>2, <3>4
  <2>2. ASSUME NEW s \in rows' PROVE s.name.slug = Slug[s.id]
    BY <1>2, <1>7 DEF TidyRows
  <2> QED BY <2>1, <2>2 DEF TidyRows
<1>10. Fine(disk', before.disk', rows')
  BY <1>1, <1>2, <1>7 DEF Fine
<1>11. ASSUME crashes = 0 PROVE rows' = RowsOf(disk)
  <2> DEFINE Of(z, l) == [id |-> z[l].id, ver |-> z[l].ver, name |-> l]
             Up(r) == IF r.name = m THEN [r EXCEPT !.ver = b.ver] ELSE r
  <2>1. rows = {Of(x, l) : l \in DOMAIN x}
    BY <1>2, <1>5, <1>11 DEF Busy, RowsOf
  <2>2. RowsOf(disk) = {Of(disk, l) : l \in DOMAIN x}
    BY <1>6 DEF RowsOf
  <2>3. \A l \in DOMAIN x : Up(Of(x, l)) = Of(disk, l)
    BY <1>3, <1>6
  <2>4. rows' = {Up(r) : r \in rows}
    BY <1>1
  <2> HIDE DEF Of, Up
  <2>5. rows' = {Up(Of(x, l)) : l \in DOMAIN x}
    BY <2>1, <2>4
  <2> QED BY <2>2, <2>3, <2>5
<1>12. Resting'
  BY <1>1, <1>11 DEF Resting
<1> QED BY <1>1, <1>9, <1>10, <1>12 DEF SoundQueue


(* What is still in some file once those of some rows are gone.              *)
LEMMA DropKeeps ==
    ASSUME OwnNames, NEW b \in Disks, Tidy(b), NEW S \in SUBSET Queue!Row, TidyRows(S), NEW X,
           \A m \in X : \E r \in S : r.name = m,
           NEW x, \A m \in DOMAIN b : m \notin X => m \in DOMAIN x /\ x[m] = b[m],
           NEW r \in S, r.name \notin X, Queue!HasBody(b, r.id)
    PROVE  Queue!HasBody(x, r.id)
<1>1. PICK m \in DOMAIN b : b[m].id = r.id
  BY DEF Queue!HasBody
<1>2. m.slug = r.name.slug
  BY <1>1 DEF Tidy, TidyRows
<1>3. m \notin X
  BY <1>2 DEF TidyRows
<1> QED BY <1>1, <1>3 DEF Queue!HasBody

(* Some of the files are in order as all are.                               *)
LEMMA PartTidy ==
    ASSUME NEW b, Tidy(b), NEW x, \A m \in DOMAIN x : m \in DOMAIN b /\ x[m] = b[m]
    PROVE  Tidy(x)
BY DEF Tidy

(* A directory without one file.                                            *)
LEMMA WithoutIs ==
    ASSUME NEW x, NEW m
    PROVE  /\ DOMAIN Queue!Without(x, m) = DOMAIN x \ {m}
           /\ \A l \in DOMAIN x : l # m => Queue!Without(x, m)[l] = x[l]
           /\ x \in Disks /\ m \notin DOMAIN x => Queue!Without(x, m) = x
<1>1. Queue!Without(x, m) = [l \in DOMAIN x \cap (DOMAIN x \ {m}) |-> x[l]]
  BY DEF Queue!Without, Queue!Restrict
<1>2. /\ DOMAIN Queue!Without(x, m) = DOMAIN x \ {m}
      /\ \A l \in DOMAIN x : l # m => Queue!Without(x, m)[l] = x[l]
  BY <1>1
<1>3. ASSUME x \in Disks, m \notin DOMAIN x PROVE Queue!Without(x, m) = x
  <2>1. x = [l \in DOMAIN x |-> x[l]]
    BY <1>3, DiskType
  <2>2. DOMAIN x \cap (DOMAIN x \ {m}) = DOMAIN x
    BY <1>3
  <2> QED BY <1>1, <2>1, <2>2
<1> QED BY <1>2, <1>3

(* The row of a new patch, and the rows it supersedes.                       *)
LEMMA AddSound ==
    ASSUME QueueBounds, OwnNames, QueueTypes, SoundQueue, Queue!WriteRow, cmd.kind # "update"
    PROVE  SoundQueue'
<1> DEFINE x == before.disk
           y == MovedBy(x, cmd.moves, qcommands)
           b == cmd.body
           m == cmd.name
           X == cmd.drop \cup {m}
<1>1. /\ qpc = "row" /\ disk' = disk /\ before' = before /\ qcommands' = qcommands
           /\ crashes' = crashes
      /\ rows' = {r \in rows : r.name \notin X} \cup {NewRow}
      /\ cmd.kind \in {"export", "place"}
  BY DEF Queue!WriteRow, Queue!counts, QueueTypes, KindAt, NewRow
<1>2. Busy /\ Renumbered /\ TidyRows(rows) /\ Fine(disk, x, rows) /\ disk = Queue!Put(y, m, b)
  BY <1>1, PhaseIs DEF SoundQueue, Busy, Adding
<1>3. /\ y \in Disks /\ Tidy(y) /\ \A p : Queue!HasBody(x, p) <=> Queue!HasBody(y, p)
      /\ m \in Queue!FileName /\ b \in Queue!Body /\ m.slug = Slug[b.id]
      /\ ~Queue!HasBody(y, b.id) /\ m \notin DOMAIN y
      /\ cmd.moves = <<>> => y = x
  BY <1>1, <1>2, TargetIs
<1>4. DOMAIN disk = DOMAIN y \cup {m} /\ disk[m] = b /\ \A l \in DOMAIN y : disk[l] = y[l]
  BY <1>2, <1>3 DEF Queue!Put
<1>5. NewRow \in Queue!Row /\ NewRow.id = b.id /\ NewRow.name = m /\ NewRow.ver = b.ver
  BY <1>3 DEF NewRow, Queue!Row, Queue!Body
<1>6. ASSUME NEW r \in rows PROVE r.id # b.id /\ r.id \in Patches /\ r.name.slug # m.slug
  <2>1. before.rows \in SUBSET Queue!Row /\ Apart(cmd.moves) /\ TidyRows(before.rows)
    BY <1>2 DEF QueueTypes, Busy, Fits
  <2>2. \E s \in before.rows : r.id = s.id
    BY <1>2, <2>1, RowsByTidy DEF Renumbered
  <2>3. \A s \in before.rows : s.id # b.id
    BY <1>1, <1>2 DEF Busy, Fits
  <2>4. r.id # b.id
    BY <2>2, <2>3
  <2>5. r.id \in Patches /\ b.id \in Patches
    BY <1>3 DEF QueueTypes, Queue!Row, Queue!Body
  <2>6. r.name.slug = Slug[r.id]
    BY <1>2 DEF TidyRows
  <2> QED BY <1>3, <2>4, <2>5, <2>6 DEF OwnNames
<1>7. TidyRows(rows')
  <2>1. \A r \in rows' : r = NewRow \/ r \in rows
    BY <1>1
  <2> HIDE DEF m, b
  <2>2. \A r \in rows' : r.name.slug = Slug[r.id]
    BY <1>2, <1>3, <1>5, <2>1 DEF TidyRows
  <2>3. \A r, s \in rows' : r.name.slug = s.name.slug => r = s
    BY <1>2, <1>5, <1>6, <2>1 DEF TidyRows
  <2> QED BY <2>2, <2>3 DEF TidyRows
<1>8. Fine(disk', before.disk', rows')
  <2>1. Queue!HasBody(disk, b.id)
    BY <1>4 DEF Queue!HasBody
  <2>2. \A r \in rows' : Queue!HasBody(x, r.id) => Queue!HasBody(disk, r.id)
    BY <1>1, <1>2, <1>5, <2>1 DEF Fine
  <2> QED BY <1>1, <1>2, <2>2 DEF Fine
<1>9. CASE cmd.drop = {}
  <2>1. qpc' = "idle" /\ outcome' = "done"
    BY <1>9 DEF Queue!WriteRow, Queue!End
  <2>2. ASSUME crashes = 0 PROVE rows' = RowsOf(disk)
    <3>1. before.rows = RowsOf(x) /\ x \in Disks /\ Tidy(x) /\ Apart(cmd.moves)
            /\ qcommands \in Runs
      BY <1>2, <2>2, QueueRun DEF Busy, QueueTypes, Fits
    <3>2. rows = RowsOf(y)
      <4> HIDE DEF x
      <4>1. RowsBy(cmd.moves, RowsOf(x)) = RowsOf(MovedBy(x, cmd.moves, qcommands))
        BY <3>1, RowsByDisk
      <4> QED BY <1>2, <3>1, <4>1 DEF Renumbered
    <3>3. rows' = rows \cup {NewRow}
      <4>1. \A r \in rows : r.name \notin X
        BY <1>6, <1>9
      <4> QED BY <1>1, <4>1
    <3> HIDE DEF y
    <3> QED BY <1>4, <1>5, <3>2, <3>3 DEF RowsOf, NewRow
  <2>3. Resting'
    BY <1>1, <2>1, <2>2 DEF Resting
  <2> QED BY <1>7, <1>8, <2>1, <2>3 DEF SoundQueue
<1>10. CASE cmd.drop # {}
  <2>1. qpc' = "drop" /\ cmd' = cmd
    BY <1>10 DEF Queue!WriteRow, Queue!Goto
  <2>2. cmd.kind = "export" /\ cmd.moves = <<>>
    BY <1>1, <1>2, <1>10 DEF QueueTypes, KindAt, Busy, Fits
  <2>3. y = x /\ rows = before.rows
    BY <1>2, <1>3, <2>2, RowsByNone, NoneApart DEF Renumbered, QueueTypes
  <2> HIDE DEF y
  <2>4. NewRow' = NewRow
    BY <2>1 DEF NewRow
  <2>5. rows' = {r \in before.rows' : r.name \notin cmd'.drop \cup {cmd'.name}} \cup {NewRow'}
    BY <1>1, <2>1, <2>3, <2>4
  <2>6. Dropping'
    BY <1>1, <1>4, <2>1, <2>3, <2>5 DEF Dropping
  <2>7. Phase' /\ qpc' # "idle"
    BY <2>1, <2>6 DEF Phase
  <2>8. Busy'
    BY <1>1, <1>2, <2>1, <2>7 DEF Busy
  <2> QED BY <1>7, <1>8, <2>7, <2>8 DEF SoundQueue
<1> QED BY <1>9, <1>10

(* The directory an export leaves behind, whatever of the superseded files   *)
(* is still there.                                                           *)
LEMMA DroppingIs ==
    ASSUME QueueBounds, OwnNames, QueueTypes, Busy, cmd.kind = "export", NEW R,
           R = {r \in before.rows : r.name \notin cmd.drop \cup {cmd.name}} \cup {NewRow},
           NEW x \in Disks, Tidy(x),
           Queue!HasBody(before.disk, cmd.body.id) => Queue!HasBody(x, cmd.body.id),
           \A m \in DOMAIN before.disk : m \notin cmd.drop => m \in DOMAIN x
                                           /\ x[m] = before.disk[m]
    PROVE  Fine(x, before.disk, R)
<1>1. /\ before.disk \in Disks /\ Tidy(before.disk) /\ before.rows \in SUBSET Queue!Row
           /\ TidyRows(before.rows)
      /\ \A m \in cmd.drop : \E r \in before.rows : r.name = m
  BY DEF Busy, Fits, QueueTypes
<1>2. ASSUME NEW r \in R, Queue!HasBody(before.disk, r.id) PROVE Queue!HasBody(x, r.id)
  <2>1. CASE r = NewRow
    BY <1>2, <2>1 DEF NewRow
  <2>2. CASE r # NewRow
    <3> DEFINE b == before.disk
               S == before.rows
               X == cmd.drop
    <3>1. r \in S /\ r.name \notin X /\ Queue!HasBody(b, r.id)
      BY <1>2, <2>2
    <3>2. /\ b \in Disks /\ Tidy(b) /\ S \in SUBSET Queue!Row /\ TidyRows(S)
          /\ \A m \in X : \E q \in S : q.name = m
          /\ \A m \in DOMAIN b : m \notin X => m \in DOMAIN x /\ x[m] = b[m]
      BY <1>1
    <3> HIDE DEF b, S, X
    <3> QED BY <3>1, <3>2, DropKeeps
  <2> QED BY <2>1, <2>2
<1> QED BY <1>2 DEF Fine

(* The file of a new patch is not there, nor is its name superseded.        *)
LEMMA ExportName ==
    ASSUME QueueBounds, OwnNames, QueueTypes, Busy, cmd.kind = "export"
    PROVE  /\ cmd.name \notin DOMAIN before.disk /\ cmd.name \notin cmd.drop
           /\ cmd.drop \subseteq DOMAIN before.disk /\ ~Queue!HasBody(before.disk, cmd.body.id)
           /\ cmd.name.slug = Slug[cmd.body.id]
<1>1. /\ before.disk \in Disks /\ Tidy(before.disk) /\ ~Queue!HasBody(before.disk, cmd.body.id)
      /\ cmd.name.slug = Slug[cmd.body.id] /\ cmd.body \in Queue!Body
           /\ cmd.drop \subseteq DOMAIN before.disk
  BY DEF Busy, Fits, QueueTypes, KindAt
<1>2. ASSUME cmd.name \in DOMAIN before.disk PROVE FALSE
  <2>1. Slug[before.disk[cmd.name].id] = Slug[cmd.body.id] /\ before.disk[cmd.name].id \in Patches
        /\ cmd.body.id \in Patches
    BY <1>1, <1>2, DiskType DEF Tidy, Queue!Body
  <2> QED BY <1>1, <1>2, <2>1 DEF OwnNames, Queue!HasBody
<1> QED BY <1>1, <1>2

(* A superseded file goes: no row lists it.                                 *)
LEMMA DropSound ==
    ASSUME QueueBounds, OwnNames, QueueTypes, SoundQueue, Queue!DropSuperseded
    PROVE  SoundQueue'
<1> DEFINE x == before.disk
<1>1. PICK m \in cmd.drop \cap DOMAIN disk :
           /\ disk' = Queue!Without(disk, m)
           /\ IF cmd.drop \cap DOMAIN disk = {m} THEN Queue!End("done") ELSE Queue!Goto("drop")
  BY DEF Queue!DropSuperseded
<1>2. /\ qpc = "drop" /\ rows' = rows /\ before' = before /\ qcommands' = qcommands
           /\ crashes' = crashes
      /\ cmd.kind = "export"
  BY DEF Queue!DropSuperseded, Queue!counts, QueueTypes, KindAt
<1>3. Busy /\ Dropping /\ TidyRows(rows) /\ Fine(disk, x, rows)
  BY <1>2, PhaseIs DEF SoundQueue, Busy
<1>4. m # cmd.name /\ cmd.name \notin DOMAIN x /\ cmd.drop \subseteq DOMAIN x
  BY <1>2, <1>3, ExportName
<1>5. DOMAIN disk' = DOMAIN disk \ {m} /\ \A l \in DOMAIN disk : l # m => disk'[l] = disk[l]
  BY <1>1, WithoutIs
<1>6. disk' \in Disks /\ disk \in Disks /\ Tidy(disk)
  BY <1>1, <1>3, WithoutType DEF Fine
<1>7. Tidy(disk')
  BY <1>5, <1>6, PartTidy
<1>8. \A l \in DOMAIN x : l \notin cmd.drop => l \in DOMAIN disk' /\ disk'[l] = x[l]
  BY <1>1, <1>3, <1>4, <1>5 DEF Dropping
<1>9. Queue!HasBody(disk', cmd.body.id)
  BY <1>3, <1>4, <1>5 DEF Dropping, Queue!HasBody
<1>10. Fine(disk', x, rows)
  <2>1. rows = {r \in before.rows : r.name \notin cmd.drop \cup {cmd.name}} \cup {NewRow}
    BY <1>3 DEF Dropping
  <2> QED BY <1>2, <1>3, <1>6, <1>7, <1>8, <1>9, <2>1, DroppingIs
<1>11. CASE cmd.drop \cap DOMAIN disk = {m}
  <2>1. qpc' = "idle" /\ outcome' = "done"
    BY <1>1, <1>11 DEF Queue!End
  <2>2. ASSUME crashes = 0 PROVE rows = RowsOf(disk')
    <3>1. before.rows = RowsOf(x)
      BY <1>3, <2>2 DEF Busy
    <3>2. DOMAIN disk' = (DOMAIN x \ cmd.drop) \cup {cmd.name}
      BY <1>3, <1>4, <1>5, <1>8, <1>11 DEF Dropping
    <3>3. disk'[cmd.name] = cmd.body /\ \A l \in DOMAIN x \ cmd.drop : disk'[l] = x[l]
      BY <1>3, <1>4, <1>5, <1>8 DEF Dropping
    <3>4. rows = {r \in RowsOf(x) : r.name \notin cmd.drop \cup {cmd.name}} \cup {NewRow}
      BY <1>3, <3>1 DEF Dropping
    <3> DEFINE Of(z, l) == [id |-> z[l].id, ver |-> z[l].ver, name |-> l]
               Y == DOMAIN x \ cmd.drop
    <3>5. {r \in RowsOf(x) : r.name \notin cmd.drop \cup {cmd.name}} = {Of(x, l) : l \in Y}
      BY <1>4 DEF RowsOf
    <3>6. RowsOf(disk') = {Of(disk', l) : l \in Y} \cup {Of(disk', cmd.name)}
      <4>1. RowsOf(disk') = {Of(disk', l) : l \in DOMAIN disk'}
        BY DEF RowsOf
      <4> HIDE DEF Of
      <4> QED BY <3>2, <4>1
    <3>7. \A l \in Y : Of(disk', l) = Of(x, l)
      BY <3>3
    <3>8. Of(disk', cmd.name) = NewRow
      BY <3>3 DEF NewRow
    <3> HIDE DEF Of, Y
    <3> QED BY <3>4, <3>5, <3>6, <3>7, <3>8
  <2>3. Resting'
    BY <1>2, <2>1, <2>2 DEF Resting
  <2> QED BY <1>2, <1>3, <1>10, <2>1, <2>3 DEF SoundQueue
<1>12. CASE cmd.drop \cap DOMAIN disk # {m}
  <2>1. qpc' = "drop" /\ cmd' = cmd
    BY <1>1, <1>12 DEF Queue!Goto
  <2>2. NewRow' = NewRow
    BY <2>1 DEF NewRow
  <2>3. rows' = {r \in before.rows' : r.name \notin cmd'.drop \cup {cmd'.name}} \cup {NewRow'}
    BY <1>2, <1>3, <2>1, <2>2 DEF Dropping
  <2>4. cmd'.name \in DOMAIN disk' /\ disk'[cmd'.name] = cmd'.body
    BY <1>3, <1>4, <1>5, <2>1 DEF Dropping
  <2>5. \A l \in DOMAIN disk' : l # cmd'.name => l \in DOMAIN before.disk'
                                  /\ disk'[l] = before.disk'[l]
    BY <1>2, <1>3, <1>5, <2>1 DEF Dropping
  <2>6. \A l \in DOMAIN before.disk' : l \notin cmd'.drop => l \in DOMAIN disk'
    BY <1>2, <1>8, <2>1
  <2>7. Dropping'
    BY <2>3, <2>4, <2>5, <2>6 DEF Dropping
  <2>8. Phase' /\ qpc' # "idle"
    BY <2>1, <2>7 DEF Phase
  <2>9. Busy'
    BY <1>2, <1>3, <2>1, <2>8 DEF Busy
  <2> QED BY <1>2, <1>3, <1>10, <2>8, <2>9 DEF SoundQueue
<1> QED BY <1>11, <1>12

(* A row goes, then its file.                                               *)
LEMMA RemovingSound ==
    ASSUME QueueBounds, OwnNames, QueueTypes, SoundQueue, Queue!RemoveRow \/ Queue!Unlink
    PROVE  SoundQueue'
<1> DEFINE x == before.disk
           S == {r \in before.rows : r.name # cmd.name}
<1>1. CASE Queue!RemoveRow
  <2>1. /\ qpc = "unrow" /\ rows' = {r \in rows : r.name # cmd.name} /\ qpc' = "unlink"
             /\ cmd' = cmd
        /\ disk' = disk /\ before' = before /\ qcommands' = qcommands /\ crashes' = crashes
    BY <1>1 DEF Queue!RemoveRow, Queue!Goto, Queue!counts
  <2>2. Busy /\ disk = x /\ rows = before.rows /\ TidyRows(rows) /\ Fine(disk, x, rows)
    BY <2>1, PhaseIs DEF SoundQueue, Busy
  <2>3. TidyRows(rows') /\ Fine(disk', before.disk', rows')
    BY <2>1, <2>2 DEF TidyRows, Fine
  <2>4. Unlinking'
    BY <2>1, <2>2 DEF Unlinking
  <2>5. Phase' /\ qpc' # "idle"
    BY <2>1, <2>4 DEF Phase
  <2>6. Busy'
    BY <2>1, <2>2, <2>5 DEF Busy
  <2> QED BY <2>3, <2>5, <2>6 DEF SoundQueue
<1>2. CASE Queue!Unlink
  <2>1. /\ qpc = "unlink" /\ disk' = Queue!Without(disk, cmd.name) /\ qpc' = "idle"
             /\ outcome' = "done"
        /\ rows' = rows /\ before' = before /\ crashes' = crashes /\ cmd.kind = "delete"
    BY <1>2 DEF Queue!Unlink, Queue!End, Queue!counts, QueueTypes, KindAt
  <2>2. Busy /\ disk = x /\ rows = S /\ TidyRows(rows)
    BY <2>1, PhaseIs DEF SoundQueue, Busy, Unlinking
  <2>3. /\ x \in Disks /\ Tidy(x) /\ before.rows \in SUBSET Queue!Row /\ TidyRows(before.rows)
        /\ \A m \in {cmd.name} : \E r \in before.rows : r.name = m
    BY <2>1, <2>2 DEF Busy, Fits, QueueTypes
  <2>4. DOMAIN disk' = DOMAIN x \ {cmd.name} /\ (\A l \in DOMAIN disk' : disk'[l] = x[l])
          /\ disk' \in Disks
    <3>1. DOMAIN disk' = DOMAIN disk \ {cmd.name}
      BY <2>1, WithoutIs
    <3>2. \A l \in DOMAIN disk : l # cmd.name => disk'[l] = disk[l]
      BY <2>1, WithoutIs
    <3>3. disk' \in Disks
      BY <2>1, <2>2, <2>3, WithoutType
    <3> QED BY <2>2, <3>1, <3>2, <3>3
  <2>5. Tidy(disk')
    BY <2>3, <2>4, PartTidy
  <2>6. ASSUME NEW r \in rows, Queue!HasBody(x, r.id) PROVE Queue!HasBody(disk', r.id)
    <3>1. r \in before.rows /\ r.name \notin {cmd.name}
      BY <2>2
    <3>2. \A m \in DOMAIN x : m \notin {cmd.name} => m \in DOMAIN disk' /\ disk'[m] = x[m]
      BY <2>4
    <3> HIDE DEF x
    <3> QED BY <2>3, <2>6, <3>1, <3>2, DropKeeps
  <2>7. ASSUME crashes = 0 PROVE rows = RowsOf(disk')
    <3>1. rows = {r \in RowsOf(x) : r.name # cmd.name}
      BY <2>2, <2>7 DEF Busy
    <3> QED BY <2>4, <3>1 DEF RowsOf
  <2>8. Resting'
    BY <2>1, <2>7 DEF Resting
  <2>9. Fine(disk', before.disk', rows')
    BY <2>1, <2>4, <2>5, <2>6 DEF Fine
  <2> QED BY <2>1, <2>2, <2>8, <2>9 DEF SoundQueue
<1> QED BY <1>1, <1>2


(* A failed step, when what its command has to undo leads back.              *)
LEMMA CompensateSound ==
    ASSUME QueueBounds, QueueTypes, SoundQueue, qpc # "idle", NEW q, Queue!Compensate(q),
           NEW w, NEW y, NEW t \in Ends, RunsTo(w, disk, y, before.disk, rows), q = w \o t,
           Closing(t, y)
    PROVE  SoundQueue'
<1>1. /\ qpc' = "undo" /\ undo' = w \o t /\ cmd' = cmd /\ disk' = disk /\ rows' = rows
      /\ before' = before /\ qcommands' = qcommands /\ crashes' = crashes
  BY DEF Queue!Compensate
<1>2. Busy /\ TidyRows(rows) /\ Fine(disk, before.disk, rows)
  BY DEF SoundQueue
<1>3. w \in Seq(Steps)
  BY RunFine
<1>4. Froms' <=> Froms
  BY <1>1 DEF Froms, Queue!Half
<1>5. Ending(w, y)'
  <2>1. CASE t = <<>>
    <3>1. undo' = w /\ y = before.disk /\ rows = before.rows
      BY <1>1, <1>3, <2>1, Parting, EndsType DEF Closing, Ends
    <3> QED BY <1>1, <3>1 DEF Ending
  <2>2. CASE t = <<Queue!RestoreRows>>
    <3>1. y = before.disk
      BY <2>2 DEF Closing
    <3> QED BY <1>1, <2>2, <3>1 DEF Ending, Queue!RestoreRows
  <2>3. CASE t = <<Queue!Invert, Queue!RestoreRows>>
    <3>1. cmd.kind = "place" /\ cmd.committed /\ Froms
            /\ y = MovedBy(before.disk, cmd.moves, qcommands)
      BY <2>3 DEF Closing
    <3>2. undo' = w \o <<Queue!Invert, Queue!RestoreRows>>
      BY <1>1, <2>3
    <3> QED BY <1>1, <1>4, <3>1, <3>2 DEF Ending, Queue!RestoreRows, Queue!Invert
  <2> QED BY <2>1, <2>2, <2>3 DEF Ends
<1>6. RunsTo(w, disk', y, before.disk', rows')
  BY <1>1
<1>7. Undoing'
  BY <1>5, <1>6 DEF Undoing
<1>8. Phase' /\ qpc' # "idle"
  BY <1>1, <1>7 DEF Phase
<1>9. Busy'
  BY <1>1, <1>2, <1>8 DEF Busy
<1> QED BY <1>1, <1>2, <1>8, <1>9 DEF SoundQueue

(* The file of a new patch taken away again.                                 *)
LEMMA NewName ==
    ASSUME QueueBounds, OwnNames, QueueTypes, Busy, cmd.kind \in {"export", "place"}
    PROVE  /\ cmd.name \notin DOMAIN before.disk
           /\ Queue!PutBack(cmd.name) = <<Queue!Unlinked(cmd.name)>>
                /\ Queue!Unlinked(cmd.name) \in Steps
           /\ \A x : Took(Queue!Unlinked(cmd.name), x, Queue!Without(x, cmd.name))
<1>1. /\ before.disk \in Disks /\ Tidy(before.disk) /\ ~Queue!HasBody(before.disk, cmd.body.id)
      /\ cmd.name.slug = Slug[cmd.body.id] /\ cmd.body \in Queue!Body /\ cmd.name \in Queue!FileName
  BY DEF Busy, Fits, QueueTypes, KindAt, Plans
<1>2. ASSUME cmd.name \in DOMAIN before.disk PROVE FALSE
  <2>1. Slug[before.disk[cmd.name].id] = Slug[cmd.body.id] /\ before.disk[cmd.name].id \in Patches
        /\ cmd.body.id \in Patches
    BY <1>1, <1>2, DiskType DEF Tidy, Queue!Body
  <2> QED BY <1>1, <1>2, <2>1 DEF OwnNames, Queue!HasBody
<1>3. Queue!Unlinked(cmd.name) \in Steps
        /\ \A x : Took(Queue!Unlinked(cmd.name), x, Queue!Without(x, cmd.name))
  BY <1>1 DEF Queue!Unlinked, Steps, Took
<1> QED BY <1>2, <1>3 DEF Queue!PutBack

(* That is a run of one step.                                               *)
LEMMA UnlinkRuns ==
    ASSUME QueueBounds, OwnNames, QueueTypes, Busy, cmd.kind \in {"export", "place"},
           NEW x, NEW R, Fine(x, before.disk, R), Fine(Queue!Without(x, cmd.name), before.disk, R)
    PROVE  RunsTo(Queue!PutBack(cmd.name), x, Queue!Without(x, cmd.name), before.disk, R)
BY NewName, RunOne

(* A renumbering that fails before it is saved: its files go back, and then  *)
(* the file of the placement is found not to be there.                       *)
LEMMA UnmovedSound ==
    ASSUME QueueBounds, OwnNames, QueueTypes, SoundQueue, qpc \in {"rename", "save"},
           cmd.kind # "inverse",
           NEW u, RunsTo(u, disk, before.disk, before.disk, rows),
           Queue!Compensate(u \o Queue!Cleanup)
    PROVE  SoundQueue'
<1>1. Busy /\ Renumbering
  BY PhaseIs DEF SoundQueue, Busy
<1>2. rows = before.rows /\ ~cmd.committed /\ before.disk \in Disks /\ Tidy(before.disk)
        /\ u \in Seq(Steps)
  BY <1>1, RunFine DEF Renumbering, Busy, QueueTypes
<1>3. CASE cmd.kind = "renumber"
  <2>1. Queue!Cleanup = <<>>
    BY <1>3 DEF Queue!Cleanup
  <2>2. <<>> \in Ends /\ Closing(<<>>, before.disk)
    BY <1>2 DEF Ends, Closing
  <2> QED BY <2>1, <2>2, CompensateSound
<1>4. CASE cmd.kind = "place"
  <2> DEFINE p == Queue!PutBack(cmd.name)
  <2>1. Fine(before.disk, before.disk, rows)
    BY <1>2, SelfFine
  <2>2. Queue!Without(before.disk, cmd.name) = before.disk
    BY <1>1, <1>2, <1>4, NewName, WithoutIs
  <2>3. RunsTo(p, before.disk, before.disk, before.disk, rows)
    BY <1>1, <1>4, <2>1, <2>2, UnlinkRuns
  <2>4. p \in Seq(Steps)
    BY <2>3, RunFine
  <2>5. Queue!Cleanup = p \o <<Queue!RestoreRows>>
    <3>1. Queue!Cleanup = p \o <<>> \o <<Queue!RestoreRows>>
      BY <1>2, <1>4 DEF Queue!Cleanup
    <3>2. p \o <<>> = p
      BY <2>4, Parting
    <3> QED BY <3>1, <3>2
  <2>6. RunsTo(u \o p, disk, before.disk, before.disk, rows)
    BY <2>3, RunJoined
  <2>7. <<Queue!RestoreRows>> \in Ends /\ Closing(<<Queue!RestoreRows>>, before.disk)
          /\ <<Queue!RestoreRows>> \in Seq(Steps)
    BY EndsType DEF Ends, Closing
  <2> HIDE DEF p
  <2>8. u \o Queue!Cleanup = (u \o p) \o <<Queue!RestoreRows>>
    BY <1>2, <2>4, <2>5, <2>7, ConcatAssociative
  <2> QED BY <2>6, <2>7, <2>8, CompensateSound
<1> QED BY <1>3, <1>4 DEF QueueTypes, KindAt

(* A rename that fails, and a save that does: each is undone.               *)
LEMMA RenameFailsSound ==
    ASSUME QueueBounds, OwnNames, QueueTypes, SoundQueue, Queue!RenameFails, ~spoiled'
    PROVE  SoundQueue'
<1>1. qpc = "rename" /\ Queue!Compensate(Queue!Unwind \o Queue!Cleanup) /\ cmd.kind # "inverse"
  BY DEF Queue!RenameFails, Queue!Compensate
<1>2. Busy /\ Renumbering /\ Base = before.disk
  BY <1>1, PhaseIs DEF SoundQueue, Busy, Base
<1>3. before.disk \in Disks /\ Tidy(before.disk) /\ Apart(cmd.moves)
  BY <1>2 DEF Busy, QueueTypes, Fits
<1>4. \A k \in 1..Queue!Half : k < at => cmd.moves[k].from \in DOMAIN before.disk
  BY <1>2 DEF Renumbering
<1>5. RunsTo(Queue!Unwind, Lay(before.disk, Where(before.disk, cmd.moves, qcommands, Asides, Inplace)),
             before.disk, before.disk, rows)
  BY <1>3, <1>4, UnwindRuns
<1>6. RunsTo(Queue!Unwind, disk, before.disk, before.disk, rows)
  BY <1>2, <1>5 DEF Renumbering
<1> QED BY <1>1, <1>6, UnmovedSound

(* The save of a renumbering fails: the files go back to their old names.   *)
LEMMA SaveFailsSound ==
    ASSUME QueueBounds, OwnNames, QueueTypes, SoundQueue, Queue!SaveFails, ~spoiled'
    PROVE  SoundQueue'
<1>1. qpc = "save" /\ Queue!Compensate(Queue!Unplace \o Queue!Cleanup) /\ cmd.kind # "inverse"
  BY DEF Queue!SaveFails, Queue!Compensate
<1>2. Busy /\ Renumbering /\ Base = before.disk
  BY <1>1, PhaseIs DEF SoundQueue, Busy, Base
<1>3. before.disk \in Disks /\ Tidy(before.disk) /\ Apart(cmd.moves)
  BY <1>2 DEF Busy, QueueTypes, Fits
<1>4. at = 2 * Queue!Half + 1 /\ Queue!Half \in Nat /\ Queue!Half >= 1
        /\ DOMAIN cmd.moves = 1..Queue!Half
  BY <1>1, HalfType DEF QueueTypes, KindAt, Queue!Half, Plans
<1>5. \A k \in 1..Queue!Half : k < at
  BY <1>4
<1>6. \A k \in 1..Queue!Half : cmd.moves[k].from \in DOMAIN before.disk
  BY <1>2, <1>5 DEF Renumbering
<1>7. Asides = {} /\ Inplace = DOMAIN cmd.moves
  BY <1>4 DEF Asides, Inplace
<1>8. disk = MovedBy(before.disk, cmd.moves, qcommands)
  BY <1>2, <1>7 DEF Renumbering, MovedBy
<1>9. RunsTo(Queue!Unplace, disk, before.disk, before.disk, rows)
  BY <1>3, <1>6, <1>8, UnplaceRuns
<1> QED BY <1>1, <1>9, UnmovedSound


(* Some of the files the command found.                                      *)
Part(X) == [m \in X |-> before.disk[m]]

(* They are in order, and all of them are what it found.                    *)
LEMMA PartIs ==
    ASSUME QueueTypes, Tidy(before.disk), NEW X \in SUBSET DOMAIN before.disk
    PROVE  /\ Part(X) \in Disks /\ Tidy(Part(X)) /\ DOMAIN Part(X) = X
           /\ \A m \in X : Part(X)[m] = before.disk[m]
           /\ X = DOMAIN before.disk => Part(X) = before.disk
<1>1. before.disk \in Disks
  BY DEF QueueTypes
<1>2. DOMAIN Part(X) = X /\ \A m \in X : Part(X)[m] = before.disk[m]
  BY DEF Part
<1>3. Part(X) = [m \in X |-> Part(X)[m]]
  BY DEF Part
<1>4. Part(X) \in Disks
  BY <1>1, <1>2, <1>3, DiskType
<1>5. Tidy(Part(X))
  BY <1>2, PartTidy
<1>6. ASSUME X = DOMAIN before.disk PROVE Part(X) = before.disk
  BY <1>1, <1>6, DiskType DEF Part
<1> QED BY <1>2, <1>4, <1>5, <1>6

(* The superseded files written back one by one.                             *)
LEMMA RewriteRuns ==
    ASSUME QueueBounds, QueueTypes, Tidy(before.disk), NEW X \in SUBSET DOMAIN before.disk,
           \A m \in DOMAIN before.disk : m \notin cmd.drop => m \in X, NEW R,
           \A Y \in SUBSET DOMAIN before.disk : X \subseteq Y => Fine(Part(Y), before.disk, R)
    PROVE  RunsTo(Queue!SetToSeq(Dropped), Part(X), before.disk, before.disk, R)
<1> DEFINE q == Queue!SetToSeq(Dropped)
           N == Len(q)
           Z(k) == X \cup {q[j].name : j \in 1..k}
           D == [k \in 0..N |-> Part(Z(k))]
<1>1. /\ q \in Seq(Dropped) /\ Dropped \subseteq Steps
      /\ \A s \in Dropped : \E k \in DOMAIN q : q[k] = s
  BY DroppedType, Enumerated
<1> HIDE DEF q
<1>2. N \in Nat /\ DOMAIN q = 1..N /\ q \in Seq(Steps) /\ \A k \in 1..N : q[k] \in Dropped
  BY <1>1
<1>3. \A s \in Dropped : s.do = "put" /\ s.name \in cmd.drop /\ s.body = before.disk[s.name]
  BY DEF Dropped, Queue!Rewrite
<1>4. cmd.drop \subseteq DOMAIN before.disk
  BY DEF QueueTypes
<1>5. ASSUME NEW k \in 0..N PROVE Z(k) \in SUBSET DOMAIN before.disk /\ X \subseteq Z(k)
  <2>1. \A j \in 1..k : j \in 1..N
    BY <1>2
  <2>2. \A j \in 1..k : q[j].name \in DOMAIN before.disk
    BY <1>2, <1>3, <1>4, <2>1
  <2> QED BY <2>2
<1>6. ASSUME NEW k \in 0..N PROVE D[k] = Part(Z(k)) /\ D[k] \in Disks /\ Fine(D[k], before.disk, R)
  <2>1. D[k] = Part(Z(k))
    OBVIOUS
  <2> HIDE DEF D, Z
  <2> QED BY <1>5, <2>1, PartIs
<1>7. D \in [0..N -> Disks]
  <2>1. D = [k \in 0..N |-> D[k]]
    OBVIOUS
  <2> HIDE DEF D
  <2> QED BY <1>6, <2>1
<1> HIDE DEF D
<1>8. ASSUME NEW k \in 1..N PROVE Took(q[k], D[k - 1], D[k])
  <2> DEFINE s == q[k]
             x == Part(Z(k - 1))
             y == Part(Z(k))
  <2>1. k \in 0..N /\ k - 1 \in 0..N /\ 1..k = (1 .. k - 1) \cup {k}
    BY <1>2
  <2>2. Z(k) = Z(k - 1) \cup {s.name}
    BY <2>1
  <2>3. s.do = "put" /\ s.body = before.disk[s.name]
    BY <1>2, <1>3
  <2>4. D[k - 1] = x /\ D[k] = y
    BY <1>6, <2>1
  <2>5. y = Queue!Put(x, s.name, s.body)
    <3> HIDE DEF Z, s
    <3> QED BY <2>2, <2>3 DEF Part, Queue!Put
  <2> HIDE DEF x, y, s
  <2>6. Took(s, x, y)
    BY <2>3, <2>5 DEF Took
  <2> QED BY <2>4, <2>6 DEF s
<1>9. Trace(q, D, before.disk, R)
  BY <1>6, <1>8 DEF Trace
<1>10. D[0] = Part(X)
  <2>1. Z(0) = X /\ 0 \in 0..N
    BY <1>2
  <2> HIDE DEF Z
  <2> QED BY <1>6, <2>1
<1>11. D[N] = before.disk
  <2>1. Z(N) = DOMAIN before.disk
    <3>1. ASSUME NEW m \in cmd.drop PROVE m \in Z(N)
      <4>1. Queue!Rewrite(m, before.disk[m]) \in Dropped
        BY DEF Dropped
      <4>2. PICK k \in 1..N : q[k] = Queue!Rewrite(m, before.disk[m])
        BY <1>1, <1>2, <4>1
      <4>3. q[k].name = m
        BY <4>2 DEF Queue!Rewrite
      <4> QED BY <4>3
    <3>2. N \in 0..N
      BY <1>2
    <3>3. Z(N) \subseteq DOMAIN before.disk /\ X \subseteq Z(N)
      BY <1>5, <3>2
    <3> HIDE DEF Z
    <3> QED BY <3>1, <3>3
  <2>2. N \in 0..N
    BY <1>2
  <2>3. Z(N) \in SUBSET DOMAIN before.disk
    BY <2>1
  <2> HIDE DEF Z
  <2> QED BY <1>6, <2>1, <2>2, <2>3, PartIs
<1> QED BY <1>2, <1>7, <1>9, <1>10, <1>11 DEF RunsTo, q

(* An export that fails unlinks its file and writes the superseded ones
   back.                                                                    *)
LEMMA ExportFails ==
    ASSUME QueueBounds, OwnNames, QueueTypes, SoundQueue, qpc \in {"write", "row", "drop"},
           cmd.kind = "export",
           Queue!Compensate(Queue!Cleanup)
    PROVE  SoundQueue'
<1> DEFINE p == Queue!PutBack(cmd.name)
           q == Queue!SetToSeq(Dropped)
           X == DOMAIN disk \ {cmd.name}
           t == <<Queue!RestoreRows>>
<1>1. Busy /\ Fine(disk, before.disk, rows)
  BY DEF SoundQueue
<1>2. /\ before.disk \in Disks /\ Tidy(before.disk) /\ disk \in Disks
      /\ cmd.name \notin DOMAIN before.disk /\ ~Queue!HasBody(before.disk, cmd.body.id)
  BY <1>1, ExportName DEF Busy, QueueTypes
<1>3. /\ X \subseteq DOMAIN before.disk
      /\ \A m \in X : disk[m] = before.disk[m]
      /\ \A m \in DOMAIN before.disk : m \notin cmd.drop => m \in X
      /\ \A Y \in SUBSET DOMAIN before.disk : X \subseteq Y => Fine(Part(Y), before.disk, rows)
  <2>1. CASE qpc \in {"write", "row"}
    <3>1. Renumbered /\ cmd.moves = <<>>
      BY <1>1, <2>1, PhaseIs DEF Busy, Fits, QueueWriting, Adding
    <3>2. MovedBy(before.disk, cmd.moves, qcommands) = before.disk
      BY <1>1, <3>1, TargetIs
    <3>3. disk = before.disk \/ disk = Queue!Put(before.disk, cmd.name, cmd.body)
      BY <1>1, <2>1, <3>2, PhaseIs DEF Busy, QueueWriting, Adding
    <3>4. X = DOMAIN before.disk /\ \A m \in X : disk[m] = before.disk[m]
      BY <1>2, <3>3 DEF Queue!Put
    <3>5. Part(DOMAIN before.disk) = before.disk
      BY <1>2, PartIs
    <3>6. Fine(before.disk, before.disk, rows)
      BY <1>2, SelfFine
    <3>7. ASSUME NEW Y \in SUBSET DOMAIN before.disk, X \subseteq Y
          PROVE Fine(Part(Y), before.disk, rows)
      <4>1. Y = DOMAIN before.disk
        BY <3>4, <3>7
      <4> QED BY <3>5, <3>6, <4>1
    <3> QED BY <3>4, <3>7
  <2>2. CASE qpc = "drop"
    <3>1. Dropping
      BY <1>1, <2>2, PhaseIs DEF Busy
    <3>2. /\ X \subseteq DOMAIN before.disk /\ \A m \in X : disk[m] = before.disk[m]
          /\ \A m \in DOMAIN before.disk : m \notin cmd.drop => m \in X
      BY <1>2, <3>1 DEF Dropping
    <3>3. ASSUME NEW Y \in SUBSET DOMAIN before.disk, X \subseteq Y
          PROVE Fine(Part(Y), before.disk, rows)
      <4>1. rows = {r \in before.rows : r.name \notin cmd.drop \cup {cmd.name}} \cup {NewRow}
        BY <3>1 DEF Dropping
      <4>2. Part(Y) \in Disks /\ Tidy(Part(Y)) /\ DOMAIN Part(Y) = Y
              /\ \A m \in Y : Part(Y)[m] = before.disk[m]
        BY <1>2, PartIs
      <4>3. \A m \in DOMAIN before.disk : m \notin cmd.drop => m \in DOMAIN Part(Y)
                                            /\ Part(Y)[m] = before.disk[m]
        BY <3>2, <3>3, <4>2
      <4> QED BY <1>1, <1>2, <4>1, <4>2, <4>3, DroppingIs
    <3> QED BY <3>2, <3>3
  <2> QED BY <2>1, <2>2
<1>4. Queue!Without(disk, cmd.name) = Part(X)
  <2>1. DOMAIN Queue!Without(disk, cmd.name) = X
          /\ \A m \in X : Queue!Without(disk, cmd.name)[m] = disk[m]
    BY WithoutIs
  <2>2. Queue!Without(disk, cmd.name) \in Disks
    BY <1>2, WithoutType
  <2>3. Queue!Without(disk, cmd.name) = [m \in DOMAIN Queue!Without(disk, cmd.name) |-> Queue!Without(disk, cmd.name)[m]]
    BY <2>2, DiskType
  <2>4. \A m \in X : Queue!Without(disk, cmd.name)[m] = before.disk[m]
    BY <1>3, <2>1
  <2> HIDE DEF X
  <2> QED BY <2>1, <2>3, <2>4 DEF Part
<1>5. Fine(Part(X), before.disk, rows)
  BY <1>3
<1> HIDE DEF X
<1>6. RunsTo(p, disk, Part(X), before.disk, rows)
  BY <1>1, <1>4, <1>5, UnlinkRuns
<1>7. RunsTo(q, Part(X), before.disk, before.disk, rows)
  BY <1>2, <1>3, RewriteRuns
<1>8. RunsTo(p \o q, disk, before.disk, before.disk, rows)
  BY <1>6, <1>7, RunJoined
<1>9. Queue!Cleanup = (p \o q) \o t
  BY DEF Queue!Cleanup, Dropped
<1>10. t \in Ends /\ Closing(t, before.disk)
  BY DEF Ends, Closing
<1> HIDE DEF p, q, t
<1> QED BY <1>8, <1>9, <1>10, CompensateSound

(* Two steps joined.                                                         *)
LEMMA Paired ==
    ASSUME NEW a \in Steps, NEW b \in Steps
    PROVE  <<a>> \o <<b>> = <<a, b>>
<1> DEFINE s == <<a>>
           u == <<a, b>>
           v == Append(s, b)
<1>1. s \in Seq(Steps) /\ Len(s) = 1 /\ s[1] = a
  OBVIOUS
<1>2. u \in Seq(Steps) /\ Len(u) = 2 /\ u[1] = a /\ u[2] = b
  OBVIOUS
<1> HIDE DEF s, u
<1>3. v \in Seq(Steps) /\ Len(v) = Len(s) + 1 /\ v[Len(s) + 1] = b
  BY <1>1, AppendProperties
<1>5. v[1] = a
  BY <1>1
<1> HIDE DEF v
<1>4. Len(v) = 2 /\ v[2] = b
  BY <1>1, <1>3
<1>7. \A k \in 1..2 : v[k] = u[k]
  BY <1>2, <1>4, <1>5
<1>8. v = u
  BY <1>2, <1>3, <1>4, <1>7, SeqEqual
<1>9. <<a>> \o <<b>> = Append(<<a>>, b)
  <2>1. <<a>> \in Seq(Steps)
    OBVIOUS
  <2> QED BY <2>1, AppendIsConcat
<1> QED BY <1>8, <1>9 DEF s, u, v

(* A placement that fails unlinks its file and renumbers back.              *)
LEMMA PlaceFails ==
    ASSUME QueueBounds, OwnNames, QueueTypes, SoundQueue, qpc \in {"write", "row"},
           cmd.kind = "place",
           Queue!Compensate(Queue!Cleanup)
    PROVE  SoundQueue'
<1> DEFINE p == Queue!PutBack(cmd.name)
           y == MovedBy(before.disk, cmd.moves, qcommands)
<1>1. Busy /\ Fine(disk, before.disk, rows) /\ Renumbered
      /\ (disk = y \/ disk = Queue!Put(y, cmd.name, cmd.body))
  BY PhaseIs DEF SoundQueue, Busy, QueueWriting, Adding
<1>2. /\ y \in Disks /\ Tidy(y) /\ \A m : Queue!HasBody(before.disk, m) <=> Queue!HasBody(y, m)
      /\ cmd.name \notin DOMAIN y /\ (cmd.moves = <<>> => y = before.disk)
  BY <1>1, TargetIs
<1> HIDE DEF y
<1>3. Queue!Without(disk, cmd.name) = y
  <2>1. Queue!Without(y, cmd.name) = y
    BY <1>2, WithoutIs
  <2>2. CASE disk = Queue!Put(y, cmd.name, cmd.body)
    <3>1. DOMAIN Queue!Without(disk, cmd.name) = DOMAIN y
      <4>1. DOMAIN Queue!Without(disk, cmd.name) = DOMAIN disk \ {cmd.name}
        BY WithoutIs
      <4>2. DOMAIN disk = DOMAIN y \cup {cmd.name}
        BY <2>2 DEF Queue!Put
      <4> QED BY <1>2, <4>1, <4>2
    <3>2. \A m \in DOMAIN y : Queue!Without(disk, cmd.name)[m] = y[m]
      <4>1. \A m \in DOMAIN disk : m # cmd.name => Queue!Without(disk, cmd.name)[m] = disk[m]
        BY WithoutIs
      <4>2. \A m \in DOMAIN y : m \in DOMAIN disk /\ m # cmd.name /\ disk[m] = y[m]
        BY <1>2, <2>2 DEF Queue!Put
      <4> QED BY <4>1, <4>2
    <3>3. Queue!Without(disk, cmd.name) \in Disks
      BY WithoutType DEF QueueTypes
    <3>4. Queue!Without(disk, cmd.name) = [m \in DOMAIN Queue!Without(disk, cmd.name) |-> Queue!Without(disk, cmd.name)[m]]
          /\ y = [m \in DOMAIN y |-> y[m]]
      BY <1>2, <3>3, DiskType
    <3> QED BY <3>1, <3>2, <3>4
  <2> QED BY <1>1, <2>1, <2>2
<1>4. Fine(y, before.disk, rows)
  BY <1>2 DEF Fine
<1>5. RunsTo(p, disk, y, before.disk, rows)
  BY <1>1, <1>3, <1>4, UnlinkRuns
<1>6. p \in Seq(Steps)
  BY <1>5, RunFine
<1>7. CASE cmd.committed
  <2>1. Queue!Cleanup = (p \o <<Queue!Invert>>) \o <<Queue!RestoreRows>>
    BY <1>7 DEF Queue!Cleanup
  <2>2. <<Queue!Invert>> \in Seq(Steps) /\ <<Queue!RestoreRows>> \in Seq(Steps)
    BY DEF Queue!Invert, Queue!RestoreRows, Steps
  <2>5. <<Queue!Invert>> \o <<Queue!RestoreRows>> = <<Queue!Invert, Queue!RestoreRows>>
    <3>1. Queue!Invert \in Steps /\ Queue!RestoreRows \in Steps
      BY DEF Queue!Invert, Queue!RestoreRows, Steps
    <3> QED BY <3>1, Paired
  <2> HIDE DEF p
  <2>6. (p \o <<Queue!Invert>>) \o <<Queue!RestoreRows>> = p \o (<<Queue!Invert>> \o <<Queue!RestoreRows>>)
    BY <1>6, <2>2, ConcatAssociative
  <2>3. Queue!Cleanup = p \o <<Queue!Invert, Queue!RestoreRows>>
    BY <2>1, <2>5, <2>6
  <2>4. <<Queue!Invert, Queue!RestoreRows>> \in Ends
          /\ Closing(<<Queue!Invert, Queue!RestoreRows>>, y)
    BY <1>1, <1>7 DEF Ends, Closing, Renumbered, y
  <2> QED BY <1>5, <2>3, <2>4, CompensateSound
<1>8. CASE ~cmd.committed
  <2>1. y = before.disk
    BY <1>1, <1>2, <1>8 DEF Renumbered
  <2>2. Queue!Cleanup = p \o <<>> \o <<Queue!RestoreRows>> /\ p \o <<>> = p
    BY <1>6, <1>8, Parting, EndsType DEF Queue!Cleanup, Ends
  <2>3. Queue!Cleanup = p \o <<Queue!RestoreRows>>
    BY <2>2
  <2>4. <<Queue!RestoreRows>> \in Ends /\ Closing(<<Queue!RestoreRows>>, y)
    BY <2>1 DEF Ends, Closing
  <2> HIDE DEF p
  <2> QED BY <1>5, <2>3, <2>4, CompensateSound
<1> QED BY <1>7, <1>8


(* An update that fails writes the old body back, ...                       *)
LEMMA UpdateFails ==
    ASSUME QueueBounds, OwnNames, QueueTypes, SoundQueue, qpc \in {"write", "row"},
           cmd.kind = "update",
           Queue!Compensate(Queue!Cleanup)
    PROVE  SoundQueue'
<1> DEFINE x == before.disk
           m == cmd.name
           b == cmd.body
<1>1. Busy /\ Renumbered /\ Fine(disk, x, rows) /\ cmd.moves = <<>> /\ m \in DOMAIN x
      /\ disk = (IF qpc = "write" THEN MovedBy(x, cmd.moves, qcommands)
                 ELSE Queue!Put(MovedBy(x, cmd.moves, qcommands), m, b))
  BY PhaseIs DEF SoundQueue, Busy, Fits, QueueWriting, Adding
<1>2. MovedBy(x, cmd.moves, qcommands) = x /\ m \in Queue!FileName
  BY <1>1, TargetIs
<1>3. x \in Disks /\ Tidy(x) /\ rows = before.rows /\ x[m] \in Queue!Body
  BY <1>1, RowsByNone, NoneApart, DiskType DEF Renumbered, Busy, QueueTypes
<1>4. <<>> \in Ends /\ Closing(<<>>, x)
  BY <1>3 DEF Ends, Closing
<1>5. CASE qpc = "write"
  <2>1. Queue!Cleanup = <<>>
    BY <1>5 DEF Queue!Cleanup
  <2>2. disk = x /\ RunsTo(<<>>, disk, x, x, rows)
    BY <1>1, <1>2, <1>5, RunNone
  <2>3. Queue!Cleanup = <<>> \o <<>>
    BY <2>1, Parting, EndsType DEF Ends
  <2> HIDE DEF x
  <2> QED BY <1>4, <1>5, <2>2, <2>3, CompensateSound DEF x
<1>6. CASE qpc = "row"
  <2> DEFINE s == Queue!Rewrite(m, x[m])
  <2>1. Queue!Cleanup = <<s>>
    BY <1>1, <1>6 DEF Queue!Cleanup, Queue!PutBack
  <2>2. s \in Steps
    BY <1>2, <1>3 DEF Queue!Rewrite, Steps
  <2>3. x = Queue!Put(disk, m, x[m])
    <3>1. disk = Queue!Put(x, m, b) /\ x = [l \in DOMAIN x |-> x[l]]
      BY <1>1, <1>2, <1>3, <1>6, DiskType
    <3>2. m \in DOMAIN x
      BY <1>1
    <3> HIDE DEF x, m, b
    <3>3. DOMAIN disk = DOMAIN x /\ \A l \in DOMAIN x : l # m => disk[l] = x[l]
      BY <3>1, <3>2 DEF Queue!Put
    <3>4. Queue!Put(disk, m, x[m]) = [l \in DOMAIN x |-> IF l = m THEN x[m] ELSE disk[l]]
      BY <3>2, <3>3 DEF Queue!Put
    <3>5. \A l \in DOMAIN x : (IF l = m THEN x[m] ELSE disk[l]) = x[l]
      BY <3>3
    <3> QED BY <3>1, <3>4, <3>5
  <2>4. Took(s, disk, x)
    BY <2>3 DEF Took, Queue!Rewrite
  <2>5. Fine(x, x, rows)
    BY <1>3, SelfFine
  <2>6. RunsTo(<<s>>, disk, x, x, rows)
    BY <1>1, <2>2, <2>4, <2>5, RunOne
  <2>7. <<s>> \in Seq(Steps) /\ Queue!Cleanup = <<s>> \o <<>>
    BY <2>1, <2>2, Parting, EndsType DEF Ends
  <2> HIDE DEF s
  <2> QED BY <1>4, <1>6, <2>6, <2>7, CompensateSound
<1> QED BY <1>5, <1>6

(* ... a delete the old rows.                                               *)
LEMMA DeleteFails ==
    ASSUME QueueBounds, QueueTypes, SoundQueue, qpc \in {"unrow", "unlink"},
           Queue!Compensate(Queue!Cleanup)
    PROVE  SoundQueue'
<1>1. Busy /\ Fine(disk, before.disk, rows) /\ disk = before.disk /\ cmd.kind = "delete"
      /\ (qpc = "unrow" => rows = before.rows)
  BY PhaseIs DEF SoundQueue, Busy, Unlinking, QueueTypes, KindAt
<1>2. RunsTo(<<>>, disk, before.disk, before.disk, rows)
  BY <1>1, RunNone
<1> DEFINE t == IF qpc = "unlink" THEN <<Queue!RestoreRows>> ELSE <<>>
<1>3. Queue!Cleanup = t
  BY <1>1 DEF Queue!Cleanup
<1>4. t \in Ends /\ Closing(t, before.disk)
  BY <1>1 DEF Ends, Closing
<1>5. t \in Seq(Steps) /\ <<>> \in Seq(Steps)
  BY <1>4, EndsType
<1> HIDE DEF t
<1>6. Queue!Cleanup = <<>> \o t
  BY <1>3, <1>5, Parting
<1> QED BY <1>2, <1>4, <1>6, CompensateSound

(* Whatever step fails, what the command has to undo leads back.            *)
LEMMA StepFailsSound ==
    ASSUME QueueBounds, OwnNames, QueueTypes, SoundQueue, Queue!StepFails
    PROVE  SoundQueue'
<1>1. qpc \in {"write", "row", "drop", "unrow", "unlink"} /\ Queue!Compensate(Queue!Cleanup)
  BY DEF Queue!StepFails
<1>2. /\ qpc \in {"write", "row"} => cmd.kind \in {"export", "place", "update"}
      /\ qpc = "drop" => cmd.kind = "export"
  BY DEF QueueTypes, KindAt
<1> QED BY <1>1, <1>2, ExportFails, PlaceFails, UpdateFails, DeleteFails

(* At first the rows describe the files.                                    *)
LEMMA QueueInitSound ==
    ASSUME QueueBounds, OwnNames, Queue!Init
    PROVE  SoundQueue
<1> DEFINE N == DOMAIN Listed
           Named(k) == Queue!NameOf(k, Listed[k])
<1>1. /\ DOMAIN disk = {Named(k) : k \in N}
           /\ \A m \in DOMAIN disk : disk[m] = [id |-> Listed[m.order], ver |-> 0]
      /\ rows = {[id |-> Listed[k], ver |-> 0, name |-> Named(k)] : k \in N}
      /\ before.disk = disk /\ qpc = "idle" /\ outcome = "none"
  BY DEF Queue!Init
<1>2. \A k \in N : Named(k).order = k /\ Named(k).slug = Slug[Listed[k]] /\ Listed[k] \in Patches
  BY DEF Queue!NameOf, QueueBounds
<1>3. disk \in Disks
  BY QueueInitTypes DEF QueueTypes
<1>4. \A j, k \in N : Slug[Listed[j]] = Slug[Listed[k]] => j = k
  BY <1>2 DEF OwnNames, QueueBounds
<1> HIDE DEF Named, N
<1>5. ASSUME NEW k \in N
      PROVE Named(k) \in DOMAIN disk /\ disk[Named(k)].id = Listed[k] /\ disk[Named(k)].ver = 0
  <2>1. Named(k) \in DOMAIN disk
    BY <1>1
  <2>2. disk[Named(k)] = [id |-> Listed[k], ver |-> 0]
    BY <1>1, <1>2, <2>1
  <2> QED BY <2>1, <2>2
<1>6. rows = {[id |-> disk[Named(k)].id, ver |-> disk[Named(k)].ver, name |-> Named(k)] : k \in N}
  BY <1>1, <1>5
<1>7. rows = RowsOf(disk)
  <2>1. RowsOf(disk) = {[id |-> disk[m].id, ver |-> disk[m].ver, name |-> m] : m \in {Named(k) : k \in N}}
    BY <1>1 DEF RowsOf
  <2> QED BY <1>6, <2>1
<1>8. Tidy(disk)
  BY <1>1, <1>2, <1>4, <1>5 DEF Tidy
<1>9. TidyRows(rows)
  BY <1>3, <1>7, <1>8, RowsOfType
<1>10. Fine(disk, before.disk, rows)
  BY <1>1, <1>3, <1>8, SelfFine
<1> QED BY <1>1, <1>7, <1>9, <1>10 DEF SoundQueue, Resting

(* When nothing changes it holds still.                                     *)
LEMMA StillSound ==
    ASSUME SoundQueue, UNCHANGED Queue!vars
    PROVE  SoundQueue'
<1>1. /\ disk' = disk /\ rows' = rows /\ qpc' = qpc /\ cmd' = cmd /\ at' = at /\ undo' = undo
      /\ before' = before /\ outcome' = outcome /\ qcommands' = qcommands /\ crashes' = crashes
  BY DEF Queue!vars
<1>2. Queue!Half' = Queue!Half /\ Base' = Base /\ NewRow' = NewRow /\ Asides' = Asides
        /\ Inplace' = Inplace
  BY <1>1 DEF Queue!Half, Base, NewRow, Asides, Inplace
<1>3. (Froms' <=> Froms) /\ (Dropping' <=> Dropping) /\ (Unlinking' <=> Unlinking)
  BY <1>1, <1>2 DEF Froms, Dropping, Unlinking
<1>4. Renumbered' <=> Renumbered
  BY <1>1, <1>3 DEF Renumbered
<1>5. (QueueWriting' <=> QueueWriting) /\ (Adding' <=> Adding)
  BY <1>1, <1>4 DEF QueueWriting, Adding
<1>6. Renumbering' <=> Renumbering
  BY <1>1, <1>2 DEF Renumbering
<1>7. ASSUME NEW w, NEW y PROVE Ending(w, y)' <=> Ending(w, y)
  BY <1>1, <1>3 DEF Ending
<1>8. Undoing' <=> Undoing
  BY <1>1, <1>7 DEF Undoing
<1>9. Phase' <=> Phase
  BY <1>1, <1>3, <1>5, <1>6, <1>8 DEF Phase
<1>10. Busy' <=> Busy
  BY <1>1, <1>9 DEF Busy
<1>11. Resting' <=> Resting
  BY <1>1 DEF Resting
<1> QED BY <1>1, <1>10, <1>11 DEF SoundQueue

(* Every step keeps it, until a step of compensation fails.                 *)
LEMMA QueueSoundStep ==
    ASSUME QueueBounds, OwnNames, QueueTypes, QueueSound, [Queue!Next]_(Queue!vars)
    PROVE  QueueSound'
<1> SUFFICES ASSUME ~spoiled' PROVE SoundQueue'
  BY DEF QueueSound
<1>1. CASE UNCHANGED Queue!vars
  <2>1. SoundQueue
    BY <1>1 DEF Queue!vars, QueueSound
  <2> QED BY <1>1, <2>1, StillSound
<1>2. CASE Queue!Command
  <2>1. SoundQueue
    BY <1>2 DEF QueueSound, Queue!Command, Queue!Export, Queue!Place, Queue!Reorder, Queue!Compact,
       Queue!Update, Queue!Delete, Queue!Repair, Queue!Begin
  <2> QED BY <1>2, <2>1, CommandSound
<1>3. CASE Queue!RenameNext \/ Queue!SaveRenumbered \/ Queue!WriteBody \/ Queue!WriteRow
             \/ Queue!DropSuperseded \/ Queue!RemoveRow \/ Queue!Unlink
           \/ Queue!UndoStep \/ Queue!StartInverse \/ Queue!Failed \/ Queue!Crash
  <2>1. SoundQueue
    BY <1>3 DEF QueueSound, Queue!RenameNext, Queue!SaveRenumbered, Queue!WriteBody,
       Queue!WriteRow, Queue!DropSuperseded, Queue!RemoveRow, Queue!Unlink, Queue!UndoStep,
       Queue!StartInverse, Queue!Failed, Queue!Crash
  <2> QED BY <1>3, <2>1, RenamingSound, SaveSound, WriteSound, UpdateSound, AddSound, DropSound,
             RemovingSound, UndoSound, InverseSound, FailedSound, CrashSound
<1>4. CASE Queue!RenameFails \/ Queue!SaveFails \/ Queue!StepFails
  <2>1. SoundQueue
    BY <1>4 DEF QueueSound, Queue!RenameFails, Queue!SaveFails, Queue!StepFails, Queue!Compensate
  <2> QED BY <1>4, <2>1, RenameFailsSound, SaveFailsSound, StepFailsSound
<1>5. CASE Queue!UndoFails
  BY <1>5 DEF Queue!UndoFails
<1> QED BY <1>1, <1>2, <1>3, <1>4, <1>5 DEF Queue!Next, Queue!Step
=============================================================================
