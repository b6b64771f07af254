--------------------- MODULE RepositoryManipulationProof --------------------
(***************************************************************************)
(* Valid plans are carried out as simulated and lose nothing unasked, for  *)
(* any tree, any paths, any requests and plans of any length.              *)
(*                                                                         *)
(* The argument: the planner's two sets of names and a tree agree for as   *)
(* long as no entry is simulated twice, so each planned change has a tree  *)
(* that the adapter leaves and that agrees with the next simulated state.  *)
(* The first change that renames or moves, or after which an entry is      *)
(* simulated twice, is one the adapter refuses, if its paths are spelled   *)
(* as the scan does.                                                       *)
(***************************************************************************)
EXTENDS RepositoryManipulation, TLAPS

\* The simulated files fs and directories ds are those of the tree t.
Agree(fs, ds, t) ==
    /\ t \in [Paths -> Entries]
    /\ fs = {p \in Paths : IsFile(t, p)}
    /\ ds = {p \in Paths : t[p] = "dir"}
    /\ \A p \in Paths : t[p] # "none" => \A a \in Above[p] : t[a] = "dir"

\* The old content that a change takes from t, leaving u, is asked for.
LosesAsked(t, u, op) == \A p \in Paths : t[p] = "old" /\ u[p] # "old" => AsksFor(op, p)

\* The adapter carries the change out and leaves the tree simulated for op.
Foretold(t, op) ==
    /\ ~Moving(op) /\ ~Confused(FilesAfter(op), DirsAfter(op))
    /\ \E u : /\ Carry(t, Change(op)) = {u}
              /\ Agree(FilesAfter(op), DirsAfter(op), u)
              /\ LosesAsked(t, u, Change(op))

\* The adapter refuses the change, which is a move or simulates an entry twice.
Refused(t, op) ==
    /\ Moving(op) \/ Confused(FilesAfter(op), DirsAfter(op))
    /\ Carry(t, Change(op)) = {}

\* Every path of op is spelled as the scan does.
PlainOp(op) == \A n \in NamesOf(op) : n # Root => Path[n] = n

\* The trees ts that the first m changes of the plan leave one after another.
TreesOf(ts, m) ==
    /\ m \in 0 .. Len(ops)
    /\ ts[0] = first
    /\ \A k \in 1 .. m : Carry(ts[k - 1], ops[k]) = {ts[k]}
    /\ \A k \in 0 .. m : \A p \in Paths :
          first[p] = "old" /\ ts[k][p] # "old" => \E i \in 1 .. k : AsksFor(ops[i], p)

\* They end where the plan does, or before a change that is refused.
EndOf(ts, m) ==
    IF twice \/ Moves
             THEN m < Len(ops) /\ Carry(ts[m], ops[m + 1]) = {}
             ELSE m = Len(ops) /\ Agree(files, dirs, ts[m])

PlanInv ==
    valid /\ Plain =>
        \E ts, m : /\ TreesOf(ts, m) /\ EndOf(ts, m)
                   /\ next - 1 <= m /\ tree = ts[next - 1]

\* Another spelling is simulated beside the scan's.
SpellingInv == valid /\ ~twice => Plain /\ ~Confused(files, dirs)

PhaseInv ==
    /\ phase = "plan" => next = 1 /\ tree = first
    /\ phase # "plan" => valid
    /\ phase = "applied" => next > Len(ops)
    /\ phase = "refused" => next <= Len(ops) /\ Carry(tree, ops[next]) = {}

Inv == TypeOK /\ PlanInv /\ SpellingInv /\ PhaseInv

USE RepositoryManipulationAssumption

-----------------------------------------------------------------------------
(* Paths and changes *)

LEMMA PathsAreNames == Paths \subseteq Names /\ \A p \in Paths : Path[p] = p
BY DEF Paths

LEMMA SafeIsPath ==
    ASSUME NEW n \in Names, n \notin Unsafe, Path[n] = n PROVE n \in Paths
BY DEF Paths

\* Among paths, an entry is simulated twice only as a file and a directory.
LEMMA ConfusedPaths ==
    ASSUME NEW fs, NEW ds, fs \subseteq Paths, ds \subseteq Paths
    PROVE  Confused(fs, ds) <=> fs \cap ds # {}
BY PathsAreNames DEF Confused

LEMMA AgreeIs ==
    ASSUME NEW t, Agree(files, dirs, t)
    PROVE  /\ files \subseteq Paths /\ dirs \subseteq Paths /\ files \cap dirs = {}
           /\ \A p \in Paths : p \in files <=> t[p] \in {"old", "new"}
           /\ \A p \in Paths : p \in dirs <=> t[p] = "dir"
           /\ \A p \in Paths : t[p] \in Entries
BY DEF Agree, IsFile

LEMMA ChangeIs ==
    ASSUME NEW op \in Operation
    PROVE  /\ Change(op) \in Operation
           /\ Change(op).kind = op.kind /\ Change(op).path = op.path
           /\ Change(op).dest = op.dest
           /\ Change(op).flag = IF op.kind = "create_file" THEN op.path \in files ELSE op.flag
<1>1. CASE op.kind = "create_file"
  <2>0. (op.path \in files) \in BOOLEAN
    OBVIOUS
  <2> PICK f \in BOOLEAN : f = (op.path \in files)
    BY <2>0, Zenon
  <2>1. Change(op) = [op EXCEPT !.flag = f]
    BY <1>1 DEF Change
  <2>2. Change(op) \in Operation /\ Change(op).flag = f
    BY <2>1 DEF Operation
  <2>3. Change(op).kind = op.kind /\ Change(op).path = op.path /\ Change(op).dest = op.dest
    BY <2>1 DEF Operation
  <2> QED BY <1>1, <2>2, <2>3
<1>2. CASE op.kind # "create_file"
  BY <1>2 DEF Change
<1> QED BY <1>1, <1>2

\* A handler leaves trees.
LEMMA CarryType ==
    ASSUME NEW t \in [Paths -> Entries], NEW op \in Operation, NEW u \in Carry(t, op)
    PROVE  u \in [Paths -> Entries]
<1> DEFINE p == Path[op.path]
           q == Path[op.dest]
<1>1. \A r, e : e \in Entries => Put(t, r, e) \in [Paths -> Entries]
  BY DEF Put, Entries
<1>2. CASE op.kind = "create_file"
  <2>1. u = Put(t, p, "new")
    BY <1>2 DEF Carry, CreateFile, OverwriteFile
  <2> QED BY <1>1, <2>1 DEF Entries
<1>3. CASE op.kind \in {"modify_file", "delete_file"}
  <2>1. \E e \in {"new", "none"} : u = [t EXCEPT ![p] = e]
    BY <1>3 DEF Carry, ModifyFile, DeleteFile
  <2> QED BY <2>1 DEF Entries
<1>4. CASE op.kind = "create_directory"
  <2>1. u = Put(t, p, "dir")
    BY <1>4 DEF Carry, CreateDirectory
  <2> QED BY <1>1, <2>1 DEF Entries
<1>5. CASE op.kind = "delete_directory"
  <2>1. u = [r \in Paths |-> IF r = p \/ p \in Above[r] THEN "none" ELSE t[r]]
    BY <1>5 DEF Carry, DeleteDirectory
  <2> QED BY <2>1 DEF Entries
<1>6. CASE op.kind \in {"rename_file", "move_file"}
  BY <1>6 DEF Carry
<1>7. op.kind \in Kinds
  BY DEF Operation
<1> QED BY <1>2, <1>3, <1>4, <1>5, <1>6, <1>7 DEF Kinds

-----------------------------------------------------------------------------
(* What the planner accepts: one lemma for each kind of operation *)

\* Below a directory that exists there is nothing but directories above.
LEMMA ParentIs ==
    ASSUME NEW t, Agree(files, dirs, t), NEW p \in Paths, ~NoParent(p)
    PROVE  \A a \in Above[p] : a \in Paths /\ t[a] = "dir"
<1> SUFFICES ASSUME NEW a \in Above[p] PROVE a \in Paths /\ t[a] = "dir"
  OBVIOUS
<1>1. Above[p] \subseteq Paths
  OBVIOUS
<1>2. \E b \in Above[p] : Above[p] = Above[b] \cup {b}
  OBVIOUS
<1>3. Up(p) \in Above[p] /\ Above[p] = Above[Up(p)] \cup {Up(p)}
  BY <1>2 DEF Up
<1>4. Up(p) \in dirs
  BY <1>1, <1>3, PathsAreNames DEF NoParent
<1>5. Up(p) \in Paths /\ t[Up(p)] = "dir" /\ \A b \in Above[Up(p)] : t[b] = "dir"
  BY <1>4 DEF Agree
<1> QED BY <1>1, <1>3, <1>5

LEMMA CreateFileForetold ==
    ASSUME NEW t, Agree(files, dirs, t), NEW op \in Operation, PlainOp(op), ~Conflict(op),
           op.kind = "create_file"
    PROVE  Foretold(t, op) \/ Refused(t, op)
<1> DEFINE p == op.path
           u == Put(t, p, "new")
<1>1. p \in Paths /\ Path[p] = p /\ ~NoParent(p) /\ p \notin Above[p]
  <2>1. p \in Names /\ p # Root
    BY DEF Operation
  <2>2. Path[p] = p
    BY <2>1 DEF PlainOp, NamesOf, Moving
  <2> QED BY <2>1, <2>2, SafeIsPath DEF Conflict
<1>2. FilesAfter(op) = files \cup {p} /\ DirsAfter(op) = dirs
  BY DEF FilesAfter, DirsAfter
<1>3. \A a \in Above[p] : a \in Paths /\ t[a] = "dir"
  BY <1>1, ParentIs
<1>4. Carry(t, Change(op)) = IF p \in files THEN OverwriteFile(t, p) ELSE CreateFile(t, p)
  BY <1>1, ChangeIs DEF Carry
<1>5. MayMake(t, p)
  BY <1>3 DEF MayMake
<1>6. Confused(files \cup {p}, dirs) <=> p \in dirs
  BY <1>1, AgreeIs, ConfusedPaths
<1>7. CASE p \in dirs
  <2>1. t[p] = "dir" /\ p \notin files
    BY <1>1, <1>7, AgreeIs
  <2>2. Carry(t, Change(op)) = {}
    BY <1>4, <2>1 DEF CreateFile
  <2> QED BY <1>2, <1>6, <1>7, <2>2 DEF Refused
<1>8. CASE p \notin dirs
  <2>1. t[p] # "dir" /\ (p \notin files => t[p] = "none")
    BY <1>1, <1>8, AgreeIs DEF Entries
  <2>2. Carry(t, Change(op)) = {u}
    BY <1>4, <1>5, <2>1 DEF CreateFile, OverwriteFile
  <2>3. \A q \in Paths : u[q] = IF q = p THEN "new" ELSE t[q]
    BY <1>3 DEF Put
  <2>4. u \in [Paths -> Entries]
    BY <2>3, AgreeIs DEF Put, Entries
  <2>5. \A q \in Paths : p \in Above[q] => t[q] = "none"
    BY <1>1, <2>1 DEF Agree
  <2>6. \A q \in Paths : u[q] # "none" => \A a \in Above[q] : u[a] = "dir"
    <3> SUFFICES ASSUME NEW q \in Paths, u[q] # "none", NEW a \in Above[q]
                 PROVE  u[a] = "dir"
      OBVIOUS
    <3>1. a \in Paths
      OBVIOUS
    <3>2. CASE q = p
      BY <1>1, <1>3, <2>3, <3>1, <3>2
    <3>3. CASE q # p
      <4>1. t[q] # "none" /\ a # p
        BY <2>3, <2>5, <3>3
      <4>2. t[a] = "dir"
        BY <4>1 DEF Agree
      <4> QED BY <2>3, <3>1, <4>1, <4>2
    <3> QED BY <3>2, <3>3
  <2>7. files \cup {p} = {q \in Paths : IsFile(u, q)}
    BY <1>1, <2>3, AgreeIs DEF IsFile
  <2>8. dirs = {q \in Paths : u[q] = "dir"}
    BY <1>1, <2>1, <2>3, AgreeIs
  <2>9. Agree(files \cup {p}, dirs, u)
    BY <2>4, <2>6, <2>7, <2>8 DEF Agree
  <2>10. LosesAsked(t, u, Change(op))
    <3>1. ASSUME NEW q \in Paths, t[q] = "old", u[q] # "old" PROVE q = p /\ p \in files
      BY <2>3, <3>1, AgreeIs
    <3> QED BY <1>1, <3>1, ChangeIs DEF LosesAsked, AsksFor
  <2> QED BY <1>2, <1>6, <1>8, <2>2, <2>9, <2>10 DEF Foretold, Moving
<1> QED BY <1>7, <1>8

LEMMA ModifyFileForetold ==
    ASSUME NEW t, Agree(files, dirs, t), NEW op \in Operation, ~Conflict(op),
           op.kind = "modify_file"
    PROVE  Foretold(t, op)
<1> DEFINE p == op.path
           u == [t EXCEPT ![p] = "new"]
<1>1. p \in files /\ p \in Paths /\ Path[p] = p /\ t[p] \in {"old", "new"}
  BY AgreeIs, PathsAreNames DEF Conflict
<1>2. FilesAfter(op) = files /\ DirsAfter(op) = dirs
  BY DEF FilesAfter, DirsAfter
<1>3. Carry(t, Change(op)) = {u}
  BY <1>1, ChangeIs DEF Carry, ModifyFile, IsFile
<1>4. u \in [Paths -> Entries] /\ \A q \in Paths : u[q] = IF q = p THEN "new" ELSE t[q]
  BY DEF Agree, Entries
<1>5. Agree(files, dirs, u)
  <2>1. \A q \in Paths : IsFile(u, q) <=> IsFile(t, q)
    BY <1>1, <1>4 DEF IsFile
  <2>2. \A q \in Paths : u[q] = "dir" <=> t[q] = "dir"
    BY <1>1, <1>4
  <2>3. \A q \in Paths : u[q] = "none" <=> t[q] = "none"
    BY <1>1, <1>4
  <2> QED BY <1>4, <2>1, <2>2, <2>3 DEF Agree
<1>6. LosesAsked(t, u, Change(op))
  BY <1>1, <1>4, ChangeIs DEF LosesAsked, AsksFor
<1>7. ~Confused(files, dirs)
  BY AgreeIs, ConfusedPaths
<1> QED BY <1>2, <1>3, <1>5, <1>6, <1>7 DEF Foretold, Moving

LEMMA DeleteFileForetold ==
    ASSUME NEW t, Agree(files, dirs, t), NEW op \in Operation, ~Conflict(op),
           op.kind = "delete_file"
    PROVE  Foretold(t, op)
<1> DEFINE p == op.path
           u == [t EXCEPT ![p] = "none"]
<1>1. p \in files /\ p \in Paths /\ Path[p] = p /\ t[p] \in {"old", "new"}
  BY AgreeIs, PathsAreNames DEF Conflict
<1>2. FilesAfter(op) = files \ {p} /\ DirsAfter(op) = dirs
  BY DEF FilesAfter, DirsAfter
<1>3. Carry(t, Change(op)) = {u}
  BY <1>1, ChangeIs DEF Carry, DeleteFile, IsFile
<1>4. u \in [Paths -> Entries] /\ \A q \in Paths : u[q] = IF q = p THEN "none" ELSE t[q]
  BY DEF Agree, Entries
<1>5. Agree(files \ {p}, dirs, u)
  <2>1. files \ {p} = {q \in Paths : IsFile(u, q)}
    BY <1>1, <1>4, AgreeIs DEF IsFile
  <2>2. \A q \in Paths : u[q] = "dir" <=> t[q] = "dir"
    BY <1>1, <1>4
  <2>3. \A q \in Paths : u[q] # "none" => t[q] # "none"
    BY <1>4
  <2>4. \A q \in Paths : u[q] # "none" => \A a \in Above[q] : u[a] = "dir"
    BY <2>2, <2>3 DEF Agree
  <2> QED BY <1>4, <2>1, <2>2, <2>4 DEF Agree
<1>6. LosesAsked(t, u, Change(op))
  BY <1>1, <1>4, ChangeIs DEF LosesAsked, AsksFor
<1>7. ~Confused(files \ {p}, dirs)
  <2>1. files \ {p} \subseteq Paths /\ dirs \subseteq Paths /\ (files \ {p}) \cap dirs = {}
    BY AgreeIs
  <2> QED BY <2>1, ConfusedPaths
<1> QED BY <1>2, <1>3, <1>5, <1>6, <1>7 DEF Foretold, Moving

LEMMA MoveFileRefused ==
    ASSUME NEW t, NEW op \in Operation, Moving(op) PROVE Refused(t, op)
<1>1. Carry(t, Change(op)) = {}
  BY ChangeIs DEF Carry, Moving
<1> QED BY <1>1 DEF Refused

LEMMA CreateDirectoryForetold ==
    ASSUME NEW t, Agree(files, dirs, t), NEW op \in Operation, PlainOp(op), ~Conflict(op),
           op.kind = "create_directory"
    PROVE  Foretold(t, op) \/ Refused(t, op)
<1> DEFINE p == op.path
           u == Put(t, p, "dir")
           ds == dirs \cup Above[p] \cup {p}
<1>1. p \in Paths /\ Path[p] = p /\ p \notin dirs /\ Above[p] \subseteq Paths
  <2>1. p \in Names /\ p # Root
    BY DEF Operation
  <2>2. Path[p] = p
    BY <2>1 DEF PlainOp, NamesOf, Moving
  <2>3. p \notin Unsafe /\ p \notin dirs
    BY DEF Conflict
  <2> QED BY <2>1, <2>2, <2>3, SafeIsPath
<1>2. FilesAfter(op) = files /\ DirsAfter(op) = ds
  BY DEF FilesAfter, DirsAfter
<1>3. Carry(t, Change(op)) = CreateDirectory(t, p)
  BY <1>1, ChangeIs DEF Carry
<1>4. Confused(files, ds) <=> \E a \in Above[p] \cup {p} : a \in files
  <2>1. ds \subseteq Paths /\ files \subseteq Paths
    BY <1>1, AgreeIs
  <2>2. files \cap ds # {} <=> \E a \in Above[p] \cup {p} : a \in files
    BY AgreeIs
  <2> QED BY <2>1, <2>2, ConfusedPaths
<1>5. CASE \E a \in Above[p] \cup {p} : a \in files
  <2>1. PICK a \in Above[p] \cup {p} : t[a] \in {"old", "new"}
    BY <1>1, <1>5, AgreeIs
  <2>2. Carry(t, Change(op)) = {}
    BY <1>3, <2>1 DEF CreateDirectory, MayMake
  <2> QED BY <1>2, <1>4, <1>5, <2>2 DEF Refused
<1>6. CASE ~ \E a \in Above[p] \cup {p} : a \in files
  <2>1. \A a \in Above[p] \cup {p} : t[a] \in {"none", "dir"}
    BY <1>1, <1>6, AgreeIs DEF Entries
  <2>2. Carry(t, Change(op)) = {u}
    BY <1>3, <2>1 DEF CreateDirectory, MayMake
  <2>3. \A q \in Paths : u[q] = IF q \in Above[p] \cup {p} THEN "dir" ELSE t[q]
    BY DEF Put
  <2>4. u \in [Paths -> Entries]
    BY <2>3, AgreeIs DEF Put, Entries
  <2>5. files = {q \in Paths : IsFile(u, q)}
    BY <2>1, <2>3, AgreeIs DEF IsFile
  <2>6. ds = {q \in Paths : u[q] = "dir"}
    BY <1>1, <2>3, AgreeIs
  <2>7. \A q \in Paths : u[q] # "none" => \A a \in Above[q] : u[a] = "dir"
    <3> SUFFICES ASSUME NEW q \in Paths, u[q] # "none", NEW a \in Above[q]
                 PROVE  u[a] = "dir"
      OBVIOUS
    <3>1. a \in Paths
      OBVIOUS
    <3>2. CASE q \in Above[p] \cup {p}
      <4>1. a \in Above[p]
        BY <1>1, <3>2
      <4> QED BY <2>3, <3>1, <4>1
    <3>3. CASE q \notin Above[p] \cup {p}
      <4>1. t[a] = "dir"
        BY <2>3, <3>3 DEF Agree
      <4> QED BY <2>3, <3>1, <4>1
    <3> QED BY <3>2, <3>3
  <2>8. Agree(files, ds, u)
    BY <2>4, <2>5, <2>6, <2>7 DEF Agree
  <2>9. LosesAsked(t, u, Change(op))
    BY <2>1, <2>3 DEF LosesAsked
  <2> QED BY <1>2, <1>4, <1>6, <2>2, <2>8, <2>9 DEF Foretold, Moving
<1> QED BY <1>5, <1>6

\* The adapter deletes all that is below; the planner has seen whether
\* something is.
LEMMA DeleteDirectoryForetold ==
    ASSUME NEW t, Agree(files, dirs, t), NEW op \in Operation, ~Conflict(op),
           op.kind = "delete_directory"
    PROVE  Foretold(t, op)
<1> DEFINE p == op.path
           u == [q \in Paths |-> IF q = p \/ p \in Above[q] THEN "none" ELSE t[q]]
           fs == files \ Within(files, p)
           ds == dirs \ ({p} \cup Within(dirs, p))
<1>1. p \in dirs /\ p \in Paths /\ Path[p] = p /\ t[p] = "dir"
  BY AgreeIs, PathsAreNames DEF Conflict
<1>2. FilesAfter(op) = fs /\ DirsAfter(op) = ds
  BY DEF FilesAfter, DirsAfter
<1>3. Carry(t, Change(op)) = {u}
  BY <1>1, ChangeIs DEF Carry, DeleteDirectory
<1>4. u \in [Paths -> Entries]
  BY AgreeIs DEF Entries
<1>5. fs = {q \in Paths : IsFile(u, q)}
  BY <1>1, AgreeIs DEF IsFile, Within
<1>6. ds = {q \in Paths : u[q] = "dir"}
  BY AgreeIs DEF Within
<1>7. \A q \in Paths : u[q] # "none" => \A a \in Above[q] : u[a] = "dir"
  <2> SUFFICES ASSUME NEW q \in Paths, u[q] # "none", NEW a \in Above[q]
               PROVE  u[a] = "dir"
    OBVIOUS
  <2>1. q # p /\ p \notin Above[q] /\ t[q] # "none"
    OBVIOUS
  <2>2. a \in Paths /\ t[a] = "dir"
    BY <2>1 DEF Agree
  <2>3. a # p /\ p \notin Above[a]
    BY <2>1
  <2> QED BY <2>2, <2>3
<1>8. Agree(fs, ds, u)
  BY <1>4, <1>5, <1>6, <1>7 DEF Agree
<1>9. LosesAsked(t, u, Change(op))
  <2> SUFFICES ASSUME NEW q \in Paths, t[q] = "old", u[q] # "old"
               PROVE  p \in Above[q] /\ op.flag
    BY <1>1, ChangeIs DEF LosesAsked, AsksFor
  <2>1. p \in Above[q] /\ q \in files
    BY <1>1, AgreeIs
  <2>2. NotEmpty(p)
    BY <2>1 DEF NotEmpty, Within
  <2> QED BY <2>1, <2>2 DEF Conflict, Operation
<1>10. ~Confused(fs, ds)
  <2>1. fs \subseteq Paths /\ ds \subseteq Paths /\ fs \cap ds = {}
    BY AgreeIs
  <2> QED BY <2>1, ConfusedPaths
<1> QED BY <1>2, <1>3, <1>8, <1>9, <1>10 DEF Foretold, Moving

\* Whatever the planner accepts the adapter carries out as simulated, or it
\* refuses it and the planner simulates an entry twice.
LEMMA AcceptedIsForetold ==
    ASSUME NEW t, Agree(files, dirs, t), NEW op \in Operation, PlainOp(op), ~Conflict(op)
    PROVE  Foretold(t, op) \/ Refused(t, op)
<1>1. op.kind \in Kinds
  BY DEF Operation
<1>2. CASE op.kind = "create_file"
  BY <1>2, CreateFileForetold
<1>3. CASE op.kind = "modify_file"
  BY <1>3, ModifyFileForetold
<1>4. CASE op.kind = "delete_file"
  BY <1>4, DeleteFileForetold
<1>5. CASE op.kind \in {"rename_file", "move_file"}
  BY <1>5, MoveFileRefused DEF Moving
<1>6. CASE op.kind = "create_directory"
  BY <1>6, CreateDirectoryForetold
<1>7. CASE op.kind = "delete_directory"
  BY <1>7, DeleteDirectoryForetold
<1> QED BY <1>1, <1>2, <1>3, <1>4, <1>5, <1>6, <1>7 DEF Kinds

\* A name spelled otherwise shows among the simulated entries.
LEMMA OddSpellingShows ==
    ASSUME NEW op \in Operation, ~Conflict(op), ~Confused(files, dirs),
           ~Confused(FilesAfter(op), DirsAfter(op))
    PROVE  PlainOp(op)
<1> SUFFICES ASSUME NEW n \in NamesOf(op), n # Root
             PROVE  \/ n \in files \cup dirs
                    \/ n \in FilesAfter(op) \cup DirsAfter(op)
  <2>1. \A n \in files \cup dirs : Path[n] = n
    BY Zenon DEF Confused
  <2>2. \A n \in FilesAfter(op) \cup DirsAfter(op) : Path[n] = n
    BY Zenon DEF Confused
  <2> QED BY <2>1, <2>2 DEF PlainOp
<1>1. op.kind \in Kinds
  BY DEF Operation
<1>2. CASE op.kind = "create_file"
  BY <1>2 DEF NamesOf, Moving, FilesAfter
<1>3. CASE op.kind \in {"modify_file", "delete_file"}
  <2>1. op.path \in files
    BY <1>3 DEF Conflict
  <2> QED BY <1>3, <2>1 DEF NamesOf, Moving
<1>4. CASE op.kind \in {"rename_file", "move_file"}
  <2>1. op.path \in files
    BY <1>4 DEF Conflict
  <2>2. op.dest \in FilesAfter(op)
    BY <1>4 DEF FilesAfter
  <2> QED BY <1>4, <2>1, <2>2 DEF NamesOf, Moving
<1>5. CASE op.kind = "create_directory"
  BY <1>5 DEF NamesOf, Moving, DirsAfter
<1>6. CASE op.kind = "delete_directory"
  BY <1>6 DEF NamesOf, Moving, Conflict
<1> QED BY <1>1, <1>2, <1>3, <1>4, <1>5, <1>6 DEF Kinds

-----------------------------------------------------------------------------
(* The invariant *)

LEMMA InitInv == Init => Inv
<1> SUFFICES ASSUME Init PROVE Inv
  OBVIOUS
<1> USE DEF Init
<1>1. TypeOK
  <2>1. tree \in [Paths -> Entries] /\ first \in Trees
    BY DEF Trees, Entries
  <2>2. ops \in Seq(Operation) /\ Len(ops) <= MaxOps /\ next \in 1 .. MaxOps + 1
    OBVIOUS
  <2>3. files \subseteq Names /\ dirs \subseteq Names
    BY PathsAreNames
  <2> QED BY <2>1, <2>2, <2>3 DEF TypeOK
<1>2. Agree(files, dirs, tree)
  <2>1. tree \in [Paths -> Entries] /\ \A p \in Paths : tree[p] # "new"
    BY DEF Trees, Entries
  <2>2. files = {p \in Paths : IsFile(tree, p)}
    BY <2>1 DEF IsFile
  <2> QED BY <2>1, <2>2 DEF Agree, Trees
<1>3. PlanInv
  <2> DEFINE ts == [k \in {0} |-> first]
  <2>1. TreesOf(ts, 0)
    BY DEF TreesOf
  <2>2. EndOf(ts, 0)
    BY <1>2 DEF EndOf, Moves
  <2>3. next - 1 <= 0 /\ tree = ts[next - 1]
    OBVIOUS
  <2> QED BY <2>1, <2>2, <2>3 DEF PlanInv
<1>4. SpellingInv /\ PhaseInv
  <2>1. ~Confused(files, dirs)
    BY <1>2, AgreeIs, ConfusedPaths
  <2> QED BY <2>1 DEF SpellingInv, PhaseInv, Plain
<1> QED BY <1>1, <1>3, <1>4 DEF Inv

\* Another operation at the end of the plan leaves what was known of it.
LEMMA TreesOfLonger ==
    ASSUME TypeOK, NEW c \in Operation, ops' = Append(ops, c), UNCHANGED first,
           NEW ts, NEW m, TreesOf(ts, m)
    PROVE  TreesOf(ts, m)'
<1>1. /\ Len(ops') = Len(ops) + 1 /\ Len(ops) \in Nat
      /\ \A k \in 1 .. Len(ops) : ops'[k] = ops[k]
  BY DEF TypeOK
<1>2. m \in 0 .. Len(ops) /\ \A k \in 1 .. m : ops'[k] = ops[k]
  BY <1>1 DEF TreesOf
<1>3. \A k \in 1 .. m : Carry(ts[k - 1], ops'[k]) = {ts[k]}
  BY <1>2 DEF TreesOf
<1>4. ASSUME NEW k \in 0 .. m, NEW p \in Paths, first[p] = "old", ts[k][p] # "old"
      PROVE  \E i \in 1 .. k : AsksFor(ops'[i], p)
  <2>1. PICK i \in 1 .. k : AsksFor(ops[i], p)
    BY <1>4 DEF TreesOf
  <2>2. ops'[i] = ops[i]
    BY <1>2
  <2> QED BY <2>1, <2>2
<1>5. m \in 0 .. Len(ops') /\ ts[0] = first'
  BY <1>1, <1>2 DEF TreesOf
<1>6. \A k \in 0 .. m : \A p \in Paths :
          first'[p] = "old" /\ ts[k][p] # "old" => \E i \in 1 .. k : AsksFor(ops'[i], p)
  BY <1>4, Zenon
<1> QED BY <1>3, <1>5, <1>6, Zenon DEF TreesOf

LEMMA PlanKeeps ==
    ASSUME Inv, NEW op \in Requests, Plan(op) PROVE Inv'
<1> DEFINE c == Change(op)
           n == Len(ops)
<1>1. /\ phase = "plan" /\ n < MaxOps /\ ops' = Append(ops, c)
      /\ UNCHANGED <<tree, first, phase, next>>
      /\ next = 1 /\ tree = first /\ TypeOK /\ op \in Operation
  BY DEF Plan, Inv, PhaseInv
<1>2. PICK d \in Operation : d = c
  BY <1>1, ChangeIs
<1>3. /\ n \in Nat /\ Len(ops') = n + 1 /\ ops' \in Seq(Operation)
      /\ ops'[n + 1] = d /\ \A k \in 1 .. n : ops'[k] = ops[k]
  BY <1>1, <1>2 DEF TypeOK
<1>4. Plain' => Plain /\ PlainOp(op)
  <2>1. NamesOf(d) = NamesOf(op)
    BY <1>1, <1>2, ChangeIs DEF NamesOf, Moving
  <2>2. Plain' => Plain
    BY <1>3 DEF Plain
  <2>3. Plain' => \A x \in NamesOf(ops'[n + 1]) : x # Root => Path[x] = x
    BY <1>3 DEF Plain
  <2> QED BY <1>3, <2>1, <2>2, <2>3 DEF PlainOp
<1>5. PhaseInv'
  BY <1>1 DEF PhaseInv
<1>6. CASE Duplicate(op) \/ Conflict(op)
  <2>1. valid' = FALSE /\ UNCHANGED <<files, dirs, twice>>
    BY <1>6 DEF Plan
  <2>2. valid' \in BOOLEAN /\ twice' \in BOOLEAN
    BY <1>1, <2>1, Zenon DEF TypeOK
  <2>3. /\ tree' \in [Paths -> Entries] /\ first' \in Trees
        /\ files' \subseteq Names /\ dirs' \subseteq Names
        /\ phase' \in {"plan", "apply", "applied", "refused"} /\ next' \in 1 .. MaxOps + 1
    BY <1>1, <2>1 DEF TypeOK
  <2>4. Len(ops') <= MaxOps
    BY <1>1, <1>3
  <2>5. TypeOK'
    BY <1>3, <2>2, <2>3, <2>4 DEF TypeOK
  <2> QED BY <1>5, <2>1, <2>5 DEF Inv, PlanInv, SpellingInv
<1>7. CASE ~(Duplicate(op) \/ Conflict(op))
  <2> DEFINE fs == FilesAfter(op)
             ds == DirsAfter(op)
  <2>1. /\ files' = fs /\ dirs' = ds /\ twice' = (twice \/ Confused(fs, ds))
        /\ valid' = valid
    BY <1>7 DEF Plan
  <2>2. TypeOK'
    <3>1. fs \subseteq Names /\ ds \subseteq Names
      <4>1. op.path \in Names /\ (op.dest \notin Unsafe \cup {Root} => op.dest \in Names)
        BY <1>1 DEF Operation
      <4>2. fs \subseteq Names
        BY <1>1, <1>7, <4>1 DEF TypeOK, FilesAfter, Conflict
      <4>3. Above[op.path] \subseteq Names
        BY <4>1
      <4>4. ds \subseteq Names
        BY <1>1, <4>1, <4>3 DEF TypeOK, DirsAfter
      <4> QED BY <4>2, <4>4
    <3>2. twice' \in BOOLEAN
      BY <1>1, <2>1 DEF TypeOK
    <3> QED BY <1>1, <1>3, <2>1, <3>1, <3>2 DEF TypeOK
  <2>3. SpellingInv'
    <3> SUFFICES ASSUME valid, ~twice, ~Confused(fs, ds)
                 PROVE  Plain' /\ ~Confused(fs, ds)
      BY <2>1 DEF SpellingInv
    <3>1. Plain /\ ~Confused(files, dirs)
      BY DEF Inv, SpellingInv
    <3>2. PlainOp(op)
      BY <1>1, <1>7, <3>1, OddSpellingShows
    <3>3. NamesOf(d) = NamesOf(op)
      BY <1>1, <1>2, ChangeIs DEF NamesOf, Moving
    <3>4. ASSUME NEW i \in DOMAIN ops', NEW x \in NamesOf(ops'[i]), x # Root PROVE Path[x] = x
      <4>1. i \in 1 .. n \/ i = n + 1
        BY <1>3
      <4>2. CASE i \in 1 .. n
        BY <1>3, <3>1, <3>4, <4>2 DEF Plain
      <4>3. CASE i = n + 1
        BY <1>3, <3>2, <3>3, <3>4, <4>3 DEF PlainOp
      <4> QED BY <4>1, <4>2, <4>3
    <3> QED BY <3>4 DEF Plain
  <2>4. PlanInv'
    <3> SUFFICES ASSUME valid, Plain, PlainOp(op)
                 PROVE  \E ts, m : /\ TreesOf(ts, m)' /\ EndOf(ts, m)'
                                   /\ next - 1 <= m /\ tree = ts[next - 1]
      BY <1>1, <1>4, <2>1 DEF PlanInv
    <3>1. PICK ts, m : TreesOf(ts, m) /\ EndOf(ts, m)
      BY DEF Inv, PlanInv
    <3>2. m \in 0 .. n /\ ts[0] = first
      BY <3>1 DEF TreesOf
    <3>3. TreesOf(ts, m)'
      BY <1>1, <1>2, <3>1, TreesOfLonger
    <3>4. next - 1 <= m /\ tree = ts[next - 1]
      BY <1>1, <3>2
    <3>0. Moves' <=> Moves \/ Moving(op)
      <4>1. Moving(d) <=> Moving(op)
        BY <1>1, <1>2, ChangeIs DEF Moving
      <4>2. DOMAIN ops' = 1 .. n + 1 /\ DOMAIN ops = 1 .. n
        BY <1>1, <1>3 DEF TypeOK
      <4>3. Moves' <=> \E i \in 1 .. n + 1 : Moving(ops'[i])
        BY <4>2 DEF Moves, Moving
      <4> QED BY <1>3, <4>1, <4>2, <4>3 DEF Moves
    <3>5. CASE twice \/ Moves
      <4>1. m < n /\ Carry(ts[m], ops[m + 1]) = {}
        BY <3>1, <3>5 DEF EndOf
      <4>2. m < Len(ops') /\ ops'[m + 1] = ops[m + 1]
        BY <1>3, <3>2, <4>1
      <4>3. EndOf(ts, m)'
        BY <2>1, <3>0, <3>5, <4>1, <4>2 DEF EndOf
      <4> QED BY <3>3, <3>4, <4>3
    <3>6. CASE ~(twice \/ Moves)
      <4>1. m = n /\ Agree(files, dirs, ts[m])
        BY <3>1, <3>6 DEF EndOf
      <4>2. Foretold(ts[m], op) \/ Refused(ts[m], op)
        BY <1>1, <1>7, <4>1, AcceptedIsForetold
      <4>3. CASE Refused(ts[m], op)
        <5>1. twice' \/ Moves'
          BY <2>1, <3>0, <4>3, Zenon DEF Refused
        <5>2. m < Len(ops') /\ ops'[m + 1] = d
          BY <1>3, <4>1
        <5>3. Carry(ts[m], d) = {}
          BY <1>2, <4>3 DEF Refused
        <5>4. EndOf(ts, m)'
          BY <5>1, <5>2, <5>3 DEF EndOf
        <5> QED BY <3>3, <3>4, <5>4
      <4>4. CASE Foretold(ts[m], op)
        <5>1. PICK u : Carry(ts[m], d) = {u} /\ Agree(fs, ds, u) /\ LosesAsked(ts[m], u, d)
          BY <1>2, <4>4 DEF Foretold
        <5> DEFINE vs == [k \in 0 .. m + 1 |-> IF k = m + 1 THEN u ELSE ts[k]]
        <5>0. vs[m + 1] = u /\ \A k \in 0 .. m : vs[k] = ts[k]
          BY <3>2
        <5> HIDE DEF vs
        <5>2. PICK us : us[m + 1] = u /\ \A k \in 0 .. m : us[k] = ts[k]
          BY <5>0
        <5>3. TreesOf(us, m + 1)'
          <6>1. m + 1 \in 0 .. Len(ops') /\ us[0] = first
            BY <1>3, <3>2, <4>1, <5>2
          <6>2. ASSUME NEW k \in 1 .. m + 1 PROVE Carry(us[k - 1], ops'[k]) = {us[k]}
            <7>1. CASE k \in 1 .. m
              <8>1. k - 1 \in 0 .. m /\ k \in 0 .. m
                BY <3>2, <7>1
              <8>2. us[k - 1] = ts[k - 1] /\ us[k] = ts[k]
                BY <5>2, <8>1
              <8>3. Carry(ts[k - 1], ops'[k]) = {ts[k]}
                BY <3>3, <7>1 DEF TreesOf
              <8> QED BY <8>2, <8>3
            <7>2. CASE k = m + 1
              <8>1. us[k - 1] = ts[m] /\ us[k] = u /\ ops'[k] = d
                BY <1>3, <3>2, <4>1, <5>2, <7>2
              <8> QED BY <5>1, <8>1
            <7> QED BY <3>2, <7>1, <7>2
          <6>3. ASSUME NEW k \in 0 .. m + 1, NEW p \in Paths, first[p] = "old", us[k][p] # "old"
                PROVE  \E i \in 1 .. k : AsksFor(ops'[i], p)
            <7>1. CASE k \in 0 .. m
              BY <1>1, <3>3, <5>2, <6>3, <7>1 DEF TreesOf
            <7>2. CASE k = m + 1 /\ ts[m][p] = "old"
              <8>1. AsksFor(ops'[k], p)
                BY <1>3, <4>1, <5>1, <5>2, <6>3, <7>2 DEF LosesAsked
              <8> QED BY <3>2, <7>2, <8>1
            <7>3. CASE k = m + 1 /\ ts[m][p] # "old"
              <8>1. PICK i \in 1 .. m : AsksFor(ops'[i], p)
                BY <1>1, <3>2, <3>3, <6>3, <7>3 DEF TreesOf
              <8> QED BY <3>2, <7>3, <8>1
            <7> QED BY <3>2, <7>1, <7>2, <7>3
          <6> QED BY <1>1, <6>1, <6>2, <6>3 DEF TreesOf
        <5>4. EndOf(us, m + 1)'
          <6>1. ~(twice' \/ Moves')
            BY <2>1, <3>0, <3>6, <4>4 DEF Foretold
          <6> QED BY <1>3, <2>1, <4>1, <5>1, <5>2, <6>1 DEF EndOf
        <5>5. next - 1 <= m + 1 /\ tree = us[next - 1]
          BY <1>1, <3>2, <5>2
        <5> QED BY <5>3, <5>4, <5>5
      <4> QED BY <4>2, <4>3, <4>4
    <3> QED BY <3>5, <3>6
  <2> QED BY <1>5, <2>2, <2>3, <2>4 DEF Inv
<1> QED BY <1>6, <1>7

\* A change of the plan is carried out, or refused where the trees end.
LEMMA ApplyKeeps ==
    ASSUME Inv, Apply PROVE Inv'
<1>1. /\ phase = "apply" /\ next <= Len(ops) /\ tree' \in Carry(tree, ops[next])
      /\ next' = next + 1 /\ UNCHANGED <<first, ops, files, dirs, valid, twice, phase>>
  BY DEF Apply
<1>2. TypeOK /\ next \in Nat \ {0} /\ Len(ops) \in Nat /\ ops[next] \in Operation
  BY <1>1 DEF Inv, TypeOK
<1>3. TypeOK'
  <2>1. tree' \in [Paths -> Entries]
    BY <1>1, <1>2, CarryType DEF TypeOK
  <2>2. next' \in 1 .. MaxOps + 1
    BY <1>1, <1>2 DEF TypeOK
  <2> QED BY <1>1, <1>2, <2>1, <2>2 DEF TypeOK
<1>4. SpellingInv' /\ PhaseInv' /\ Plain' = Plain
  BY <1>1 DEF Inv, SpellingInv, PhaseInv, Plain
<1>5. PlanInv'
  <2> SUFFICES ASSUME valid, Plain
               PROVE  \E ts, m : /\ TreesOf(ts, m)' /\ EndOf(ts, m)'
                                 /\ next' - 1 <= m /\ tree' = ts[next' - 1]
    BY <1>1, <1>4 DEF PlanInv
  <2>1. PICK ts, m : /\ TreesOf(ts, m) /\ EndOf(ts, m)
                     /\ next - 1 <= m /\ tree = ts[next - 1]
    BY DEF Inv, PlanInv
  <2>2. TreesOf(ts, m)' /\ EndOf(ts, m)'
    BY <1>1, <2>1 DEF TreesOf, EndOf, Moves
  <2>3. m \in 0 .. Len(ops)
    BY <2>1 DEF TreesOf
  <2>4. next <= m
    <3> SUFFICES ASSUME next = m + 1 PROVE FALSE
      BY <1>2, <2>1, <2>3
    <3>1. m < Len(ops)
      BY <1>1, <2>3
    <3>2. Carry(ts[m], ops[m + 1]) = {}
      BY <2>1, <3>1 DEF EndOf
    <3>3. tree = ts[m]
      BY <2>1, <2>3
    <3> QED BY <1>1, <3>2, <3>3
  <2>5. Carry(ts[next - 1], ops[next]) = {ts[next]}
    BY <1>2, <2>1, <2>3, <2>4 DEF TreesOf
  <2>6. next' - 1 = next
    BY <1>1, <1>2
  <2>7. tree' = ts[next' - 1]
    BY <1>1, <2>1, <2>5, <2>6
  <2> QED BY <2>2, <2>4, <2>6, <2>7
<1> QED BY <1>3, <1>4, <1>5 DEF Inv

\* The other steps change nothing but the phase.
LEMMA PhaseStepKeeps ==
    ASSUME Inv, HandOver \/ Refuse \/ Applied \/ UNCHANGED vars PROVE Inv'
<1>1. UNCHANGED <<tree, first, ops, files, dirs, valid, twice, next>>
  BY DEF HandOver, Refuse, Applied, vars
<1>2. phase' \in {"plan", "apply", "applied", "refused"}
  BY DEF Inv, TypeOK, HandOver, Refuse, Applied, vars
<1>3. TypeOK'
  BY <1>1, <1>2 DEF Inv, TypeOK
<1>4. PlanInv'
  BY <1>1 DEF Inv, PlanInv, Plain, TreesOf, EndOf, Moves
<1>5. SpellingInv'
  BY <1>1 DEF Inv, SpellingInv, Plain
<1>6. PhaseInv'
  BY <1>1 DEF Inv, PhaseInv, HandOver, Refuse, Applied, vars
<1> QED BY <1>3, <1>4, <1>5, <1>6 DEF Inv

LEMMA InvHolds == Spec => []Inv
<1>1. Inv /\ [Next]_vars => Inv'
  BY PlanKeeps, ApplyKeeps, PhaseStepKeeps DEF Next
<1> QED BY InitInv, <1>1, PTL DEF Spec

\* RepositoryManipulation's variables have their types: what the adapter leaves
\* is a tree, and the plan's simulated names are names, whatever is planned.
THEOREM TypeCorrect == Spec => []TypeOK
<1>1. Inv => TypeOK
  BY DEF Inv
<1> QED BY InvHolds, <1>1, PTL

-----------------------------------------------------------------------------
(* The properties *)

\* Every valid plan that renames and moves nothing, and does not use one path as a
\* file and as a directory, or under two spellings, is carried out to its end and leaves the simulated tree,
\* for any tree, any operations and any number of them.
THEOREM ValidPlansHold == Spec => []ValidPlansApply
<1>1. Inv => ValidPlansApply
  <2> SUFFICES ASSUME Inv, phase \in {"applied", "refused"}, ~twice, ~Moves
               PROVE  /\ phase = "applied"
                      /\ files = {p \in Paths : IsFile(tree, p)}
                      /\ dirs = {p \in Paths : tree[p] = "dir"}
    BY DEF ValidPlansApply
  <2>1. valid /\ Plain /\ TypeOK
    BY DEF Inv, PhaseInv, SpellingInv
  <2>2. PICK ts, m : /\ TreesOf(ts, m) /\ EndOf(ts, m)
                     /\ next - 1 <= m /\ tree = ts[next - 1]
    BY <2>1 DEF Inv, PlanInv
  <2>3. m = Len(ops) /\ Agree(files, dirs, ts[m])
    BY <2>2 DEF EndOf
  <2>4. next \in Nat \ {0} /\ Len(ops) \in Nat
    BY <2>1 DEF TypeOK
  <2>5. phase = "applied"
    <3> SUFFICES ASSUME phase = "refused" PROVE FALSE
      OBVIOUS
    <3>1. next <= m /\ Carry(tree, ops[next]) = {}
      BY <2>3 DEF Inv, PhaseInv
    <3>2. next \in 1 .. m
      BY <2>3, <2>4, <3>1
    <3>3. Carry(ts[next - 1], ops[next]) = {ts[next]}
      BY <2>2, <3>2 DEF TreesOf
    <3> QED BY <2>2, <3>1, <3>3
  <2>6. next - 1 = m
    BY <2>2, <2>3, <2>4, <2>5 DEF Inv, PhaseInv
  <2> QED BY <2>2, <2>3, <2>5, <2>6 DEF Agree
<1> QED BY InvHolds, <1>1, PTL

\* While a plan is carried out, and where it ends or is refused, the old content
\* of a file is gone only if an operation of the plan asked for it, when the plan
\* spells its paths as the scan does.
THEOREM NothingLostHolds == Spec => []NothingLostUnasked
<1>1. Inv => NothingLostUnasked
  <2> SUFFICES ASSUME Inv, Plain, NEW p \in Paths, first[p] = "old", tree[p] # "old"
               PROVE  \E i \in DOMAIN ops : AsksFor(ops[i], p)
    BY DEF NothingLostUnasked
  <2>1. valid
    <3>1. phase # "plan"
      BY DEF Inv, PhaseInv
    <3> QED BY <3>1, Zenon DEF Inv, PhaseInv
  <2>2. PICK ts, m : /\ TreesOf(ts, m) /\ next - 1 <= m /\ tree = ts[next - 1]
    BY <2>1 DEF Inv, PlanInv
  <2>3. TypeOK /\ next \in Nat \ {0} /\ Len(ops) \in Nat /\ m \in 0 .. Len(ops)
    BY <2>2 DEF Inv, TypeOK, TreesOf
  <2>4. PICK i \in 1 .. next - 1 : AsksFor(ops[i], p)
    BY <2>2, <2>3 DEF TreesOf
  <2>5. DOMAIN ops = 1 .. Len(ops)
    BY <2>3 DEF TypeOK
  <2> QED BY <2>2, <2>3, <2>4, <2>5
<1> QED BY InvHolds, <1>1, PTL
=============================================================================
