----------------------- MODULE RepositoryManipulation -----------------------
(***************************************************************************)
(* The planner of repository changes against a simulated tree, and the     *)
(* handlers of FilesystemAdapter that carry the planned changes out.       *)
(*                                                                         *)
(* A plan is built operation by operation: each is checked against the     *)
(* files and the directories the scan found, as changed by the operations  *)
(* before it.  The two are separate sets of names, and a name is compared  *)
(* as it is spelled; the file system knows one entry per path, whatever    *)
(* way it is spelled.  A plan without conflicts is then carried out, one   *)
(* change at a time, until the adapter refuses one.  A handler of the      *)
(* adapter is the set of trees it may leave: none when it raises.  The     *)
(* planner accepts renames and moves; the adapter has no such operation    *)
(* and refuses them.                                                       *)
(***************************************************************************)
EXTENDS Sequences, FiniteSets, Naturals

CONSTANTS
    Names,    \* spellings of paths within the repository
    Path,     \* name -> the path it resolves to, itself a name
    Above,    \* name -> the names of the directories above it
    Unsafe,   \* names that do not resolve within the workspace
    Requests, \* operations a client may ask for
    MaxOps    \* bound: operations of a plan

Root  == "root"
Paths == {Path[n] : n \in Names \ Unsafe}
Kinds == {"create_file", "modify_file", "delete_file", "rename_file", "move_file",
          "create_directory", "delete_directory"}

\* RepositoryOperation; flag is allow_overwrite or recursive, dest may be Root
\* for none.
Operation == [kind : Kinds, path : Names, dest : Names \cup {Root}, flag : BOOLEAN]

ASSUME RepositoryManipulationAssumption ==
    /\ Path \in [Names -> Names]
    /\ \A n \in Names : Path[Path[n]] = Path[n]
    /\ Above \in [Names -> SUBSET Names]
    /\ Root \notin Names
    \* directories nest, and what is above a path is spelled as the scan does
    /\ \A p \in Paths : Above[p] \subseteq Paths /\ p \notin Above[p]
    /\ \A p \in Paths : \A a \in Above[p] : Above[a] \subseteq Above[p]
    /\ \A p \in Paths : Above[p] # {} => \E a \in Above[p] : Above[p] = Above[a] \cup {a}
    /\ Requests \subseteq Operation
    /\ MaxOps \in Nat

VARIABLES
    tree,   \* path -> "none", "dir" or the content of a file: "old" or "new"
    first,  \* history: the tree when the plan was made
    ops,    \* the operations planned so far, as the changes they become
    files,  \* sim_files
    dirs,   \* sim_dirs
    valid,  \* no conflict so far
    twice,  \* history: some name was in both sets, or spelled otherwise
    phase,  \* "plan", "apply", "applied" or "refused"
    next    \* the change to carry out

vars == <<tree, first, ops, files, dirs, valid, twice, phase, next>>

Entries == {"none", "dir", "old", "new"}

\* _parent_dir: the lowest of the directories above.
Up(n) == IF Above[n] = {} THEN Root
         ELSE CHOOSE a \in Above[n] : Above[n] = Above[a] \cup {a}

\* f.startswith(prefix)
Within(S, n) == {m \in S : n \in Above[m]}

Present(t, n) == t[Path[n]] # "none"

\* Trees a disk can hold: what is above an entry is a directory.
Trees == {t \in [Paths -> Entries \ {"new"}] :
             \A p \in Paths : t[p] # "none" => \A a \in Above[p] : t[a] = "dir"}

TypeOK ==
    /\ tree \in [Paths -> Entries] /\ first \in Trees
    /\ ops \in Seq(Operation) /\ Len(ops) <= MaxOps
    /\ files \subseteq Names /\ dirs \subseteq Names
    /\ valid \in BOOLEAN /\ twice \in BOOLEAN
    /\ phase \in {"plan", "apply", "applied", "refused"}
    /\ next \in 1 .. MaxOps + 1

\* _scan_initial_state: the names the walk gives are the paths themselves.
Init ==
    /\ tree \in Trees
    /\ first = tree
    /\ ops = <<>>
    /\ files = {p \in Paths : tree[p] = "old"}
    /\ dirs = {p \in Paths : tree[p] = "dir"}
    /\ valid = TRUE
    /\ twice = FALSE
    /\ phase = "plan"
    /\ next = 1

-----------------------------------------------------------------------------
(* plan and _process_operation *)

\* Duplicate target: an earlier operation of the same kind on the same name.
Duplicate(op) == \E i \in DOMAIN ops : ops[i].kind = op.kind /\ ops[i].path = op.path

NoParent(n) == Up(n) # Root /\ Up(n) \notin dirs

\* Faulty variant: the contents are looked up among the directories only.
NotEmptyOfDirs(n) == Within(dirs, n) # {}

\* has_contents, in the simulated state.
NotEmpty(n) == Within(files \cup dirs, n) # {}

Conflict(op) ==
    \/ op.path \in Unsafe
    \/ CASE op.kind = "create_file" ->
              (op.path \in files /\ ~op.flag) \/ NoParent(op.path)
         [] op.kind \in {"modify_file", "delete_file"} -> op.path \notin files
         [] op.kind \in {"rename_file", "move_file"} ->
              \/ op.dest \in Unsafe \cup {Root}
              \/ op.path \notin files
              \/ op.dest \in files
              \/ NoParent(op.dest)
         [] op.kind = "create_directory" -> op.path \in dirs
         [] op.kind = "delete_directory" ->
              op.path \notin dirs \/ (NotEmpty(op.path) /\ ~op.flag)

FilesAfter(op) ==
    CASE op.kind = "create_file"                   -> files \cup {op.path}
      [] op.kind = "delete_file"                   -> files \ {op.path}
      [] op.kind \in {"rename_file", "move_file"}  -> (files \ {op.path}) \cup {op.dest}
      [] op.kind = "delete_directory"              -> files \ Within(files, op.path)
      [] OTHER                                     -> files

\* Faulty variant: the directories below stay.
DirsAfterShallow(op) ==
    CASE op.kind = "create_directory" -> dirs \cup Above[op.path] \cup {op.path}
      [] op.kind = "delete_directory" -> dirs \ {op.path}
      [] OTHER                        -> dirs

DirsAfter(op) ==
    CASE op.kind = "create_directory" -> dirs \cup Above[op.path] \cup {op.path}
      [] op.kind = "delete_directory" -> dirs \ ({op.path} \cup Within(dirs, op.path))
      [] OTHER                        -> dirs

\* Some entry is simulated twice: as a file and a directory, or under two names.
Confused(fs, ds) == \E m, n \in fs \cup ds : \/ m # n /\ Path[m] = Path[n]
                                             \/ m \in fs \cap ds
                                             \/ m # Path[m]

\* RepositoryChange: of a create_file it says whether it replaces a file.
Change(op) == IF op.kind = "create_file" THEN [op EXCEPT !.flag = op.path \in files] ELSE op

Plan(op) ==
    /\ phase = "plan"
    /\ Len(ops) < MaxOps
    /\ ops' = Append(ops, Change(op))
    /\ IF Duplicate(op) \/ Conflict(op)
       THEN valid' = FALSE /\ UNCHANGED <<files, dirs, twice>>
       ELSE /\ files' = FilesAfter(op)
            /\ dirs' = DirsAfter(op)
            /\ twice' = (twice \/ Confused(files', dirs'))
            /\ UNCHANGED valid
    /\ UNCHANGED <<tree, first, phase, next>>

\* The plan is handed over when it is valid.
HandOver ==
    /\ phase = "plan"
    /\ valid
    /\ phase' = "apply"
    /\ UNCHANGED <<tree, first, ops, files, dirs, valid, twice, next>>

-----------------------------------------------------------------------------
(* FilesystemAdapter: the trees a handler leaves, none when it raises *)

\* parent.mkdir(parents=True, exist_ok=True) raises on a file in the way.
MayMake(t, p) == \A a \in Above[p] : t[a] \in {"none", "dir"}
Put(t, p, e)  == [q \in Paths |-> IF q = p THEN e ELSE IF q \in Above[p] THEN "dir" ELSE t[q]]
IsFile(t, p)  == t[p] \in {"old", "new"}

CreateFile(t, p)    == IF t[p] = "none" /\ MayMake(t, p) THEN {Put(t, p, "new")} ELSE {}
OverwriteFile(t, p) == IF t[p] # "dir" /\ MayMake(t, p) THEN {Put(t, p, "new")} ELSE {}
ModifyFile(t, p)    == IF IsFile(t, p) THEN {[t EXCEPT ![p] = "new"]} ELSE {}
DeleteFile(t, p)    == IF IsFile(t, p) THEN {[t EXCEPT ![p] = "none"]} ELSE {}
CreateDirectory(t, p) ==
    IF t[p] \in {"none", "dir"} /\ MayMake(t, p) THEN {Put(t, p, "dir")} ELSE {}
\* shutil.rmtree takes everything below, whatever the operation asked for.
DeleteDirectory(t, p) ==
    IF t[p] = "dir"
    THEN {[q \in Paths |-> IF q = p \/ p \in Above[q] THEN "none" ELSE t[q]]}
    ELSE {}

\* A create_file that replaces a file is carried out by overwrite_file; a
\* rename or a move is not a FilesystemOperation, and validate refuses it.
Carry(t, op) ==
    LET p == Path[op.path]
    IN  CASE op.kind = "create_file"      -> IF op.flag THEN OverwriteFile(t, p) ELSE CreateFile(t, p)
          [] op.kind = "modify_file"      -> ModifyFile(t, p)
          [] op.kind = "delete_file"      -> DeleteFile(t, p)
          [] op.kind = "create_directory" -> CreateDirectory(t, p)
          [] op.kind = "delete_directory" -> DeleteDirectory(t, p)
          [] OTHER                        -> {}

Apply ==
    /\ phase = "apply"
    /\ next <= Len(ops)
    /\ tree' \in Carry(tree, ops[next])
    /\ next' = next + 1
    /\ UNCHANGED <<first, ops, files, dirs, valid, twice, phase>>

\* The handler raises: the changes after this one are not made.
Refuse ==
    /\ phase = "apply"
    /\ next <= Len(ops)
    /\ Carry(tree, ops[next]) = {}
    /\ phase' = "refused"
    /\ UNCHANGED <<tree, first, ops, files, dirs, valid, twice, next>>

Applied ==
    /\ phase = "apply"
    /\ next > Len(ops)
    /\ phase' = "applied"
    /\ UNCHANGED <<tree, first, ops, files, dirs, valid, twice, next>>

Next == (\E op \in Requests : Plan(op)) \/ HandOver \/ Apply \/ Refuse \/ Applied

Spec == Init /\ [][Next]_vars

-----------------------------------------------------------------------------
(* Properties *)

\* The plan renames or moves a file.
Moving(op) == op.kind \in {"rename_file", "move_file"}
Moves == \E i \in DOMAIN ops : Moving(ops[i])

\* A valid plan without renames and moves is carried out to the end and leaves
\* the tree the planner simulated, file by file and directory by directory; the
\* plans for which this fails are those that use one path as a file and as a
\* directory, or under two spellings, which the planner does not see
\* (repository_manipulation.py:24).
ValidPlansApply ==
    phase \in {"applied", "refused"} /\ ~twice /\ ~Moves =>
        /\ phase = "applied"
        /\ files = {p \in Paths : IsFile(tree, p)}
        /\ dirs = {p \in Paths : tree[p] = "dir"}

\* op asks for the old content of p: to modify, overwrite or delete that file, or
\* to delete a directory above it recursively.
AsksFor(op, p) ==
    \/ Path[op.path] = p /\ op.kind \in {"modify_file", "delete_file"}
    \/ Path[op.path] = p /\ op.kind = "create_file" /\ op.flag
    \/ Path[op.path] \in Above[p] /\ op.kind = "delete_directory" /\ op.flag

\* The names an operation acts on.
NamesOf(op) == IF Moving(op) THEN {op.path, op.dest} ELSE {op.path}

\* The plan spells every path as the scan does.
Plain == \A i \in DOMAIN ops : \A n \in NamesOf(ops[i]) : n # Root => Path[n] = n

\* Of a plan that spells paths as the scan does, whatever its operations are,
\* the old content of a file is gone only if one of them asked for it: the
\* adapter's rmtree would take it unasked (filesystem_adapter.py:440).
NothingLostUnasked ==
    Plain => \A p \in Paths : first[p] = "old" /\ tree[p] # "old"
                                 => \E i \in DOMAIN ops : AsksFor(ops[i], p)

\* A directory that is not empty is deleted only by an operation that says
\* recursive: anything else is a conflict "directory_not_empty"
\* (models/repository_manipulation.py:70).
NotEmptyIsAConflict ==
    \A i \in DOMAIN ops :
        phase = "apply" /\ next = i /\ ops[i].kind = "delete_directory" /\ ~ops[i].flag
            => \A p \in Paths : Path[ops[i].path] \in Above[p] => tree[p] = "none"

\* The plan is all the adapter "needs to execute the change set"
\* (kernel/repository_manipulation.py:31): what is valid is not refused, unless
\* some entry was simulated twice.
PlanIsEnough == phase = "refused" => twice
=============================================================================
