-------------------------- MODULE EngineeringProof --------------------------
(***************************************************************************)
(* Engineering runs for any number of runs, files, plans and corrections:  *)
(* type correctness, completeness of the execution order, and what a       *)
(* successful run leaves in the repository; and what a caller of the API   *)
(* is shown of its jobs, for any number of jobs and restarts.              *)
(***************************************************************************)
EXTENDS Engineering, EngineeringJobs, WellFoundedInduction, TLAPS

\* Where CorrectionEngine has an operation in hand.
Handling == {"reading", "generating", "writing", "validating", "testing",
             "correcting", "adding"}

\* The operation in hand is one of the plan.
CurInv == \A r \in Runs : w[r].at \in Handling => w[r].cur \in DOMAIN w[r].plan

\* What a run works on is a plan without cycles, which it keeps.
PlanInv == \A r \in Runs : /\ ~HasCycle(w[r].plan)
                           /\ w[r].at = "new" => w[r].plan = << >>

Inv == TypeOK /\ CurInv /\ PlanInv

-----------------------------------------------------------------------------
(* What the choices in a plan yield *)

\* The order of the naturals as a relation, for the well-foundedness theorem.
Below == {p \in Nat \X Nat : p[1] < p[2]}

\* Every nonempty set of naturals has a least element.
LEMMA LeastExists ==
    ASSUME NEW T, T \subseteq Nat, T # {}
    PROVE  \E x \in T : \A y \in T : x <= y
<1>1. IsWellFoundedOn(Below, Nat)
  BY NatLessThanWellFounded DEF Below, OpToRel
<1>2. PICK x \in T : \A y \in T : ~ (<<y, x>> \in Below)
  BY <1>1, WFMin
<1>3. ASSUME NEW y \in T PROVE x <= y
  <2>1. ~ (<<y, x>> \in Below)
    BY <1>2
  <2>2. x \in Nat /\ y \in Nat
    OBVIOUS
  <2> QED BY <2>1, <2>2 DEF Below
<1> QED BY <1>3

\* op_by_id of an id of the plan is an operation with that id.
LEMMA LastIs ==
    ASSUME NEW p \in Seq(Op), NEW i \in IdsOf(p)
    PROVE  /\ Last(p, i) \in DOMAIN p
           /\ p[Last(p, i)].id = i
<1> DEFINE S == {k \in DOMAIN p : p[k].id = i}
           T == {Len(p) - k : k \in S}
<1>1. Len(p) \in Nat /\ DOMAIN p = 1 .. Len(p)
  OBVIOUS
<1>2. S # {}
  BY DEF IdsOf
<1>3. T \subseteq Nat /\ T # {}
  BY <1>1, <1>2
<1>4. PICK x \in T : \A y \in T : x <= y
  BY <1>3, LeastExists
<1>5. PICK k \in S : x = Len(p) - k
  OBVIOUS
<1>6. ASSUME NEW j \in S PROVE j <= k
  <2>1. x <= Len(p) - j
    BY <1>4
  <2> QED BY <2>1, <1>1, <1>5
<1>7. k \in DOMAIN p /\ p[k].id = i /\ \A j \in DOMAIN p : p[j].id = i => j <= k
  BY <1>6
<1> QED BY <1>7 DEF Last

\* The operation Kahn's loop takes next is one of the plan, and ready.
LEMMA FirstReadyIs ==
    ASSUME NEW p \in Seq(Op), NEW done, ReadyIds(p, done) # {}
    PROVE  /\ FirstReady(p, done) \in DOMAIN p
           /\ p[FirstReady(p, done)].id \in ReadyIds(p, done)
           /\ FirstReady(p, done) = Last(p, p[FirstReady(p, done)].id)
<1> DEFINE R == ReadyIds(p, done)
           T == {Last(p, i) : i \in R}
<1>1. R \subseteq IdsOf(p)
  BY DEF ReadyIds
<1>2. \A i \in R : Last(p, i) \in DOMAIN p /\ p[Last(p, i)].id = i
  BY <1>1, LastIs
<1>3. T \subseteq Nat /\ T # {}
  BY <1>2
<1>4. PICK k \in T : \A j \in T : k <= j
  BY <1>3, LeastExists
<1>5. PICK i \in R : k = Last(p, i)
  BY <1>4
<1>6. k \in DOMAIN p /\ p[k].id = i
  BY <1>2, <1>5
<1>7. /\ k \in DOMAIN p
      /\ p[k].id \in R /\ k = Last(p, p[k].id)
      /\ \A j \in R : k <= Last(p, j)
  BY <1>4, <1>5, <1>6
<1> QED BY <1>7 DEF FirstReady

\* Kahn's algorithm is complete: where a plan that detect_cycle accepts has
\* nothing ready, what is not done includes an id that operations share.
LEMMA NothingReadyAllDone ==
    ASSUME NEW p \in Seq(Op), NEW done, ~HasCycle(p), ReadyIds(p, done) = {},
           NEW o \in DOMAIN p, p[o].id \notin done
    PROVE  \E k \in DOMAIN p : p[k].id \notin done /\ SharesId(p, k)
<1> SUFFICES ASSUME \A k \in DOMAIN p : p[k].id \notin done => ~SharesId(p, k)
             PROVE  FALSE
  OBVIOUS
<1> DEFINE S == IdsOf(p) \ done
<1>1. ASSUME NEW i \in S PROVE p[Last(p, i)].deps \cap S # {}
  <2>1. PICK d \in Prerequisites(p, i) : d \notin done
    BY DEF ReadyIds
  <2>2. PICK k \in DOMAIN p : p[k].id = i /\ d \in p[k].deps
    BY <2>1 DEF Prerequisites
  <2>3. d \in S
    BY <2>1 DEF Prerequisites
  <2>4. Last(p, i) \in DOMAIN p /\ p[Last(p, i)].id = i
    BY LastIs
  <2>5. Last(p, i) = k
    BY <2>2, <2>4 DEF SharesId
  <2> QED BY <2>2, <2>3, <2>5
<1>2. S = {}
  BY <1>1 DEF HasCycle
<1>3. p[o].id \in S
  BY DEF IdsOf
<1> QED BY <1>2, <1>3

-----------------------------------------------------------------------------
(* Type correctness *)

LEMMA NoPlanHasNoCycle == ~HasCycle(<< >>)
BY DEF HasCycle, IdsOf

LEMMA InitInv == Init => Inv
<1> SUFFICES ASSUME Init PROVE Inv
  OBVIOUS
<1>1. NewRun \in Run
  BY EngineeringAssumption DEF NewRun, Run, Content
<1>2. TypeOK
  BY <1>1, EngineeringAssumption DEF Init, TypeOK
<1>3. CurInv
  BY DEF Init, CurInv, NewRun, Handling
<1>4. PlanInv
  BY NoPlanHasNoCycle DEF Init, PlanInv, NewRun
<1> QED BY <1>2, <1>3, <1>4 DEF Inv

\* A step keeps the invariant if it leaves trees, and in run r's record an
\* operation of its plan.
LEMMA RunKeeps ==
    ASSUME Inv, NEW r \in Runs, NEW new \in Run, Sets(r, new),
           tree' \in Trees, index' \in Trees, head' \in Trees,
           new.at \in Handling => new.cur \in DOMAIN new.plan,
           new.plan = w[r].plan, new.at # "new"
    PROVE  Inv'
<1>1. TypeOK'
  BY DEF Inv, TypeOK, Sets
<1>2. \A q \in Runs : w'[q] = IF q = r THEN new ELSE w[q]
  BY DEF Inv, TypeOK, Sets
<1>3. CurInv'
  BY <1>2 DEF Inv, CurInv
<1>4. PlanInv'
  BY <1>2 DEF Inv, PlanInv
<1> QED BY <1>1, <1>3, <1>4 DEF Inv

\* The file of the operation in hand is a file of the repository.
LEMMA HandlingType ==
    ASSUME Inv, NEW r \in Runs
    PROVE  /\ w[r] \in Run
           /\ tree \in Trees /\ index \in Trees /\ head \in Trees
           /\ w[r].at \in Handling =>
                /\ w[r].cur \in DOMAIN w[r].plan
                /\ w[r].plan[w[r].cur] \in Op
                /\ File(r) \in Files
                /\ tree[File(r)] \in Content
<1>1. w[r] \in Run /\ tree \in Trees /\ index \in Trees /\ head \in Trees
  BY DEF Inv, TypeOK
<1>2. w[r].plan \in Seq(Op)
  BY <1>1 DEF Run
<1>3. ASSUME w[r].at \in Handling
      PROVE  w[r].cur \in DOMAIN w[r].plan /\ w[r].plan[w[r].cur] \in Op
  BY <1>2, <1>3 DEF Inv, CurInv
<1>4. ASSUME w[r].at \in Handling
      PROVE  File(r) \in Files /\ tree[File(r)] \in Content
  BY <1>1, <1>3, <1>4 DEF File, Op, Trees
<1> QED BY <1>1, <1>3, <1>4

\* Steps that change run r's place only.
LEMMA MovesKeeps ==
    ASSUME Inv, NEW r \in Runs, NEW at, Moves(r, at),
           at \in Working \cup Ended,
           at \in Handling => w[r].at \in Handling
    PROVE  Inv'
<1> DEFINE new == [w[r] EXCEPT !.at = at]
<1>1. w[r] \in Run
  BY HandlingType
<1>2. /\ new \in Run /\ new.at = at /\ new.cur = w[r].cur /\ new.plan = w[r].plan
      /\ at # "new"
  BY <1>1 DEF Run, Working, Ended
<1>3. Sets(r, new) /\ UNCHANGED Repository
  BY DEF Moves, Becomes
<1>4. new.at \in Handling => new.cur \in DOMAIN new.plan
  BY <1>2, HandlingType
<1> HIDE DEF new
<1> QED BY <1>2, <1>3, <1>4, HandlingType, RunKeeps DEF Repository

LEMMA PlanAcceptedKeeps == ASSUME Inv, NEW r \in Runs, PlanAccepted(r) PROVE Inv'
<1>1. PICK p \in Plans :
         /\ ~HasCycle(p)
         /\ w' = [w EXCEPT ![r] = [w[r] EXCEPT !.at = "planned", !.plan = p]]
  BY DEF PlanAccepted
<1> DEFINE new == [w[r] EXCEPT !.at = "planned", !.plan = p]
<1>2. w[r] \in Run /\ p \in Seq(Op)
  BY HandlingType, EngineeringAssumption
<1>3. new \in Run /\ new.at = "planned" /\ new.plan = p
  BY <1>2 DEF Run, Working
<1>4. w' = [w EXCEPT ![r] = new] /\ UNCHANGED Repository
  BY <1>1 DEF PlanAccepted
<1> HIDE DEF new
<1>5. met' \subseteq SUBSET Runs
  BY DEF PlanAccepted, Inv, TypeOK
<1>6. TypeOK'
  BY <1>3, <1>4, <1>5 DEF Inv, TypeOK, Repository
<1>7. \A q \in Runs : w'[q] = IF q = r THEN new ELSE w[q]
  BY <1>4 DEF Inv, TypeOK
<1>8. CurInv'
  BY <1>3, <1>7 DEF Inv, CurInv, Handling
<1>9. PlanInv'
  BY <1>1, <1>3, <1>7 DEF Inv, PlanInv
<1> QED BY <1>6, <1>8, <1>9 DEF Inv

LEMMA ResolveKeeps == ASSUME Inv, NEW r \in Runs, Resolve(r) PROVE Inv'
<1> DEFINE m == {k \in DOMAIN w[r].plan : tree[w[r].plan[k].file] # None}
           new == [w[r] EXCEPT !.at = "resolved", !.mods = m]
<1>1. w[r] \in Run /\ w[r].plan \in Seq(Op)
  BY HandlingType DEF Run
<1>2. m \in SUBSET Nat
  BY <1>1
<1> HIDE DEF m
<1>3. new \in Run /\ new.at = "resolved" /\ new.plan = w[r].plan
  BY <1>1, <1>2 DEF Run, Working
<1>4. Sets(r, new) /\ UNCHANGED Repository
  BY DEF Resolve, Becomes, m
<1> HIDE DEF new
<1> QED BY <1>3, <1>4, HandlingType, RunKeeps DEF Repository, Handling

LEMMA NextOpKeeps == ASSUME Inv, NEW r \in Runs, NextOp(r) PROVE Inv'
<1> DEFINE k == FirstReady(w[r].plan, w[r].done)
           at == IF k \in w[r].mods THEN "reading" ELSE "generating"
           new == [w[r] EXCEPT !.cur = k, !.fixes = 0, !.at = at]
<1>1. w[r] \in Run /\ w[r].plan \in Seq(Op)
  BY HandlingType DEF Run
<1>2. k \in DOMAIN w[r].plan
  BY <1>1, FirstReadyIs DEF NextOp
<1>3. Sets(r, new) /\ UNCHANGED Repository
  BY DEF NextOp, Becomes
<1>4. at \in Working
  BY DEF Working
<1>5. k \in Nat /\ 0 \in 0 .. MaxFixes
  BY <1>1, <1>2, EngineeringAssumption
<1> HIDE DEF k, at
<1>6. new \in Run /\ new.cur = k /\ new.plan = w[r].plan /\ new.at # "new"
  BY <1>1, <1>4, <1>5 DEF Run, Working
<1> HIDE DEF new
<1> QED BY <1>2, <1>3, <1>6, HandlingType, RunKeeps DEF Repository

LEMMA GenerateKeeps == ASSUME Inv, NEW r \in Runs, Generate(r) PROVE Inv'
<1>1. PICK c \in Code :
         Becomes(r, [w[r] EXCEPT !.at = "writing", !.made = c, !.shown = None])
  BY DEF Generate
<1> DEFINE new == [w[r] EXCEPT !.at = "writing", !.made = c, !.shown = None]
<1>2. w[r] \in Run
  BY HandlingType
<1>3. new \in Run /\ new.cur = w[r].cur /\ new.plan = w[r].plan /\ new.at # "new"
  BY <1>2 DEF Run, Working, Content
<1>4. Sets(r, new) /\ UNCHANGED Repository /\ w[r].at \in Handling
  BY <1>1 DEF Becomes, Generate, Handling
<1> HIDE DEF new
<1> QED BY <1>3, <1>4, HandlingType, RunKeeps DEF Repository

\* A complete write, and one that breaks off.
LEMMA WritesKeeps ==
    ASSUME Inv, NEW r \in Runs, NEW c \in Content, NEW at \in Working \cup Ended,
           w[r].at = "writing", tree' = [tree EXCEPT ![File(r)] = c],
           Sets(r, [w[r] EXCEPT !.at = at, !.made = None]), UNCHANGED <<index, head>>
    PROVE  Inv'
<1> DEFINE new == [w[r] EXCEPT !.at = at, !.made = None]
<1>1. w[r] \in Run /\ w[r].at \in Handling
  BY HandlingType DEF Handling
<1>2. new \in Run /\ new.cur = w[r].cur /\ new.plan = w[r].plan /\ new.at # "new"
  BY <1>1 DEF Run, Content, Working, Ended
<1>3. tree' \in Trees
  BY HandlingType DEF Trees
<1> HIDE DEF new
<1>4. Sets(r, new)
  BY DEF new
<1> QED BY <1>1, <1>2, <1>3, <1>4, HandlingType, RunKeeps

LEMMA WriteKeeps == ASSUME Inv, NEW r \in Runs, Write(r) PROVE Inv'
<1>1. w[r].made \in Content /\ "validating" \in Working
  BY HandlingType DEF Run, Working
<1>2. /\ w[r].at = "writing" /\ tree' = [tree EXCEPT ![File(r)] = w[r].made]
      /\ Sets(r, [w[r] EXCEPT !.at = "validating", !.made = None])
      /\ UNCHANGED <<index, head>>
  BY DEF Write
<1> QED BY <1>1, <1>2, WritesKeeps

LEMMA WriteBreaksKeeps ==
    ASSUME Inv, NEW r \in Runs, NEW at \in {"failed", "dead"}, WriteBreaks(r, at)
    PROVE  Inv'
<1>1. PICK c \in Code : tree' = [tree EXCEPT ![File(r)] = c]
  BY DEF WriteBreaks
<1>2. c \in Content /\ at \in Working \cup Ended
  BY DEF Content, Ended
<1>3. /\ w[r].at = "writing" /\ UNCHANGED <<index, head>>
      /\ Sets(r, [w[r] EXCEPT !.at = at, !.made = None])
  BY DEF WriteBreaks
<1> QED BY <1>1, <1>2, <1>3, WritesKeeps

LEMMA CorrectKeeps == ASSUME Inv, NEW r \in Runs, Correct(r) PROVE Inv'
<1> DEFINE given == IF RootIsCwd THEN tree[File(r)] ELSE None
           new == [w[r] EXCEPT !.at = "generating", !.fixes = @ + 1, !.shown = given]
<1>1. w[r] \in Run /\ w[r].at \in Handling
  BY HandlingType DEF Handling, Correct
<1>2. given \in Content
  BY <1>1, HandlingType DEF Content
<1>3. w[r].fixes + 1 \in 0 .. MaxFixes
  BY <1>1, EngineeringAssumption DEF Correct, Run
<1>4. Sets(r, new) /\ UNCHANGED Repository
  BY DEF Correct, Becomes
<1> HIDE DEF given
<1>5. new \in Run /\ new.cur = w[r].cur /\ new.plan = w[r].plan /\ new.at # "new"
  BY <1>1, <1>2, <1>3 DEF Run, Working
<1> HIDE DEF new
<1> QED BY <1>1, <1>4, <1>5, HandlingType, RunKeeps DEF Repository

LEMMA AddKeeps == ASSUME Inv, NEW r \in Runs, Add(r) PROVE Inv'
<1> DEFINE id == w[r].plan[w[r].cur].id
           new == [w[r] EXCEPT !.at = "ready", !.cur = 0, !.fixes = 0,
                               !.done = @ \cup {id}]
<1>1. w[r] \in Run /\ w[r].at \in Handling
  BY HandlingType DEF Handling, Add
<1>2. w[r].plan[w[r].cur] \in Op
  BY <1>1, HandlingType
<1>3. id \in OpIds
  BY <1>2 DEF Op
<1>4. index' \in Trees /\ UNCHANGED <<tree, head>>
  BY <1>1, HandlingType DEF Trees, Add
<1>5. Sets(r, new)
  BY DEF Add
<1>6. 0 \in 0 .. MaxFixes
  BY EngineeringAssumption
<1> HIDE DEF id
<1>7. new \in Run /\ new.at = "ready" /\ new.plan = w[r].plan
  BY <1>1, <1>3, <1>6 DEF Run, Working
<1> HIDE DEF new
<1> QED BY <1>4, <1>5, <1>7, HandlingType, RunKeeps DEF Handling

\* The commit, whether the run learns of it or not.
LEMMA CommitsKeep ==
    ASSUME Inv, NEW r \in Runs, NEW at \in Ended, head' = index,
           Sets(r, [w[r] EXCEPT !.at = at]), UNCHANGED <<tree, index>>
    PROVE  Inv'
<1> DEFINE new == [w[r] EXCEPT !.at = at]
<1>1. w[r] \in Run
  BY HandlingType
<1>2. new \in Run /\ new.at \notin Handling \cup {"new"} /\ new.plan = w[r].plan
  BY <1>1 DEF Run, Ended, Handling
<1>3. Sets(r, new)
  OBVIOUS
<1> HIDE DEF new
<1> QED BY <1>2, <1>3, HandlingType, RunKeeps

\* Every action keeps the invariant.
LEMMA NextInv == Inv /\ [Next]_vars => Inv'
<1> SUFFICES ASSUME Inv, [Next]_vars PROVE Inv'
  OBVIOUS
<1>1. CASE UNCHANGED vars
  <2>1. UNCHANGED <<tree, index, head, w, met>>
    BY <1>1 DEF vars
  <2> QED BY <2>1 DEF Inv, TypeOK, CurInv, PlanInv
<1>2. ASSUME NEW r \in Runs, PlanAccepted(r) PROVE Inv'
  BY <1>2, PlanAcceptedKeeps
<1>3. ASSUME NEW r \in Runs, PlanRefused(r) \/ CheckPasses(r) \/ CheckFails(r)
                              \/ AllDone(r) \/ CommitCheck(r) \/ WriteRefused(r)
                              \/ GiveUp(r) \/ Errs(r) \/ Dies(r)
      PROVE  Inv'
  <2>1. PICK at \in {"failed", "dead", "ready", "committing", "landing", "done"} : Moves(r, at)
    BY <1>3 DEF PlanRefused, CheckPasses, CheckFails, AllDone, CommitCheck, WriteRefused,
                GiveUp, Errs, Dies
  <2>2. at \in Working \cup Ended /\ at \notin Handling
    BY DEF Working, Ended, Handling
  <2> QED BY <2>1, <2>2, MovesKeeps
<1>4. ASSUME NEW r \in Runs, Read(r) \/ Validate(r) \/ Test(r) \/ GateFails(r)
      PROVE  Inv'
  <2>1. w[r].at \in Handling
    BY <1>4 DEF Read, Validate, Test, GateFails, Handling
  <2>2. PICK at \in {"generating", "failed", "testing", "correcting", "adding"} : Moves(r, at)
    BY <1>4 DEF Read, Validate, Test, GateFails
  <2>3. at \in Working \cup Ended
    BY DEF Working, Ended
  <2> QED BY <2>1, <2>2, <2>3, MovesKeeps
<1>5. ASSUME NEW r \in Runs, Resolve(r) \/ NextOp(r) \/ Generate(r) \/ Write(r)
                              \/ Correct(r) \/ Add(r)
      PROVE  Inv'
  BY <1>5, ResolveKeeps, NextOpKeeps, GenerateKeeps, WriteKeeps, CorrectKeeps, AddKeeps
<1>6. ASSUME NEW r \in Runs, NEW at \in {"failed", "dead"}, WriteBreaks(r, at)
      PROVE  Inv'
  BY <1>6, WriteBreaksKeeps
<1>7. ASSUME NEW r \in Runs, Commit(r) PROVE Inv'
  <2>1. (IF index = head THEN "failed" ELSE "done") \in Ended
    BY DEF Ended
  <2> QED BY <1>7, <2>1, CommitsKeep DEF Commit
<1>8. ASSUME NEW r \in Runs, NEW at \in {"failed", "dead"}, CommitUnheard(r, at)
      PROVE  Inv'
  BY <1>8, CommitsKeep DEF CommitUnheard, Ended
<1> QED BY <1>1, <1>2, <1>3, <1>4, <1>5, <1>6, <1>7, <1>8 DEF Next, Step, Trouble

LEMMA Invariance == Spec => []Inv
BY InitInv, NextInv, PTL DEF Spec

\* The trees, the index and every run's record have their types, whatever
\* plans and contents the LLM answers.
THEOREM EngineeringTypeCorrect == Spec => []TypeOK
<1>1. Inv => TypeOK
  BY DEF Inv
<1> QED BY <1>1, Invariance, PTL

-----------------------------------------------------------------------------
(* What a step is, for the theorems below *)

\* A gate or a correction: run r keeps its operation, and the files.
Handles(r) ==
    /\ UNCHANGED Repository
    /\ w[r].at \in Handling /\ w'[r].at \in Handling
    /\ w'[r].plan = w[r].plan /\ w'[r].mods = w[r].mods
    /\ w'[r].done = w[r].done /\ w'[r].cur = w[r].cur
    /\ w'[r].at = "testing" => tree[File(r)] \in Parses
    /\ w'[r].at = "adding" => w[r].at = "testing" /\ tree \in Green

\* Run r ends without success.
Quits(r) ==
    /\ w[r].at \in {"new"} \cup Working
    /\ w'[r].at \in {"failed", "dead"}
    /\ w'[r].plan = w[r].plan /\ w'[r].done = w[r].done
    /\ index' = index /\ head' \in {head, index}
    /\ \A f \in Files : tree'[f] = tree[f] \/ (w[r].at \in Handling /\ f = File(r))

\* Every other record stays as it is; runs that have met stay so.
Alone(r) == /\ \A q \in Runs : q # r => w'[q] = w[q]
            /\ met \subseteq met'

\* The actions that none of these covers.
Progress(r) ==
    \/ PlanAccepted(r) \/ Resolve(r) \/ CheckPasses(r) \/ NextOp(r) \/ AllDone(r)
    \/ Write(r) \/ Add(r) \/ CommitCheck(r) \/ Commit(r)

\* Two forms of a change of run r's record.
LEMMA SetsRecord ==
    ASSUME Inv, NEW r \in Runs, NEW new, Sets(r, new)
    PROVE  w'[r] = new /\ Alone(r)
BY DEF Inv, TypeOK, Sets, Alone

LEMMA HandlesIs ==
    ASSUME Inv, NEW r \in Runs,
           Read(r) \/ Generate(r) \/ Validate(r) \/ Test(r) \/ GateFails(r) \/ Correct(r)
    PROVE  Alone(r) /\ (Handles(r) \/ Quits(r))
<1>1. w[r] \in Run
  BY HandlingType
<1>2. CASE Read(r) \/ Validate(r) \/ Test(r) \/ GateFails(r)
  <2>1. PICK at \in {"generating", "failed", "testing", "correcting", "adding"} :
          /\ Moves(r, at)
          /\ at = "testing" => tree[File(r)] \in Parses
          /\ at = "adding" => w[r].at = "testing" /\ tree \in Green
    BY <1>2 DEF Read, Validate, Test, GateFails
  <2>2. w[r].at \in Handling
    BY <1>2 DEF Read, Validate, Test, GateFails, Handling
  <2>3. Sets(r, [w[r] EXCEPT !.at = at]) /\ UNCHANGED Repository
    BY <2>1 DEF Moves, Becomes
  <2>4. w'[r] = [w[r] EXCEPT !.at = at] /\ Alone(r)
    BY <2>3, SetsRecord
  <2>5. /\ w'[r].at = at /\ w'[r].plan = w[r].plan /\ w'[r].mods = w[r].mods
        /\ w'[r].done = w[r].done /\ w'[r].cur = w[r].cur
    BY <1>1, <2>4 DEF Run
  <2>6. CASE at = "failed"
    BY <2>2, <2>3, <2>4, <2>5, <2>6 DEF Quits, Repository, Handling, Working
  <2>7. CASE at # "failed"
    BY <2>1, <2>2, <2>3, <2>4, <2>5, <2>7 DEF Handles, Handling
  <2> QED BY <2>6, <2>7
<1>3. CASE Generate(r)
  <2>1. PICK c \in Code :
          Becomes(r, [w[r] EXCEPT !.at = "writing", !.made = c, !.shown = None])
    BY <1>3 DEF Generate
  <2>2. w'[r] = [w[r] EXCEPT !.at = "writing", !.made = c, !.shown = None] /\ Alone(r)
    BY <2>1, SetsRecord DEF Becomes
  <2>3. w[r].at = "generating" /\ UNCHANGED Repository
    BY <1>3, <2>1 DEF Generate, Becomes
  <2> QED BY <1>1, <2>2, <2>3 DEF Run, Handles, Handling
<1>4. CASE Correct(r)
  <2> DEFINE given == IF RootIsCwd THEN tree[File(r)] ELSE None
  <2>1. Becomes(r, [w[r] EXCEPT !.at = "generating", !.fixes = @ + 1, !.shown = given])
    BY <1>4 DEF Correct
  <2> HIDE DEF given
  <2>2. /\ w'[r] = [w[r] EXCEPT !.at = "generating", !.fixes = @ + 1, !.shown = given]
        /\ Alone(r)
    BY <2>1, SetsRecord DEF Becomes
  <2>3. w[r].at = "correcting" /\ UNCHANGED Repository
    BY <1>4, <2>1 DEF Correct, Becomes
  <2> QED BY <1>1, <2>2, <2>3 DEF Run, Handles, Handling
<1> QED BY <1>2, <1>3, <1>4

LEMMA QuitsIs ==
    ASSUME Inv, NEW r \in Runs,
           \/ PlanRefused(r) \/ CheckFails(r) \/ WriteRefused(r) \/ GiveUp(r)
           \/ Errs(r) \/ Dies(r)
           \/ \E at \in {"failed", "dead"} : WriteBreaks(r, at) \/ CommitUnheard(r, at)
    PROVE  Alone(r) /\ Quits(r)
<1>1. w[r] \in Run
  BY HandlingType
<1>2. PICK at \in {"failed", "dead"} :
         /\ \/ Sets(r, [w[r] EXCEPT !.at = at])
            \/ Sets(r, [w[r] EXCEPT !.at = at, !.made = None])
         /\ index' = index /\ head' \in {head, index}
         /\ w[r].at \in {"new"} \cup Working
         /\ \/ tree' = tree
            \/ w[r].at \in Handling /\ \E c \in Code : tree' = [tree EXCEPT ![File(r)] = c]
  BY DEF PlanRefused, CheckFails, WriteRefused, GiveUp, Errs, Dies, WriteBreaks,
         CommitUnheard, Moves, Becomes, Repository, Working, Handling
<1>5. \A f \in Files : tree'[f] = tree[f] \/ (w[r].at \in Handling /\ f = File(r))
  BY <1>2, HandlingType DEF Trees
<1>3. CASE Sets(r, [w[r] EXCEPT !.at = at])
  <2>1. w'[r] = [w[r] EXCEPT !.at = at] /\ Alone(r)
    BY <1>3, SetsRecord
  <2> QED BY <1>1, <1>2, <1>5, <2>1 DEF Run, Quits
<1>4. CASE Sets(r, [w[r] EXCEPT !.at = at, !.made = None])
  <2>1. w'[r] = [w[r] EXCEPT !.at = at, !.made = None] /\ Alone(r)
    BY <1>4, SetsRecord
  <2> QED BY <1>1, <1>2, <1>5, <2>1 DEF Run, Quits
<1> QED BY <1>2, <1>3, <1>4

\* What each of the other actions makes of run r's record.
LEMMA ProgressIs ==
    ASSUME Inv, NEW r \in Runs, Progress(r)
    PROVE  Alone(r)
<1>1. CASE PlanAccepted(r)
  BY <1>1 DEF PlanAccepted, Alone, Inv, TypeOK
<1>2. CASE ~PlanAccepted(r)
  <2>1. \E new : Sets(r, new)
    BY <1>2 DEF Progress, Resolve, CheckPasses, NextOp, AllDone, Write, Add,
           CommitCheck, Commit, Moves, Becomes
  <2> QED BY <2>1, SetsRecord
<1> QED BY <1>1, <1>2

LEMMA StepCases ==
    ASSUME Inv, Next
    PROVE  \E r \in Runs : Alone(r) /\ (Progress(r) \/ Handles(r) \/ Quits(r))
<1>1. PICK r \in Runs : PlanAccepted(r) \/ PlanRefused(r) \/ Step(r) \/ Trouble(r)
  BY DEF Next
<1>2. CASE Progress(r)
  BY <1>2, ProgressIs
<1>3. CASE Read(r) \/ Generate(r) \/ Validate(r) \/ Test(r) \/ GateFails(r) \/ Correct(r)
  BY <1>3, HandlesIs
<1>4. CASE \/ PlanRefused(r) \/ CheckFails(r) \/ WriteRefused(r) \/ GiveUp(r)
           \/ Errs(r) \/ Dies(r)
           \/ \E at \in {"failed", "dead"} : WriteBreaks(r, at) \/ CommitUnheard(r, at)
  BY <1>4, QuitsIs
<1> QED BY <1>1, <1>2, <1>3, <1>4 DEF Step, Trouble, Progress

\* What the actions of Progress make of run r's record.
LEMMA ProgressFields ==
    ASSUME Inv, NEW r \in Runs
    PROVE  /\ PlanAccepted(r) \/ Resolve(r) \/ CheckPasses(r) \/ AllDone(r) \/ CommitCheck(r)
                => /\ UNCHANGED Repository
                   /\ w'[r].done = w[r].done
           /\ PlanAccepted(r) => /\ w[r].at = "new" /\ w'[r].at = "planned"
                                 /\ w'[r].plan \in Plans
           /\ Resolve(r) => /\ w[r].at = "planned" /\ w'[r].at = "resolved"
                            /\ w'[r].plan = w[r].plan
                            /\ w'[r].mods = {k \in DOMAIN w[r].plan :
                                                tree[w[r].plan[k].file] # None}
           /\ CheckPasses(r) => /\ w[r].at = "resolved" /\ w'[r].at = "ready"
                                /\ w'[r].plan = w[r].plan /\ w'[r].mods = w[r].mods
           /\ AllDone(r) => /\ w[r].at = "ready" /\ w'[r].at = "committing"
                            /\ w'[r].plan = w[r].plan
           /\ NextOp(r) => /\ UNCHANGED Repository
                           /\ w[r].at = "ready" /\ w'[r].at \in {"reading", "generating"}
                           /\ w'[r].plan = w[r].plan /\ w'[r].done = w[r].done
                           /\ w'[r].cur = FirstReady(w[r].plan, w[r].done)
           /\ Write(r) => /\ w[r].at = "writing" /\ w'[r].at = "validating"
                          /\ w'[r].plan = w[r].plan /\ w'[r].done = w[r].done
                          /\ w'[r].cur = w[r].cur
           /\ Add(r) => /\ w[r].at = "adding" /\ w'[r].at = "ready"
                        /\ w'[r].plan = w[r].plan
                        /\ w'[r].done = w[r].done \cup {w[r].plan[w[r].cur].id}
           /\ CommitCheck(r) => /\ w[r].at = "committing" /\ w'[r].plan = w[r].plan
                                /\ w'[r].at = IF index = head THEN "done" ELSE "landing"
           /\ Commit(r) => /\ w[r].at = "landing" /\ w'[r].plan = w[r].plan
                           /\ w'[r].done = w[r].done
                           /\ w'[r].at = IF index = head THEN "failed" ELSE "done"
<1>1. w[r] \in Run
  BY HandlingType
<1>2. ASSUME PlanAccepted(r)
      PROVE  /\ UNCHANGED Repository /\ w'[r].done = w[r].done
             /\ w[r].at = "new" /\ w'[r].at = "planned" /\ w'[r].plan \in Plans
  <2>1. PICK p \in Plans : w' = [w EXCEPT ![r] = [w[r] EXCEPT !.at = "planned", !.plan = p]]
    BY <1>2 DEF PlanAccepted
  <2>2. w'[r] = [w[r] EXCEPT !.at = "planned", !.plan = p]
    BY <2>1 DEF Inv, TypeOK
  <2>3. w'[r].done = w[r].done /\ w'[r].at = "planned" /\ w'[r].plan = p
    BY <1>1, <2>2 DEF Run
  <2> QED BY <1>2, <2>3 DEF PlanAccepted
<1>3. ASSUME Resolve(r)
      PROVE  /\ UNCHANGED Repository /\ w'[r].done = w[r].done
             /\ w[r].at = "planned" /\ w'[r].at = "resolved" /\ w'[r].plan = w[r].plan
             /\ w'[r].mods = {k \in DOMAIN w[r].plan : tree[w[r].plan[k].file] # None}
  <2> DEFINE m == {k \in DOMAIN w[r].plan : tree[w[r].plan[k].file] # None}
  <2>1. Becomes(r, [w[r] EXCEPT !.at = "resolved", !.mods = m])
    BY <1>3 DEF Resolve
  <2>2. w'[r] = [w[r] EXCEPT !.at = "resolved", !.mods = m]
    BY <2>1, SetsRecord DEF Becomes
  <2> HIDE DEF m
  <2>3. /\ w'[r].done = w[r].done /\ w'[r].at = "resolved" /\ w'[r].plan = w[r].plan
        /\ w'[r].mods = m
    BY <1>1, <2>2 DEF Run
  <2> QED BY <1>3, <2>1, <2>3 DEF Resolve, Becomes, m
<1>4. ASSUME NEW at, Moves(r, at)
      PROVE  /\ UNCHANGED Repository /\ w'[r].at = at /\ w'[r].done = w[r].done
             /\ w'[r].plan = w[r].plan /\ w'[r].mods = w[r].mods
  <2>1. w'[r] = [w[r] EXCEPT !.at = at]
    BY <1>4, SetsRecord DEF Moves, Becomes
  <2> QED BY <1>1, <1>4, <2>1 DEF Moves, Becomes, Run
<1>5. ASSUME NextOp(r)
      PROVE  /\ UNCHANGED Repository /\ w[r].at = "ready"
             /\ w'[r].at \in {"reading", "generating"} /\ w'[r].plan = w[r].plan
             /\ w'[r].done = w[r].done /\ w'[r].cur = FirstReady(w[r].plan, w[r].done)
  <2> DEFINE k == FirstReady(w[r].plan, w[r].done)
             at == IF k \in w[r].mods THEN "reading" ELSE "generating"
  <2>1. Becomes(r, [w[r] EXCEPT !.cur = k, !.fixes = 0, !.at = at])
    BY <1>5 DEF NextOp
  <2>2. w'[r] = [w[r] EXCEPT !.cur = k, !.fixes = 0, !.at = at]
    BY <2>1, SetsRecord DEF Becomes
  <2>3. at \in {"reading", "generating"}
    OBVIOUS
  <2> HIDE DEF k, at
  <2>4. /\ w'[r].cur = k /\ w'[r].at = at /\ w'[r].plan = w[r].plan
        /\ w'[r].done = w[r].done
    BY <1>1, <2>2 DEF Run
  <2> QED BY <1>5, <2>1, <2>3, <2>4 DEF NextOp, Becomes, k
<1>6. ASSUME Write(r)
      PROVE  /\ w[r].at = "writing" /\ w'[r].at = "validating" /\ w'[r].plan = w[r].plan
             /\ w'[r].done = w[r].done /\ w'[r].cur = w[r].cur
  <2>1. w'[r] = [w[r] EXCEPT !.at = "validating", !.made = None]
    BY <1>6, SetsRecord DEF Write
  <2> QED BY <1>1, <1>6, <2>1 DEF Run, Write
<1>7. ASSUME Add(r)
      PROVE  /\ w[r].at = "adding" /\ w'[r].at = "ready" /\ w'[r].plan = w[r].plan
             /\ w'[r].done = w[r].done \cup {w[r].plan[w[r].cur].id}
  <2> DEFINE id == w[r].plan[w[r].cur].id
  <2>1. w'[r] = [w[r] EXCEPT !.at = "ready", !.cur = 0, !.fixes = 0, !.done = @ \cup {id}]
    BY <1>7, SetsRecord DEF Add
  <2> HIDE DEF id
  <2>2. w'[r].at = "ready" /\ w'[r].plan = w[r].plan /\ w'[r].done = w[r].done \cup {id}
    BY <1>1, <2>1 DEF Run
  <2> QED BY <1>7, <2>2 DEF Add, id
<1>8. ASSUME Commit(r)
      PROVE  /\ w[r].at = "landing" /\ w'[r].plan = w[r].plan /\ w'[r].done = w[r].done
             /\ w'[r].at = IF index = head THEN "failed" ELSE "done"
  <2> DEFINE at == IF index = head THEN "failed" ELSE "done"
  <2>1. w'[r] = [w[r] EXCEPT !.at = at]
    BY <1>8, SetsRecord DEF Commit
  <2> HIDE DEF at
  <2>2. w'[r].at = at /\ w'[r].plan = w[r].plan /\ w'[r].done = w[r].done
    BY <1>1, <2>1 DEF Run
  <2> QED BY <1>8, <2>2 DEF Commit, at
<1>9. ASSUME CheckPasses(r)
      PROVE  /\ UNCHANGED Repository /\ w'[r].done = w[r].done
             /\ w[r].at = "resolved" /\ w'[r].at = "ready"
             /\ w'[r].plan = w[r].plan /\ w'[r].mods = w[r].mods
  BY <1>4, <1>9 DEF CheckPasses
<1>10. ASSUME AllDone(r)
       PROVE  /\ UNCHANGED Repository /\ w'[r].done = w[r].done
              /\ w[r].at = "ready" /\ w'[r].at = "committing" /\ w'[r].plan = w[r].plan
  BY <1>4, <1>10 DEF AllDone
<1>11. ASSUME CommitCheck(r)
       PROVE  /\ UNCHANGED Repository /\ w'[r].done = w[r].done
              /\ w[r].at = "committing" /\ w'[r].plan = w[r].plan
              /\ w'[r].at = IF index = head THEN "done" ELSE "landing"
  BY <1>4, <1>11 DEF CommitCheck
<1> QED BY <1>2, <1>3, <1>5, <1>6, <1>7, <1>8, <1>9, <1>10, <1>11

-----------------------------------------------------------------------------
(* Every operation runs *)

\* A run that is past the execution order has done all of it, but for what
\* shared ids keep back.
Complete(p, done) ==
    \A o \in DOMAIN p : p[o].id \notin done
        => \E k \in DOMAIN p : p[k].id \notin done /\ SharesId(p, k)

DoneInv ==
    \A r \in Runs : w[r].at \in {"committing", "landing", "done"}
                        => Complete(w[r].plan, w[r].done)

LEMMA DoneInductive == Inv /\ DoneInv /\ [Next]_vars => DoneInv'
<1> SUFFICES ASSUME Inv, DoneInv, [Next]_vars PROVE DoneInv'
  OBVIOUS
<1>1. CASE UNCHANGED vars
  BY <1>1 DEF vars, DoneInv
<1>2. CASE Next
  <2>1. PICK r \in Runs : Alone(r) /\ (Progress(r) \/ Handles(r) \/ Quits(r))
    BY <1>2, StepCases
  <2>2. SUFFICES ASSUME w'[r].at \in {"committing", "landing", "done"}
                 PROVE  Complete(w'[r].plan, w'[r].done)
    BY <2>1 DEF Alone, DoneInv
  <2>3. CASE AllDone(r)
    <3>1. w[r].plan \in Seq(Op) /\ ~HasCycle(w[r].plan)
      BY HandlingType DEF Run, Inv, PlanInv
    <3>2. Complete(w[r].plan, w[r].done)
      BY <2>3, <3>1, NothingReadyAllDone DEF AllDone, Complete
    <3> QED BY <2>3, <3>2, ProgressFields
  <2>4. CASE CommitCheck(r) \/ Commit(r)
    BY <2>4, ProgressFields DEF DoneInv
  <2> QED BY <2>1, <2>2, <2>3, <2>4, ProgressFields DEF Progress, Handles, Quits, Handling
<1> QED BY <1>1, <1>2

\* A run that succeeds has executed its plan, whatever the order, the
\* dependencies and the corrections were: Kahn's loop leaves nothing out of a
\* plan that detect_cycle has accepted, unless operations share an id.
THEOREM EveryOperationRunsHolds == Spec => []EveryOperationRuns
<1>1. Init => DoneInv
  BY DEF Init, NewRun, DoneInv
<1>2. Spec => []DoneInv
  BY <1>1, DoneInductive, Invariance, PTL DEF Spec
<1>3. DoneInv => EveryOperationRuns
  BY DEF DoneInv, Complete, EveryOperationRuns
<1> QED BY <1>2, <1>3, PTL

-----------------------------------------------------------------------------
(* Nothing is left behind *)

Undisturbed == \A r \in Runs : w[r].at \notin {"failed", "dead"}

\* As long as no run has failed, a difference between the working tree and
\* the index is an operation in hand, and one between the index and the
\* branch a run that is still to commit.
LeftInv ==
    Undisturbed =>
        /\ \A f \in Files : tree[f] # index[f] =>
              \E r \in Runs : w[r].at \in Handling /\ f = File(r)
        /\ index # head => \E r \in Runs : w[r].at \in Working

LEMMA LeftInductive == Inv /\ LeftInv /\ [Next]_vars => LeftInv'
<1> SUFFICES ASSUME Inv, LeftInv, [Next]_vars PROVE LeftInv'
  OBVIOUS
<1>1. CASE UNCHANGED vars
  <2>1. UNCHANGED <<tree, index, head, w, met>>
    BY <1>1 DEF vars
  <2> QED BY <2>1 DEF LeftInv, Undisturbed, File
<1>2. CASE Next
  <2> SUFFICES ASSUME Undisturbed'
               PROVE  /\ \A f \in Files : tree'[f] # index'[f] =>
                           \E r \in Runs : w'[r].at \in Handling /\ f = File(r)'
                      /\ index' # head' => \E r \in Runs : w'[r].at \in Working
    BY DEF LeftInv
  <2>1. PICK r \in Runs : Alone(r) /\ (Progress(r) \/ Handles(r) \/ Quits(r))
    BY <1>2, StepCases
  <2>2. ~Quits(r) /\ w'[r].at \notin {"failed", "dead"}
    BY DEF Undisturbed, Quits
  <2>3. w[r].at \in {"new"} \cup Working
    BY <2>1, <2>2, ProgressFields DEF Progress, Handles, Handling, Working
  <2>4. Undisturbed
    BY <2>1, <2>3 DEF Undisturbed, Alone, Working
  <2>5. \A q \in Runs : q # r => w'[q] = w[q] /\ File(q)' = File(q)
    BY <2>1 DEF Alone, File
  <2>6. ASSUME w'[r].plan = w[r].plan, w'[r].cur = w[r].cur
        PROVE  File(r)' = File(r)
    BY <2>6 DEF File
  <2>7. CASE Handles(r)
    <3>1. UNCHANGED <<tree, index, head>> /\ File(r)' = File(r)
      BY <2>6, <2>7 DEF Handles, Repository
    <3> QED BY <2>4, <2>5, <2>7, <3>1 DEF LeftInv, Handles, Handling, Working
  <2>8. CASE PlanAccepted(r) \/ Resolve(r) \/ CheckPasses(r) \/ NextOp(r) \/ AllDone(r)
    <3>1. /\ UNCHANGED <<tree, index, head>>
          /\ w[r].at \notin Handling /\ w'[r].at \in Working
      BY <2>8, ProgressFields DEF Repository, Handling, Working
    <3> QED BY <2>4, <2>5, <3>1 DEF LeftInv
  <2>9. CASE Write(r)
    <3>1. /\ w[r].at = "writing" /\ w'[r].at = "validating" /\ File(r)' = File(r)
          /\ UNCHANGED <<index, head>>
          /\ \A f \in Files : f # File(r) => tree'[f] = tree[f]
      BY <2>6, <2>9, ProgressFields, HandlingType DEF Write, Handling, Trees
    <3> QED BY <2>4, <2>5, <3>1 DEF LeftInv, Handling, Working
  <2>10. CASE Add(r)
    <3>1. /\ w[r].at = "adding" /\ w'[r].at = "ready" /\ UNCHANGED <<tree, head>>
          /\ index' = [index EXCEPT ![File(r)] = tree[File(r)]]
      BY <2>10, ProgressFields DEF Add
    <3>2. \A f \in Files : index'[f] = IF f = File(r) THEN tree[f] ELSE index[f]
      BY <3>1, HandlingType DEF Trees
    <3>3. \A f \in Files : tree'[f] # index'[f] => f # File(r) /\ tree[f] # index[f]
      BY <3>1, <3>2
    <3> QED BY <2>4, <2>5, <3>1, <3>3 DEF LeftInv, Handling, Working
  <2>11. CASE CommitCheck(r)
    <3>1. /\ UNCHANGED <<tree, index, head>> /\ w[r].at = "committing"
          /\ index # head => w'[r].at = "landing"
      BY <2>11, ProgressFields DEF Repository
    <3> QED BY <2>4, <2>5, <3>1 DEF LeftInv, Handling, Working
  <2>12. CASE Commit(r)
    <3>1. /\ UNCHANGED <<tree, index>> /\ head' = index /\ w[r].at = "landing"
      BY <2>12 DEF Commit
    <3> QED BY <2>4, <2>5, <3>1 DEF LeftInv, Handling
  <2> QED BY <2>1, <2>2, <2>7, <2>8, <2>9, <2>10, <2>11, <2>12 DEF Progress
<1> QED BY <1>1, <1>2

\* Runs that succeed, several at a time too, leave nothing uncommitted.
THEOREM CleanAfterSuccessHolds == Spec => []CleanAfterSuccess
<1>1. Init => LeftInv
  BY DEF Init, LeftInv
<1>2. Spec => []LeftInv
  BY <1>1, LeftInductive, Invariance, PTL DEF Spec
<1>3. Inv /\ LeftInv => CleanAfterSuccess
  <2> SUFFICES ASSUME Inv, LeftInv, \A r \in Runs : w[r].at \in {"new", "done"}
               PROVE  tree = index /\ index = head
    BY DEF CleanAfterSuccess
  <2>1. /\ \A f \in Files : tree[f] = index[f]
        /\ index = head
    BY DEF LeftInv, Undisturbed, Handling, Working
  <2>2. tree \in Trees /\ index \in Trees
    BY DEF Inv, TypeOK
  <2> QED BY <2>1, <2>2 DEF Trees
<1> QED BY <1>2, <1>3, Invariance, PTL

-----------------------------------------------------------------------------
(* Runs at the same time *)

\* Two runs that are at work have met.
MetInv ==
    \A q, r \in Runs : q # r /\ w[q].at \in Working /\ w[r].at \in Working
                            => {q, r} \in met

\* No other run has been at work together with r.
Quiet(r) == \A q \in Runs : q # r => {q, r} \notin met

LEMMA MetInductive == Inv /\ MetInv /\ [Next]_vars => MetInv'
<1> SUFFICES ASSUME Inv, MetInv, [Next]_vars PROVE MetInv'
  OBVIOUS
<1>1. CASE UNCHANGED vars
  BY <1>1 DEF vars, MetInv
<1>2. CASE Next
  <2>1. PICK r \in Runs : Alone(r) /\ (Progress(r) \/ Handles(r) \/ Quits(r))
    BY <1>2, StepCases
  <2>2. CASE PlanAccepted(r)
    <3>1. \A q \in Runs : q # r /\ w'[q].at \in Working => {q, r} \in met'
      BY <2>1, <2>2 DEF PlanAccepted, Alone
    <3>2. \A q \in Runs : {q, r} = {r, q}
      OBVIOUS
    <3> QED BY <2>1, <3>1, <3>2 DEF Alone, MetInv
  <2>3. CASE ~PlanAccepted(r)
    <3>1. w'[r].at \in Working => w[r].at \in Working
      BY <2>1, <2>3, ProgressFields DEF Progress, Handles, Quits, Handling, Working
    <3> QED BY <2>1, <3>1 DEF Alone, MetInv
  <2> QED BY <2>2, <2>3
<1> QED BY <1>1, <1>2

\* What a plan names, and who has met, lasts.
LEMMA ContendedLasts ==
    ASSUME Inv, NEW r \in Runs, Alone(r), Progress(r) \/ Handles(r) \/ Quits(r)
    PROVE  /\ \A q \in Runs, f \in Files : Names(q, f) => Names(q, f)'
           /\ \A q \in Runs, f \in Files : Contended(q, f) => Contended(q, f)'
<1>1. w'[r].plan = w[r].plan \/ w[r].plan = << >>
  BY ProgressFields DEF Progress, Handles, Quits, Inv, PlanInv
<1>2. \A q \in Runs, f \in Files : Names(q, f) => Names(q, f)'
  BY <1>1 DEF Names, Alone
<1>3. met \subseteq met'
  BY DEF Alone
<1> QED BY <1>2, <1>3 DEF Contended

\* The file a run has in hand is contended if another run at work names it.
LEMMA InHandContended ==
    ASSUME Inv, MetInv, NEW q \in Runs, NEW r \in Runs, q # r,
           w[q].at \in Handling, w[r].at \in Working, Names(r, File(q))
    PROVE  Contended(r, File(q))
<1>1. Names(q, File(q))
  BY HandlingType DEF Names, File
<1>2. {q, r} \in met
  BY DEF MetInv, Handling, Working
<1> QED BY <1>1, <1>2 DEF Contended

\* What another run's step leaves to a run at work: its files that are not
\* contended, and the whole tree if the two have not met.
LEMMA OthersLeave ==
    ASSUME Inv, Inv', MetInv, NEW q \in Runs, NEW r \in Runs, q # r,
           w[r].at \in Working, Alone(q), Progress(q) \/ Handles(q) \/ Quits(q)
    PROVE  /\ \A f \in Files : Names(r, f) /\ ~Contended(r, f)
                 => tree'[f] = tree[f] /\ index'[f] = index[f]
           /\ Quiet(r)' => tree' = tree /\ Quiet(r)
<1>1. ASSUME NEW f \in Files, w[q].at \notin Handling \/ f # File(q)
      PROVE  tree'[f] = tree[f] /\ index'[f] = index[f]
  <2>1. CASE Handles(q)
    BY <2>1 DEF Handles, Repository
  <2>2. CASE Quits(q)
    BY <1>1, <2>2 DEF Quits
  <2>3. CASE Write(q)
    BY <1>1, <2>3, HandlingType DEF Write, Handling, Trees
  <2>4. CASE Add(q)
    BY <1>1, <2>4, HandlingType DEF Add, Handling, Trees
  <2>5. CASE Commit(q)
    BY <2>5 DEF Commit
  <2>6. CASE \/ PlanAccepted(q) \/ Resolve(q) \/ CheckPasses(q) \/ NextOp(q) \/ AllDone(q)
             \/ CommitCheck(q)
    BY <2>6, ProgressFields DEF Repository
  <2> QED BY <2>1, <2>2, <2>3, <2>4, <2>5, <2>6 DEF Progress
<1>2. ASSUME NEW f \in Files, Names(r, f), ~Contended(r, f)
      PROVE  tree'[f] = tree[f] /\ index'[f] = index[f]
  BY <1>1, <1>2, InHandContended
<1>3. ASSUME Quiet(r)' PROVE tree' = tree /\ Quiet(r)
  <2>1. Quiet(r)
    BY <1>3 DEF Quiet, Alone
  <2>2. w[q].at \notin Working
    BY <2>1 DEF Quiet, MetInv
  <2>3. CASE Quits(q)
    <3>1. \A f \in Files : tree'[f] = tree[f]
      BY <2>2, <2>3 DEF Quits, Handling, Working
    <3>2. tree \in Trees /\ tree' \in Trees
      BY DEF Inv, TypeOK
    <3> QED BY <2>1, <3>1, <3>2 DEF Trees
  <2>4. CASE PlanAccepted(q)
    BY <2>1, <2>4, ProgressFields DEF Repository
  <2> QED BY <2>1, <2>2, <2>3, <2>4, ProgressFields DEF Progress, Handles, Handling, Working
<1> QED BY <1>2, <1>3

\* A file about to be tested or staged has passed the syntax gate.
ParsedInv ==
    \A r \in Runs : w[r].at \in {"testing", "adding"}
                        => tree[File(r)] \in Parses \/ Contended(r, File(r))

LEMMA GatesInductive ==
    Inv /\ MetInv /\ ParsedInv /\ GatesBeforeStaging /\ [Next]_vars
        => ParsedInv' /\ GatesBeforeStaging'
<1> SUFFICES ASSUME Inv, MetInv, ParsedInv, GatesBeforeStaging, [Next]_vars
             PROVE  ParsedInv' /\ GatesBeforeStaging'
  OBVIOUS
<1>1. CASE UNCHANGED vars
  <2>1. UNCHANGED <<tree, index, head, w, met>>
    BY <1>1 DEF vars
  <2>2. ParsedInv'
    BY <2>1 DEF ParsedInv, File, Contended, Names
  <2>3. GatesBeforeStaging'
    BY <2>1 DEF GatesBeforeStaging, Contended, Names
  <2> QED BY <2>2, <2>3
<1>2. CASE Next
  <2>1. PICK r \in Runs : Alone(r) /\ (Progress(r) \/ Handles(r) \/ Quits(r))
    BY <1>2, StepCases
  <2>2. Inv'
    BY NextInv
  <2>3. GatesBeforeStaging'
    <3>1. CASE Add(r)
      <4>1. w[r].at = "adding" /\ index' = [index EXCEPT ![File(r)] = tree[File(r)]]
        BY <3>1 DEF Add
      <4>2. File(r) \in Files /\ (tree[File(r)] \in Parses \/ Contended(r, File(r)))
        BY <4>1, HandlingType DEF ParsedInv, Handling
      <4>3. \A f \in Files : index'[f] = IF f = File(r) THEN tree[f] ELSE index[f]
        BY <4>1, HandlingType DEF Trees
      <4> QED BY <2>1, <4>2, <4>3, ContendedLasts DEF GatesBeforeStaging
    <3>2. CASE ~Add(r)
      <4>1. index' = index
        BY <2>1, <3>2, ProgressFields
        DEF Progress, Handles, Quits, Repository, Write, Commit
      <4> QED BY <2>1, <4>1, ContendedLasts DEF GatesBeforeStaging
    <3> QED BY <3>1, <3>2
  <2>4. ASSUME w'[r].at \in {"testing", "adding"}
        PROVE  tree'[File(r)'] \in Parses \/ Contended(r, File(r))'
    <3>1. Handles(r)
      BY <2>1, <2>4, ProgressFields DEF Progress, Quits
    <3>2. File(r)' = File(r) /\ tree' = tree /\ w[r].at \in Handling
      BY <3>1 DEF Handles, File, Repository
    <3>3. File(r) \in Files
      BY <3>2, HandlingType
    <3>4. tree[File(r)] \in Parses \/ Contended(r, File(r))
      BY <2>4, <3>1 DEF Handles, ParsedInv
    <3>5. Contended(r, File(r)) => Contended(r, File(r))'
      BY <2>1, <3>2, <3>3, ContendedLasts DEF Contended
    <3> QED BY <3>2, <3>4, <3>5
  <2>5. ASSUME NEW q \in Runs, q # r, w'[q].at \in {"testing", "adding"}
        PROVE  tree'[File(q)'] \in Parses \/ Contended(q, File(q))'
    <3>1. w'[q] = w[q] /\ File(q)' = File(q)
      BY <2>1, <2>5 DEF Alone, File
    <3>2. w[q].at \in Handling /\ w[q].at \in Working
      BY <2>5, <3>1 DEF Handling, Working
    <3>3. File(q) \in Files /\ Names(q, File(q))
      BY <3>2, HandlingType DEF Names, File
    <3>4. Contended(q, File(q)) => Contended(q, File(q))'
      <4>1. PICK f \in Files : f = File(q)
        BY <3>3
      <4>2. Contended(q, f) => Contended(q, f)'
        BY <2>1, ContendedLasts
      <4> QED BY <3>1, <4>1, <4>2 DEF Contended, Names
    <3>5. CASE Contended(q, File(q))
      BY <3>4, <3>5
    <3>6. CASE ~Contended(q, File(q))
      <4>1. tree'[File(q)] = tree[File(q)]
        BY <2>1, <2>2, <2>5, <3>2, <3>3, <3>6, OthersLeave
      <4>2. tree[File(q)] \in Parses
        BY <2>5, <3>1, <3>6 DEF ParsedInv
      <4> QED BY <3>1, <4>1, <4>2
    <3> QED BY <3>5, <3>6
  <2> QED BY <2>3, <2>4, <2>5 DEF ParsedInv
<1> QED BY <1>1, <1>2

\* Nothing is staged, and so nothing committed, that the syntax gate has not
\* accepted, whatever runs failed or were killed before and whatever they
\* left, except a file that two runs had in hand at one time.
THEOREM GatesHold == Spec => []GatesBeforeStaging
<1>1. Init => MetInv /\ ParsedInv /\ GatesBeforeStaging
  BY DEF Init, NewRun, MetInv, ParsedInv, GatesBeforeStaging, Working
<1> QED BY <1>1, MetInductive, GatesInductive, Invariance, PTL DEF Spec

-----------------------------------------------------------------------------
(* What is committed was tested *)

\* A run whose operations have passed the check and is not at its end.
Checked == {"ready", "committing", "landing"} \cup Handling

\* No file is named twice in a plan.
DistinctFiles(p) == \A j, k \in DOMAIN p : p[j].file = p[k].file => j = k

\* What run r knows of its plan and of the repository.
Knows(r) ==
    /\ w[r].at \in {"new", "planned", "resolved"} => w[r].done = {}
    /\ w[r].at \in Checked =>
          /\ DistinctFiles(w[r].plan)
          /\ \A k \in Executed(r) : \/ Contended(r, w[r].plan[k].file)
                                   \/ index[w[r].plan[k].file] = tree[w[r].plan[k].file]
    /\ w[r].at \in Handling => /\ w[r].plan[w[r].cur].id \notin w[r].done
                               /\ w[r].cur = Last(w[r].plan, w[r].plan[w[r].cur].id)
    /\ w[r].at = "adding" /\ Quiet(r) => tree \in Green
    /\ w[r].at \in {"ready", "committing", "landing"} /\ w[r].done # {} /\ Quiet(r)
          => tree \in Green

\* The files of the operations that are done are staged as they are, and the
\* tests accept the tree.
TestedInv == \A r \in Runs : Knows(r)

\* How each action keeps what run r knows.
LEMMA KnowsKept ==
    ASSUME Inv, NEW r \in Runs, Knows(r), Alone(r), Progress(r) \/ Handles(r) \/ Quits(r)
    PROVE  Knows(r)'
<1> DEFINE p == w[r].plan
           ran == {k \in DOMAIN p : p[k].id \in w[r].done /\ k = Last(p, p[k].id)}
<1>1. w[r] \in Run /\ p \in Seq(Op) /\ tree \in Trees /\ index \in Trees
  BY HandlingType DEF Run
<1>2. ASSUME NEW k \in DOMAIN p PROVE p[k].file \in Files
  <2>1. p[k] \in Op
    BY <1>1
  <2> QED BY <2>1 DEF Op
<1>3. Quiet(r)' => Quiet(r)
  BY DEF Quiet, Alone
<1>4. \A f \in Files : Contended(r, f) => Contended(r, f)'
  BY ContendedLasts
<1>5. CASE Quits(r)
  BY <1>5 DEF Quits, Knows, Checked, Handling
<1>6. ASSUME w'[r].plan = p, w'[r].done = w[r].done, UNCHANGED Repository,
             w[r].at \in Checked
      PROVE  /\ DistinctFiles(w'[r].plan)
             /\ \A k \in Executed(r)' : \/ Contended(r, w[r].plan[k].file)'
                                         \/ index'[w'[r].plan[k].file] = tree'[w'[r].plan[k].file]
  <2>1. Executed(r)' = Executed(r)
    BY <1>6 DEF Executed
  <2>2. ASSUME NEW k \in Executed(r)
        PROVE  \/ Contended(r, w[r].plan[k].file)'
               \/ index'[w'[r].plan[k].file] = tree'[w'[r].plan[k].file]
    <3>1. PICK f \in Files : f = p[k].file
      BY <1>2 DEF Executed
    <3>2. Contended(r, f) \/ index[f] = tree[f]
      BY <1>6, <3>1 DEF Knows
    <3>3. Contended(r, f) => Contended(r, w[r].plan[k].file)'
      <4>1. Contended(r, f)' = Contended(r, w[r].plan[k].file)'
        BY <1>6, <3>1 DEF Contended, Names
      <4> QED BY <1>4, <4>1
    <3> QED BY <1>6, <3>1, <3>2, <3>3 DEF Repository
  <2> QED BY <1>6, <2>1, <2>2 DEF Knows
<1>7. CASE Handles(r)
  <2>1. /\ w'[r].plan = p /\ w'[r].done = w[r].done /\ UNCHANGED Repository
        /\ w'[r].cur = w[r].cur /\ w[r].at \in Handling /\ w'[r].at \in Handling
        /\ w'[r].at = "adding" => tree \in Green
    BY <1>7 DEF Handles
  <2> QED BY <1>6, <2>1 DEF Knows, Checked, Handling, Repository
<1>8. CASE PlanAccepted(r)
  <2>1. w[r].at = "new" /\ w'[r].at = "planned" /\ w'[r].done = w[r].done
    BY <1>8, ProgressFields
  <2> QED BY <2>1 DEF Knows, Checked, Handling
<1>9. CASE Resolve(r)
  <2>1. w[r].at = "planned" /\ w'[r].at = "resolved" /\ w'[r].done = w[r].done
    BY <1>9, ProgressFields
  <2> QED BY <2>1 DEF Knows, Checked, Handling
<1>10. CASE CheckPasses(r)
  <2>1. /\ w[r].at = "resolved" /\ w'[r].at = "ready" /\ w'[r].plan = p
        /\ w'[r].done = w[r].done
    BY <1>10, ProgressFields
  <2>2. DistinctFiles(p)
    <3>1. ~Conflict(p, w[r].mods)
      BY <1>10 DEF CheckPasses
    <3>2. ASSUME NEW j \in DOMAIN p, NEW k \in DOMAIN p, p[j].file = p[k].file
          PROVE  j = k
      <4>1. j \in w[r].mods <=> k \in w[r].mods
        BY <3>1, <3>2 DEF Conflict
      <4> QED BY <3>1, <3>2, <4>1 DEF Conflict
    <3> QED BY <3>2 DEF DistinctFiles
  <2>3. w'[r].done = {}
    BY <2>1 DEF Knows
  <2>4. Executed(r)' = {}
    BY <2>3 DEF Executed
  <2> QED BY <2>1, <2>2, <2>3, <2>4 DEF Knows, Checked, Handling
<1>11. CASE AllDone(r) \/ CommitCheck(r)
  <2>1. /\ w[r].at \in {"ready", "committing"} /\ w'[r].at \in {"committing", "done", "landing"}
        /\ w'[r].plan = p /\ w'[r].done = w[r].done /\ UNCHANGED Repository
    BY <1>11, ProgressFields
  <2> QED BY <1>3, <1>6, <2>1 DEF Knows, Checked, Handling, Repository
<1>12. CASE NextOp(r)
  <2>1. /\ w[r].at = "ready" /\ w'[r].at \in {"reading", "generating"} /\ w'[r].plan = p
        /\ w'[r].done = w[r].done /\ w'[r].cur = FirstReady(p, w[r].done)
        /\ UNCHANGED Repository
    BY <1>12, ProgressFields
  <2>2. p[w'[r].cur].id \notin w[r].done /\ w'[r].cur = Last(p, p[w'[r].cur].id)
    BY <1>1, <1>12, <2>1, FirstReadyIs DEF NextOp, ReadyIds
  <2> QED BY <1>6, <2>1, <2>2 DEF Knows, Checked, Handling
<1>13. CASE Write(r)
  <2>1. /\ w[r].at = "writing" /\ w'[r].at = "validating" /\ w'[r].plan = p
        /\ w'[r].done = w[r].done /\ w'[r].cur = w[r].cur /\ index' = index
        /\ tree' = [tree EXCEPT ![File(r)] = w[r].made]
    BY <1>13, ProgressFields DEF Write
  <2>2. /\ DistinctFiles(p) /\ w[r].cur \in DOMAIN p /\ p[w[r].cur].id \notin w[r].done
        /\ w[r].cur = Last(p, p[w[r].cur].id)
    BY <2>1, HandlingType DEF Knows, Checked, Handling
  <2>3. Executed(r)' = Executed(r)
    BY <2>1 DEF Executed
  <2>4. ASSUME NEW k \in Executed(r)
        PROVE  \/ Contended(r, w[r].plan[k].file)'
               \/ index'[w'[r].plan[k].file] = tree'[w'[r].plan[k].file]
    <3>1. k \in DOMAIN p /\ p[k].id \in w[r].done
      BY DEF Executed
    <3>2. PICK f \in Files : f = p[k].file
      BY <1>2, <3>1
    <3>3. f # File(r)
      BY <2>2, <3>1, <3>2 DEF DistinctFiles, File
    <3>4. Contended(r, f) \/ index[f] = tree[f]
      BY <2>1, <3>2 DEF Knows, Checked, Handling
    <3>5. Contended(r, f) => Contended(r, w[r].plan[k].file)'
      <4>1. Contended(r, f)' = Contended(r, w[r].plan[k].file)'
        BY <2>1, <3>2 DEF Contended, Names
      <4> QED BY <1>4, <4>1
    <3>6. tree'[f] = tree[f]
      BY <1>1, <2>1, <3>3 DEF Trees
    <3> QED BY <2>1, <3>2, <3>4, <3>5, <3>6
  <2> QED BY <2>1, <2>2, <2>3, <2>4 DEF Knows, Checked, Handling
<1>14. CASE Add(r)
  <2> DEFINE o == w[r].cur
  <2>1. /\ w[r].at = "adding" /\ w'[r].at = "ready" /\ w'[r].plan = p
        /\ w'[r].done = w[r].done \cup {p[o].id} /\ tree' = tree
        /\ index' = [index EXCEPT ![File(r)] = tree[File(r)]]
    BY <1>14, ProgressFields DEF Add
  <2>2. /\ DistinctFiles(p) /\ o \in DOMAIN p /\ (Quiet(r) => tree \in Green)
        /\ o = Last(p, p[o].id)
    BY <2>1, HandlingType DEF Knows, Checked, Handling
  <2>3. ASSUME NEW k \in Executed(r)'
        PROVE  \/ Contended(r, w[r].plan[k].file)'
               \/ index'[w'[r].plan[k].file] = tree'[w'[r].plan[k].file]
    <3>1. k \in DOMAIN p /\ p[k].id \in w'[r].done /\ k = Last(p, p[k].id)
      BY <2>1 DEF Executed
    <3>2. PICK f \in Files : f = p[k].file
      BY <1>2, <3>1
    <3>3. CASE f = File(r)
      BY <1>1, <2>1, <3>2, <3>3 DEF Trees
    <3>4. CASE f # File(r)
      <4>1. k \in Executed(r)
        BY <2>1, <2>2, <3>1, <3>2, <3>4 DEF File, Executed
      <4>2. Contended(r, f) \/ index[f] = tree[f]
        BY <2>1, <3>2, <4>1 DEF Knows, Checked, Handling
      <4>3. Contended(r, f) => Contended(r, w[r].plan[k].file)'
        <5>1. Contended(r, f)' = Contended(r, w[r].plan[k].file)'
          BY <2>1, <3>2 DEF Contended, Names
        <5> QED BY <1>4, <5>1
      <4>4. index'[f] = index[f]
        BY <1>1, <2>1, <3>4 DEF Trees
      <4> QED BY <2>1, <3>2, <4>2, <4>3, <4>4
    <3> QED BY <3>3, <3>4
  <2> QED BY <1>3, <2>1, <2>2, <2>3 DEF Knows, Checked, Handling
<1>15. CASE Commit(r)
  <2>1. w'[r].at \in {"done", "failed"}
    BY <1>15, ProgressFields
  <2> QED BY <2>1 DEF Knows, Checked, Handling
<1> QED BY <1>5, <1>7, <1>8, <1>9, <1>10, <1>11, <1>12, <1>13, <1>14, <1>15 DEF Progress

\* How another run's step keeps it.
LEMMA KnowsLeft ==
    ASSUME Inv, Inv', MetInv, NEW q \in Runs, NEW r \in Runs, q # r, Knows(r),
           Alone(q), Progress(q) \/ Handles(q) \/ Quits(q)
    PROVE  Knows(r)'
<1> DEFINE p == w[r].plan
<1>1. w'[r] = w[r] /\ Executed(r)' = Executed(r)
  BY DEF Alone, Executed
<1>2. CASE w[r].at \notin Working
  BY <1>1, <1>2 DEF Knows, Working, Checked, Handling
<1>3. CASE w[r].at \in Working
  <2>1. Quiet(r)' => tree' = tree /\ Quiet(r)
    BY <1>3, OthersLeave
  <2>2. ASSUME NEW k \in Executed(r), w[r].at \in Checked
        PROVE  \/ Contended(r, w[r].plan[k].file)'
               \/ index'[w'[r].plan[k].file] = tree'[w'[r].plan[k].file]
    <3>1. k \in DOMAIN p /\ p \in Seq(Op)
      BY HandlingType DEF Executed, Run
    <3>2. p[k] \in Op
      BY <3>1
    <3>3. PICK f \in Files : f = p[k].file
      BY <3>2 DEF Op
    <3>4. Names(r, f) /\ (Contended(r, f) \/ index[f] = tree[f])
      BY <2>2, <3>1, <3>3 DEF Knows, Names
    <3>5. Contended(r, f) => Contended(r, w[r].plan[k].file)'
      <4>1. Contended(r, f) => Contended(r, f)'
        BY ContendedLasts
      <4> QED BY <1>1, <3>3, <4>1 DEF Contended, Names
    <3>6. Contended(r, f) \/ (tree'[f] = tree[f] /\ index'[f] = index[f])
      BY <1>3, <3>4, OthersLeave
    <3> QED BY <1>1, <3>3, <3>4, <3>5, <3>6
  <2> QED BY <1>1, <2>1, <2>2 DEF Knows
<1> QED BY <1>2, <1>3

LEMMA TestedInductive == Inv /\ MetInv /\ TestedInv /\ [Next]_vars => TestedInv'
<1> SUFFICES ASSUME Inv, MetInv, TestedInv, [Next]_vars PROVE TestedInv'
  OBVIOUS
<1>1. CASE UNCHANGED vars
  <2>1. UNCHANGED <<tree, index, head, w, met>>
    BY <1>1 DEF vars
  <2>2. ASSUME NEW r \in Runs PROVE Knows(r)'
    <3>1. Knows(r)
      BY DEF TestedInv
    <3>2. Executed(r)' = Executed(r) /\ Quiet(r)' = Quiet(r)
      BY <2>1 DEF Executed, Quiet
    <3>3. \A k \in Executed(r) : Contended(r, w[r].plan[k].file)'
                                    = Contended(r, w[r].plan[k].file)
      BY <2>1 DEF Contended, Names
    <3> QED BY <2>1, <3>1, <3>2, <3>3 DEF Knows
  <2> QED BY <2>2 DEF TestedInv
<1>2. CASE Next
  <2>1. PICK q \in Runs : Alone(q) /\ (Progress(q) \/ Handles(q) \/ Quits(q))
    BY <1>2, StepCases
  <2>2. Inv'
    BY NextInv
  <2>3. ASSUME NEW r \in Runs PROVE Knows(r)'
    <3>1. Knows(r)
      BY DEF TestedInv
    <3>2. CASE q = r
      BY <2>1, <3>1, <3>2, KnowsKept
    <3>3. CASE q # r
      BY <2>1, <2>2, <3>1, <3>3, KnowsLeft
    <3> QED BY <3>2, <3>3
  <2> QED BY <2>3 DEF TestedInv
<1> QED BY <1>1, <1>2

\* A commit holds every file the run wrote as it is in the working tree,
\* unless another run worked on that file at the same time; and the tests
\* accept that tree, if no other run worked on the repository and the plan was
\* not empty: an empty one commits what an earlier run has left.
THEOREM CommittedWasTested == Spec => CommitsWhatWasTested
<1>1. Init => MetInv /\ TestedInv
  BY DEF Init, NewRun, MetInv, TestedInv, Knows, Working, Checked, Handling
<1>2. Spec => [](MetInv /\ TestedInv)
  BY <1>1, MetInductive, TestedInductive, Invariance, PTL DEF Spec
<1>3. Inv /\ TestedInv /\ [Next]_vars
        => [\A r \in Runs : w[r].at = "landing" /\ w'[r].at = "done" => LandsItsWork(r)]_vars
  <2> SUFFICES ASSUME Inv, TestedInv, Next,
                      NEW r \in Runs, w[r].at = "landing", w'[r].at = "done"
               PROVE  LandsItsWork(r)
    OBVIOUS
  <2>1. PICK q \in Runs : Alone(q) /\ (Progress(q) \/ Handles(q) \/ Quits(q))
    BY StepCases
  <2>2. q = r
    BY <2>1 DEF Alone
  <2>3. Commit(r)
    BY <2>1, <2>2, ProgressFields DEF Progress, Handles, Handling, Quits
  <2>4. head' = index
    BY <2>3 DEF Commit
  <2>5. Executed(r) # {} => w[r].done # {}
    BY DEF Executed
  <2>6. Knows(r)
    BY DEF TestedInv
  <2>7. w[r].done # {} /\ Quiet(r) => tree \in Green
    BY <2>6 DEF Knows
  <2>8. \A k \in Executed(r) : \/ Contended(r, w[r].plan[k].file)
                               \/ head'[w[r].plan[k].file] = tree[w[r].plan[k].file]
    BY <2>4, <2>6 DEF Knows, Checked
  <2> QED BY <2>5, <2>7, <2>8 DEF Quiet, LandsItsWork
<1> QED BY <1>2, <1>3, Invariance, PTL DEF Spec, CommitsWhatWasTested

-----------------------------------------------------------------------------
(* Jobs dispatched over the API, whose threads are to run the pipeline above *)

\* What is on disk and what a client has been shown, by where the thread is:
\* the record in its memory is one step ahead of the file.
JobInv(j) ==
    /\ Rank[seen[j]] <= Rank[status[j]]
    /\ t[j].at = "unborn" => status[j] = "none"
    /\ t[j].at = "creating" => status[j] = "none" /\ t[j].job = "pending"
    /\ t[j].at = "dispatched" => status[j] = "pending" /\ file[j] = "saved"
    /\ t[j].at = "saving" => \/ t[j].job = "running" /\ status[j] = "pending"
                             \/ t[j].job = "failed" /\ status[j] = "running"
    /\ t[j].at = "pipeline" => status[j] = "running" /\ file[j] = "saved"
    /\ t[j].at = "gone" => file[j] = "saved" \/ j \in cut

JobsInv == ApiTypeOK /\ stale = {} /\ \A j \in Jobs : JobInv(j)

LEMMA Ranks ==
    /\ Rank["none"] = 0 /\ Rank["pending"] = 1 /\ Rank["running"] = 2
    /\ Rank["completed"] = 3 /\ Rank["failed"] = 3
BY DEF Rank, Statuses, Final

LEMMA JobsInit == ApiInit => JobsInv
BY EngineeringJobsAssumption, Ranks DEF ApiInit, JobsInv, JobInv, ApiTypeOK, Statuses, Points, Final

LEMMA JobsNext ==
    ASSUME JobsInv, ApiNext
    PROVE  JobsInv'
<1> USE EngineeringJobsAssumption DEF JobsInv, ApiTypeOK, Final, Statuses, Points
<1>1. ASSUME NEW j \in Jobs, Create(j) PROVE JobsInv'
  BY <1>1, Ranks DEF Create, Open, JobInv
<1>2. ASSUME NEW j \in Jobs, Dispatch(j) PROVE JobsInv'
  BY <1>2, Ranks DEF Dispatch, Written, Show, JobInv
<1>3. ASSUME NEW j \in Jobs, Get(j) PROVE JobsInv'
  BY <1>3, Ranks DEF Get, Show, JobInv
<1>4. ASSUME NEW j \in Jobs, StartRunning(j) PROVE JobsInv'
  BY <1>4, Ranks DEF StartRunning, Open, JobInv
<1>5. ASSUME NEW j \in Jobs, SaveRunning(j) PROVE JobsInv'
  BY <1>5, Ranks DEF SaveRunning, Written, JobInv
<1>6. ASSUME NEW j \in Jobs, RunPipeline(j) PROVE JobsInv'
  BY <1>6, Ranks DEF RunPipeline, Open, JobInv
<1>7. ASSUME NEW j \in Jobs, SaveFinal(j) PROVE JobsInv'
  BY <1>7, Ranks DEF SaveFinal, Written, JobInv
<1>8. ASSUME NEW j \in Jobs, LoadFails(j) PROVE JobsInv'
  BY <1>8, Ranks DEF LoadFails, JobInv
<1>9. ASSUME NEW j \in Jobs, SaveFails(j) PROVE JobsInv'
  BY <1>9, Ranks DEF SaveFails, JobInv
<1>10. ASSUME Restart PROVE JobsInv'
  BY <1>10, Ranks DEF Restart, JobInv
<1> QED BY <1>1, <1>2, <1>3, <1>4, <1>5, <1>6, <1>7, <1>8, <1>9, <1>10 DEF ApiNext, RunThread

LEMMA JobsInvariant == ApiSpec => []JobsInv
<1>1. JobsInv /\ UNCHANGED apiVars => JobsInv'
  BY DEF JobsInv, JobInv, ApiTypeOK, apiVars
<1>2. JobsInv /\ [ApiNext]_apiVars => JobsInv'
  BY <1>1, JobsNext
<1> QED BY <1>2, JobsInit, PTL DEF ApiSpec

\* The statuses a client is shown for a job of the API never go back, for any
\* number of jobs, of answers and of deaths of the gateway: a handler reads what
\* was written last, or nothing, while the thread saves the next status.
THEOREM NeverShownHolds == ApiSpec => []NeverShownEarlier
<1>1. JobsInv => NeverShownEarlier
  BY DEF JobsInv, NeverShownEarlier
<1> QED BY <1>1, JobsInvariant, PTL

\* A job whose POST was answered can be read, except while its thread saves it
\* or after a save of it was cut short.
THEOREM AnsweredHolds == ApiSpec => []AnsweredIsReadable
<1>1. JobsInv => AnsweredIsReadable
  BY Ranks DEF JobsInv, JobInv, ApiTypeOK, Points, Statuses, Final, AnsweredIsReadable
<1> QED BY <1>1, JobsInvariant, PTL

\* The files, statuses and threads of the jobs keep their types.
THEOREM JobsTypeCorrect == ApiSpec => []ApiTypeOK
<1>1. JobsInv => ApiTypeOK
  BY DEF JobsInv
<1> QED BY <1>1, JobsInvariant, PTL
=============================================================================
