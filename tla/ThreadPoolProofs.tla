-------------------------- MODULE ThreadPoolProofs --------------------------
(***************************************************************************)
(* Proofs about ThreadPool, for any number of workers, clients and tasks.  *)
(*                                                                         *)
(* The inductive invariant adds to the properties what they rest on: who   *)
(* holds mx_ and where (LockHeld), that a worker exits only from a stopped *)
(* pool with an empty queue (ExitedMeansEmpty), and that a drain's history *)
(* names accepted tasks only (BeforeAccepted).                             *)
(***************************************************************************)
EXTENDS ThreadPool, TLAPS, FiniteSetTheorems

LockHeld == \A c \in Clients : cpc[c] \in {"check", "block"} <=> mx = c

RunHoldsTask == \A w \in Workers : wpc[w] = "run" => fn[w] \in Tasks

ExitedMeansEmpty == \A w \in Workers : wpc[w] = "exited" => stopping /\ q = <<>>

BeforeAccepted == \A c \in Clients : before[c] \subseteq accepted

Inv == /\ TypeOK
       /\ LockHeld
       /\ RunHoldsTask
       /\ InFlightExact
       /\ EachTaskOnce
       /\ ExitedMeansEmpty
       /\ BeforeAccepted
       /\ DrainWaitsForEarlierTasks

-----------------------------------------------------------------------------
(* Sequences                                                               *)

Elems(s) == {s[i] : i \in DOMAIN s}

Distinct(s) == \A i, j \in DOMAIN s : s[i] = s[j] => i = j

\* What post()'s push_back does to a queue without repetitions.
LEMMA AppendElems ==
    ASSUME NEW s \in Seq(Tasks), NEW t \in Tasks
    PROVE  /\ Append(s, t) \in Seq(Tasks)
           /\ Elems(Append(s, t)) = Elems(s) \cup {t}
           /\ Distinct(s) /\ t \notin Elems(s) => Distinct(Append(s, t))
<1>1. /\ Append(s, t) \in Seq(Tasks)
      /\ DOMAIN Append(s, t) = 1 .. Len(s) + 1
      /\ DOMAIN s = 1 .. Len(s) /\ Len(s) \in Nat
      /\ \A i \in 1 .. Len(s) : Append(s, t)[i] = s[i]
      /\ Append(s, t)[Len(s) + 1] = t
  OBVIOUS
<1>2. Elems(Append(s, t)) = Elems(s) \cup {t}
  BY <1>1 DEF Elems
<1>3. Distinct(s) /\ t \notin Elems(s) => Distinct(Append(s, t))
  BY <1>1 DEF Elems, Distinct
<1> QED  BY <1>1, <1>2, <1>3

\* What workerLoop's pop does to it.
LEMMA TailElems ==
    ASSUME NEW s \in Seq(Tasks), s # <<>>
    PROVE  /\ Head(s) \in Tasks /\ Tail(s) \in Seq(Tasks)
           /\ Elems(s) = {Head(s)} \cup Elems(Tail(s))
           /\ Distinct(s) => Distinct(Tail(s)) /\ Head(s) \notin Elems(Tail(s))
<1>1. /\ Tail(s) \in Seq(Tasks) /\ Head(s) \in Tasks
      /\ DOMAIN Tail(s) = 1 .. Len(s) - 1
      /\ DOMAIN s = 1 .. Len(s) /\ Len(s) \in Nat /\ Len(s) > 0
      /\ \A i \in 1 .. Len(s) - 1 : Tail(s)[i] = s[i + 1]
      /\ Head(s) = s[1]
  OBVIOUS
<1>2. Elems(s) = {Head(s)} \cup Elems(Tail(s))
  <2>1. ASSUME NEW i \in DOMAIN s PROVE s[i] \in {Head(s)} \cup Elems(Tail(s))
    <3>1. CASE i = 1  BY <1>1, <3>1
    <3>2. CASE i # 1
      <4>1. i - 1 \in DOMAIN Tail(s) /\ Tail(s)[i - 1] = s[i]  BY <1>1, <3>2
      <4> QED  BY <4>1 DEF Elems
    <3> QED  BY <3>1, <3>2
  <2>2. Head(s) \in Elems(s)  BY <1>1 DEF Elems
  <2>3. Elems(Tail(s)) \subseteq Elems(s)  BY <1>1 DEF Elems
  <2> QED  BY <2>1, <2>2, <2>3 DEF Elems
<1>3. Distinct(s) => Distinct(Tail(s)) /\ Head(s) \notin Elems(Tail(s))
  BY <1>1 DEF Elems, Distinct
<1> QED  BY <1>1, <1>2, <1>3

-----------------------------------------------------------------------------
(* inFlight_ counts the workers in "run"                                   *)

\* A worker enters "run": one more.
LEMMA OneMoreBusy ==
    ASSUME Inv, NEW w \in Workers, wpc[w] # "run", wpc' = [wpc EXCEPT ![w] = "run"],
           inFlight' = inFlight + 1
    PROVE  InFlightExact'
<1>1. Busy' = Busy \cup {w} /\ w \notin Busy  BY DEF Busy, Inv, TypeOK
<1>2. IsFiniteSet(Busy)  BY PoolAssumption, FS_Subset DEF Busy
<1>3. Cardinality(Busy \cup {w}) = Cardinality(Busy) + 1  BY <1>1, <1>2, FS_AddElement
<1> QED  BY <1>1, <1>3 DEF Inv, InFlightExact

\* A worker leaves "run": one less.
LEMMA OneLessBusy ==
    ASSUME Inv, NEW w \in Workers, wpc[w] = "run", wpc' = [wpc EXCEPT ![w] = "finished"],
           inFlight' = inFlight - 1
    PROVE  InFlightExact' /\ inFlight' \in Nat
<1>1. Busy' = Busy \ {w} /\ w \in Busy  BY DEF Busy, Inv, TypeOK
<1>2. IsFiniteSet(Busy)  BY PoolAssumption, FS_Subset DEF Busy
<1>3. Cardinality(Busy \ {w}) = Cardinality(Busy) - 1 /\ IsFiniteSet(Busy \ {w})
  BY <1>1, <1>2, FS_RemoveElement
<1>4. Cardinality(Busy \ {w}) \in Nat  BY <1>3, FS_CardinalityType
<1> QED  BY <1>1, <1>3, <1>4 DEF Inv, InFlightExact

\* A step that moves no task and starts or ends no closure.
LEMMA SameTasks ==
    ASSUME Inv, UNCHANGED <<q, accepted, done, fn, inFlight>>, Busy' = Busy
    PROVE  InFlightExact' /\ EachTaskOnce'
<1>1. Queued' = Queued /\ Running' = Running  BY DEF Queued, Running
<1> QED  BY <1>1 DEF Inv, InFlightExact, EachTaskOnce

-----------------------------------------------------------------------------
(* Induction                                                               *)

LEMMA InitInv == Init => Inv
<1> SUFFICES ASSUME Init PROVE Inv  OBVIOUS
<1> USE DEF Init
<1>1. TypeOK
  <2>1. /\ wpc \in [Workers -> WorkerPC] /\ cpc \in [Clients -> ClientPC]
        /\ op \in [Clients -> Ops] /\ fn \in [Workers -> Tasks \cup {NoTask}]
    BY DEF WorkerPC, ClientPC, Ops
  <2>2. before \in [Clients -> SUBSET Tasks]  OBVIOUS
  <2>3. q \in Seq(Tasks)  OBVIOUS
  <2> QED  BY <2>1, <2>2, <2>3 DEF TypeOK
<1>2. LockHeld  BY PoolAssumption DEF LockHeld
<1>3. Busy = {} /\ Queued = {} /\ Running = {}  BY DEF Busy, Queued, Running
<1>4. InFlightExact  BY <1>3, FS_EmptySet DEF InFlightExact
<1>5. EachTaskOnce  BY <1>3 DEF EachTaskOnce
<1>6. RunHoldsTask /\ ExitedMeansEmpty /\ BeforeAccepted /\ DrainWaitsForEarlierTasks
  BY DEF RunHoldsTask, ExitedMeansEmpty, BeforeAccepted, DrainWaitsForEarlierTasks
<1> QED  BY <1>1, <1>2, <1>4, <1>5, <1>6 DEF Inv

\* post() under mx_.
LEMMA PostInv == ASSUME Inv, NEW p \in Threads, NEW t \in Tasks, Post(p, t) PROVE Inv'
<1> USE DEF Inv, Post
<1>1. TypeOK'
  BY AppendElems DEF TypeOK
<1>2. LockHeld' /\ RunHoldsTask'  BY DEF LockHeld, RunHoldsTask
<1>3. Busy' = Busy /\ Running' = Running  BY DEF Busy, Running
<1>4. InFlightExact'  BY <1>3 DEF InFlightExact
<1>5. EachTaskOnce'
  <2>1. Queued' = Queued \cup {t} /\ Distinct(q')
    <3>1. Queued = Elems(q) /\ Queued' = Elems(q') /\ Distinct(q) /\ t \notin Elems(q)
      BY DEF Queued, Elems, EachTaskOnce, Distinct
    <3> QED  BY <3>1, AppendElems DEF TypeOK
  <2>2. accepted' = Queued' \cup Running' \cup done'
    BY <1>3, <2>1 DEF EachTaskOnce
  <2>3. /\ Queued' \cap (Running' \cup done') = {} /\ Running' \cap done' = {}
    BY <1>3, <2>1 DEF EachTaskOnce
  <2>4. \A i, j \in DOMAIN q' : q'[i] = q'[j] => i = j  BY <2>1 DEF Distinct
  <2>5. \A v, w \in Busy' : fn'[v] = fn'[w] => v = w  BY <1>3 DEF EachTaskOnce
  <2> QED  BY <2>2, <2>3, <2>4, <2>5 DEF EachTaskOnce
<1>6. ExitedMeansEmpty'  BY DEF ExitedMeansEmpty
<1>7. BeforeAccepted'  BY DEF BeforeAccepted
<1>8. DrainWaitsForEarlierTasks'  BY DEF DrainWaitsForEarlierTasks
<1> QED  BY <1>1, <1>2, <1>4, <1>5, <1>6, <1>7, <1>8

\* workerLoop's pop under mx_.
LEMMA WorkerPopInv == ASSUME Inv, NEW w \in Workers, WorkerPop(w) PROVE Inv'
<1> USE DEF Inv, WorkerPop
<1>0. Head(q) \in Tasks /\ Tail(q) \in Seq(Tasks)  BY TailElems DEF TypeOK
<1>1. TypeOK'  BY <1>0 DEF TypeOK, WorkerPC
<1>2. LockHeld'  BY DEF LockHeld
<1>3. RunHoldsTask'  BY <1>0 DEF RunHoldsTask, TypeOK
<1>4. InFlightExact'  BY OneMoreBusy
<1>5. EachTaskOnce'
  <2>1. /\ Queued = {Head(q)} \cup Queued' /\ Head(q) \notin Queued'
        /\ Distinct(q')
    <3>1. Queued = Elems(q) /\ Queued' = Elems(q') /\ Distinct(q)
      BY DEF Queued, Elems, EachTaskOnce, Distinct
    <3> QED  BY <3>1, TailElems DEF TypeOK
  <2>2. Busy' = Busy \cup {w} /\ w \notin Busy  BY DEF Busy, TypeOK
  <2>3. fn'[w] = Head(q) /\ \A v \in Workers \ {w} : fn'[v] = fn[v]  BY DEF TypeOK
  <2>4. Busy \subseteq Workers  BY DEF Busy
  <2>5. Running' = Running \cup {Head(q)}  BY <2>2, <2>3, <2>4 DEF Running
  <2>6. Head(q) \notin Running /\ Head(q) \notin done  BY <2>1 DEF EachTaskOnce
  <2>7. accepted' = Queued' \cup Running' \cup done'
    BY <2>1, <2>5 DEF EachTaskOnce
  <2>8. Queued' \cap (Running' \cup done') = {} /\ Running' \cap done' = {}
    BY <2>1, <2>5, <2>6 DEF EachTaskOnce
  <2>9. \A u, v \in Busy' : fn'[u] = fn'[v] => u = v
    <3>1. \A v \in Busy : fn[v] # Head(q)  BY <2>6 DEF Running
    <3> QED  BY <2>2, <2>3, <2>4, <3>1 DEF EachTaskOnce
  <2> QED  BY <2>1, <2>7, <2>8, <2>9 DEF EachTaskOnce, Distinct
<1>6. ExitedMeansEmpty'  BY DEF ExitedMeansEmpty, TypeOK
<1>7. BeforeAccepted' /\ DrainWaitsForEarlierTasks'
  BY DEF BeforeAccepted, DrainWaitsForEarlierTasks
<1> QED  BY <1>1, <1>2, <1>3, <1>4, <1>5, <1>6, <1>7

\* The end of a closure, outside mx_.
LEMMA WorkerDoneInv == ASSUME Inv, NEW w \in Workers, WorkerDone(w) PROVE Inv'
<1> USE DEF Inv, WorkerDone
<1>0. fn[w] \in Tasks  BY DEF RunHoldsTask
<1>1. InFlightExact' /\ inFlight' \in Nat  BY OneLessBusy
<1>2. TypeOK'  BY <1>0, <1>1 DEF TypeOK, WorkerPC
<1>3. LockHeld'  BY DEF LockHeld
<1>4. RunHoldsTask'  BY DEF RunHoldsTask, TypeOK
<1>5. EachTaskOnce'
  <2>1. Busy' = Busy \ {w} /\ w \in Busy /\ Busy \subseteq Workers  BY DEF Busy, TypeOK
  <2>2. \A v \in Busy' : fn'[v] = fn[v]  BY <2>1 DEF TypeOK
  <2>3. \A v \in Busy' : fn[v] # fn[w]  BY <2>1 DEF EachTaskOnce
  <2>4. Running = Running' \cup {fn[w]} /\ fn[w] \notin Running'
    BY <2>1, <2>2, <2>3 DEF Running
  <2>5. Queued' = Queued  BY DEF Queued
  <2>6. accepted' = Queued' \cup Running' \cup done'
    BY <2>4, <2>5 DEF EachTaskOnce
  <2>7. Queued' \cap (Running' \cup done') = {} /\ Running' \cap done' = {}
    BY <2>4, <2>5 DEF EachTaskOnce
  <2>8. \A u, v \in Busy' : fn'[u] = fn'[v] => u = v
    BY <2>1, <2>2 DEF EachTaskOnce
  <2> QED  BY <2>6, <2>7, <2>8 DEF EachTaskOnce
<1>6. ExitedMeansEmpty'  BY DEF ExitedMeansEmpty, TypeOK
<1>7. BeforeAccepted' /\ DrainWaitsForEarlierTasks'
  BY DEF BeforeAccepted, DrainWaitsForEarlierTasks
<1> QED  BY <1>1, <1>2, <1>3, <1>4, <1>5, <1>6, <1>7

\* post()'s notify_one.
LEMMA NotifyOneInv == ASSUME Inv, NEW p \in Threads, NotifyOne(p) PROVE Inv'
<1> USE DEF Inv, NotifyOne
<1>1. TypeOK'  BY DEF TypeOK, WorkerPC, ClientPC, Ops, Threads
<1>2. LockHeld'  BY DEF LockHeld, TypeOK
<1>3. RunHoldsTask'  BY DEF RunHoldsTask, TypeOK
<1>4. Busy' = Busy  BY DEF Busy, TypeOK
<1>5. InFlightExact' /\ EachTaskOnce'  BY <1>4, SameTasks
<1>6. ExitedMeansEmpty'  BY DEF ExitedMeansEmpty, TypeOK
<1>7. BeforeAccepted' /\ DrainWaitsForEarlierTasks'
  BY DEF BeforeAccepted, DrainWaitsForEarlierTasks, TypeOK
<1> QED  BY <1>1, <1>2, <1>3, <1>5, <1>6, <1>7

\* The steps of workerLoop that move no task.
LEMMA WorkerWaitInv == ASSUME Inv, NEW w \in Workers, WorkerWait(w) PROVE Inv'
<1> USE DEF Inv, WorkerWait
<1>1. TypeOK'  BY DEF TypeOK, WorkerPC, ClientPC, Ops, Threads
<1>2. LockHeld'  BY DEF LockHeld, TypeOK
<1>3. RunHoldsTask'  BY DEF RunHoldsTask, TypeOK
<1>4. Busy' = Busy  BY DEF Busy, TypeOK
<1>5. InFlightExact' /\ EachTaskOnce'  BY <1>4, SameTasks
<1>6. ExitedMeansEmpty'  BY DEF ExitedMeansEmpty, TypeOK
<1>7. BeforeAccepted' /\ DrainWaitsForEarlierTasks'
  BY DEF BeforeAccepted, DrainWaitsForEarlierTasks, TypeOK
<1> QED  BY <1>1, <1>2, <1>3, <1>5, <1>6, <1>7

\* A worker leaves only a stopped, empty pool.
LEMMA WorkerExitInv == ASSUME Inv, NEW w \in Workers, WorkerExit(w) PROVE Inv'
<1> USE DEF Inv, WorkerExit
<1>1. TypeOK'  BY DEF TypeOK, WorkerPC, ClientPC, Ops, Threads
<1>2. LockHeld'  BY DEF LockHeld, TypeOK
<1>3. RunHoldsTask'  BY DEF RunHoldsTask, TypeOK
<1>4. Busy' = Busy  BY DEF Busy, TypeOK
<1>5. InFlightExact' /\ EachTaskOnce'  BY <1>4, SameTasks
<1>6. ExitedMeansEmpty'  BY DEF ExitedMeansEmpty, TypeOK
<1>7. BeforeAccepted' /\ DrainWaitsForEarlierTasks'
  BY DEF BeforeAccepted, DrainWaitsForEarlierTasks, TypeOK
<1> QED  BY <1>1, <1>2, <1>3, <1>5, <1>6, <1>7

\* idleCv_.notify_all() moves clients, none of which holds mx_.
LEMMA WorkerNotifyIdleInv == ASSUME Inv, NEW w \in Workers, WorkerNotifyIdle(w) PROVE Inv'
<1> USE DEF Inv, WorkerNotifyIdle
<1>1. TypeOK'  BY DEF TypeOK, WorkerPC, ClientPC, Ops, Threads
<1>2. LockHeld'  BY DEF LockHeld, TypeOK
<1>3. RunHoldsTask'  BY DEF RunHoldsTask, TypeOK
<1>4. Busy' = Busy  BY DEF Busy, TypeOK
<1>5. InFlightExact' /\ EachTaskOnce'  BY <1>4, SameTasks
<1>6. ExitedMeansEmpty'  BY DEF ExitedMeansEmpty, TypeOK
<1>7. BeforeAccepted' /\ DrainWaitsForEarlierTasks'
  BY DEF BeforeAccepted, DrainWaitsForEarlierTasks, TypeOK
<1> QED  BY <1>1, <1>2, <1>3, <1>5, <1>6, <1>7

\* A call begins.
LEMMA CallInv == ASSUME Inv, NEW c \in Clients, NEW what \in {"drain", "shutdown", "destroy"}, Call(c, what) PROVE Inv'
<1> USE DEF Inv, Call
<1>1. TypeOK'  BY DEF TypeOK, WorkerPC, ClientPC, Ops, Threads
<1>2. LockHeld'  BY DEF LockHeld, TypeOK
<1>3. RunHoldsTask'  BY DEF RunHoldsTask, TypeOK
<1>4. Busy' = Busy  BY DEF Busy, TypeOK
<1>5. InFlightExact' /\ EachTaskOnce'  BY <1>4, SameTasks
<1>6. ExitedMeansEmpty'  BY DEF ExitedMeansEmpty, TypeOK
<1>7. BeforeAccepted' /\ DrainWaitsForEarlierTasks'
  BY DEF BeforeAccepted, DrainWaitsForEarlierTasks, TypeOK
<1> QED  BY <1>1, <1>2, <1>3, <1>5, <1>6, <1>7

\* mx_ is taken when it is free.
LEMMA DrainLockInv == ASSUME Inv, NEW c \in Clients, DrainLock(c) PROVE Inv'
<1> USE DEF Inv, DrainLock
<1>1. TypeOK'  BY DEF TypeOK, WorkerPC, ClientPC, Ops, Threads
<1>2. LockHeld'  BY PoolAssumption DEF LockHeld, TypeOK
<1>3. RunHoldsTask'  BY DEF RunHoldsTask, TypeOK
<1>4. Busy' = Busy  BY DEF Busy, TypeOK
<1>5. InFlightExact' /\ EachTaskOnce'  BY <1>4, SameTasks
<1>6. ExitedMeansEmpty'  BY DEF ExitedMeansEmpty, TypeOK
<1>7. BeforeAccepted' /\ DrainWaitsForEarlierTasks'
  BY DEF BeforeAccepted, DrainWaitsForEarlierTasks, TypeOK
<1> QED  BY <1>1, <1>2, <1>3, <1>5, <1>6, <1>7

\* When the predicate of drain() holds nothing is queued and nothing runs, so
\* everything accepted is done.
LEMMA DrainCheckInv == ASSUME Inv, NEW c \in Clients, DrainCheck(c) PROVE Inv'
<1> USE DEF Inv, DrainCheck
<1>1. TypeOK'  BY DEF TypeOK, ClientPC
<1>2. LockHeld'  BY PoolAssumption DEF LockHeld, TypeOK
<1>3. RunHoldsTask'  BY DEF RunHoldsTask
<1>4. Busy' = Busy  BY DEF Busy
<1>5. InFlightExact' /\ EachTaskOnce'  BY <1>4, SameTasks
<1>6. ExitedMeansEmpty' /\ BeforeAccepted'  BY DEF ExitedMeansEmpty, BeforeAccepted
<1>7. DrainWaitsForEarlierTasks'
  <2>1. CASE q = <<>> /\ inFlight = 0
    <3>1. Queued = {}  BY <2>1 DEF Queued
    <3>2. IsFiniteSet(Busy)  BY PoolAssumption, FS_Subset DEF Busy
    <3>3. Busy = {}  BY <2>1, <3>2, FS_EmptySet DEF InFlightExact
    <3>4. accepted = done  BY <3>1, <3>3 DEF EachTaskOnce, Running
    <3> QED  BY <2>1, <3>4 DEF DrainWaitsForEarlierTasks, BeforeAccepted, TypeOK
  <2>2. CASE ~(q = <<>> /\ inFlight = 0)
    BY <2>2 DEF DrainWaitsForEarlierTasks, TypeOK
  <2> QED  BY <2>1, <2>2
<1> QED  BY <1>1, <1>2, <1>3, <1>5, <1>6, <1>7

\* The wait of drain() gives mx_ back.
LEMMA DrainBlockInv == ASSUME Inv, NEW c \in Clients, DrainBlock(c) PROVE Inv'
<1> USE DEF Inv, DrainBlock
<1>1. TypeOK'  BY DEF TypeOK, WorkerPC, ClientPC, Ops, Threads
<1>2. LockHeld'  BY PoolAssumption DEF LockHeld, TypeOK
<1>3. RunHoldsTask'  BY DEF RunHoldsTask, TypeOK
<1>4. Busy' = Busy  BY DEF Busy, TypeOK
<1>5. InFlightExact' /\ EachTaskOnce'  BY <1>4, SameTasks
<1>6. ExitedMeansEmpty'  BY DEF ExitedMeansEmpty, TypeOK
<1>7. BeforeAccepted' /\ DrainWaitsForEarlierTasks'
  BY DEF BeforeAccepted, DrainWaitsForEarlierTasks, TypeOK
<1> QED  BY <1>1, <1>2, <1>3, <1>5, <1>6, <1>7

\* drain() returns.
LEMMA DrainReturnInv == ASSUME Inv, NEW c \in Clients, DrainReturn(c) PROVE Inv'
<1> USE DEF Inv, DrainReturn
<1>1. TypeOK'  BY DEF TypeOK, WorkerPC, ClientPC, Ops, Threads
<1>2. LockHeld'  BY DEF LockHeld, TypeOK
<1>3. RunHoldsTask'  BY DEF RunHoldsTask, TypeOK
<1>4. Busy' = Busy  BY DEF Busy, TypeOK
<1>5. InFlightExact' /\ EachTaskOnce'  BY <1>4, SameTasks
<1>6. ExitedMeansEmpty'  BY DEF ExitedMeansEmpty, TypeOK
<1>7. BeforeAccepted' /\ DrainWaitsForEarlierTasks'
  BY DEF BeforeAccepted, DrainWaitsForEarlierTasks, TypeOK
<1> QED  BY <1>1, <1>2, <1>3, <1>5, <1>6, <1>7

\* stopping_ is set and stays set.
LEMMA SetStoppingInv == ASSUME Inv, NEW c \in Clients, SetStopping(c) PROVE Inv'
<1> USE DEF Inv, SetStopping
<1>1. TypeOK'  BY DEF TypeOK, WorkerPC, ClientPC, Ops, Threads
<1>2. LockHeld'  BY DEF LockHeld, TypeOK
<1>3. RunHoldsTask'  BY DEF RunHoldsTask, TypeOK
<1>4. Busy' = Busy  BY DEF Busy, TypeOK
<1>5. InFlightExact' /\ EachTaskOnce'  BY <1>4, SameTasks
<1>6. ExitedMeansEmpty'  BY DEF ExitedMeansEmpty, TypeOK
<1>7. BeforeAccepted' /\ DrainWaitsForEarlierTasks'
  BY DEF BeforeAccepted, DrainWaitsForEarlierTasks, TypeOK
<1> QED  BY <1>1, <1>2, <1>3, <1>5, <1>6, <1>7

\* cv_.notify_all().
LEMMA NotifyStopInv == ASSUME Inv, NEW c \in Clients, NotifyStop(c) PROVE Inv'
<1> USE DEF Inv, NotifyStop
<1>1. TypeOK'  BY DEF TypeOK, WorkerPC, ClientPC, Ops, Threads
<1>2. LockHeld'  BY DEF LockHeld, TypeOK
<1>3. RunHoldsTask'  BY DEF RunHoldsTask, TypeOK
<1>4. Busy' = Busy  BY DEF Busy, TypeOK
<1>5. InFlightExact' /\ EachTaskOnce'  BY <1>4, SameTasks
<1>6. ExitedMeansEmpty'  BY DEF ExitedMeansEmpty, TypeOK
<1>7. BeforeAccepted' /\ DrainWaitsForEarlierTasks'
  BY DEF BeforeAccepted, DrainWaitsForEarlierTasks, TypeOK
<1> QED  BY <1>1, <1>2, <1>3, <1>5, <1>6, <1>7

\* The workers are joined.
LEMMA JoinInv == ASSUME Inv, NEW c \in Clients, Join(c) PROVE Inv'
<1> USE DEF Inv, Join
<1>1. TypeOK'  BY DEF TypeOK, WorkerPC, ClientPC, Ops, Threads
<1>2. LockHeld'  BY DEF LockHeld, TypeOK
<1>3. RunHoldsTask'  BY DEF RunHoldsTask, TypeOK
<1>4. Busy' = Busy  BY DEF Busy, TypeOK
<1>5. InFlightExact' /\ EachTaskOnce'  BY <1>4, SameTasks
<1>6. ExitedMeansEmpty'  BY DEF ExitedMeansEmpty, TypeOK
<1>7. BeforeAccepted' /\ DrainWaitsForEarlierTasks'
  BY DEF BeforeAccepted, DrainWaitsForEarlierTasks, TypeOK
<1> QED  BY <1>1, <1>2, <1>3, <1>5, <1>6, <1>7

\* A spurious wake-up.
LEMMA SpuriousInv == ASSUME Inv, Spurious PROVE Inv'
<1> USE DEF Inv, Spurious
<1>1. TypeOK'  BY DEF TypeOK, WorkerPC, ClientPC
<1>2. LockHeld'  BY DEF LockHeld, TypeOK
<1>3. RunHoldsTask'  BY DEF RunHoldsTask, TypeOK
<1>4. Busy' = Busy  BY DEF Busy, TypeOK
<1>5. InFlightExact' /\ EachTaskOnce'  BY <1>4, SameTasks
<1>6. ExitedMeansEmpty'  BY DEF ExitedMeansEmpty, TypeOK
<1>7. BeforeAccepted' /\ DrainWaitsForEarlierTasks'
  BY DEF BeforeAccepted, DrainWaitsForEarlierTasks, TypeOK
<1> QED  BY <1>1, <1>2, <1>3, <1>5, <1>6, <1>7

\* Every step of the pool preserves the invariant.
LEMMA NextInv == Inv /\ [Next]_vars => Inv'
<1> SUFFICES ASSUME Inv, [Next]_vars PROVE Inv'  OBVIOUS
<1>1. ASSUME NEW p \in Threads, NEW t \in Tasks, Post(p, t) PROVE Inv'
  BY <1>1, PostInv
<1>2. ASSUME NEW p \in Threads, NotifyOne(p) PROVE Inv'
  BY <1>2, NotifyOneInv
<1>3. ASSUME NEW w \in Workers, WorkerStep(w) PROVE Inv'
  BY <1>3, WorkerWaitInv, WorkerExitInv, WorkerPopInv, WorkerDoneInv, WorkerNotifyIdleInv
     DEF WorkerStep
<1>4. ASSUME NEW c \in Clients, NEW what \in {"drain", "shutdown", "destroy"}, Call(c, what)
      PROVE  Inv'
  BY <1>4, CallInv
<1>5. ASSUME NEW c \in Clients, ClientStep(c) PROVE Inv'
  BY <1>5, DrainLockInv, DrainCheckInv, DrainBlockInv, DrainReturnInv, SetStoppingInv,
     NotifyStopInv, JoinInv DEF ClientStep
<1>6. CASE Spurious  BY <1>6, SpuriousInv
<1>7. CASE UNCHANGED vars
  <2>1. Busy' = Busy /\ Queued' = Queued /\ Running' = Running
    BY <1>7 DEF vars, Busy, Queued, Running
  <2> QED  BY <1>7, <2>1 DEF vars, Inv, TypeOK, LockHeld, RunHoldsTask, InFlightExact,
             EachTaskOnce, ExitedMeansEmpty, BeforeAccepted, DrainWaitsForEarlierTasks
<1> QED  BY <1>1, <1>2, <1>3, <1>4, <1>5, <1>6, <1>7 DEF Next

-----------------------------------------------------------------------------
(* Theorems                                                                *)

\* The strengthened invariant holds in every behaviour of the pool.
THEOREM PoolInvariant == Spec => []Inv
<1>1. Init => Inv  BY InitInv
<1>2. Inv /\ [Next]_vars => Inv'  BY NextInv
<1> QED  BY <1>1, <1>2, PTL DEF Spec

\* Type correctness of the pool, for any threads, tasks and bounds.
THEOREM PoolTypeOK == Spec => []TypeOK
<1>1. Inv => TypeOK  BY DEF Inv
<1> QED  BY <1>1, PoolInvariant, PTL

\* Every closure post() pushed is queued, in one worker's hands or finished.
THEOREM PoolEachTaskOnce == Spec => []EachTaskOnce
<1>1. Inv => EachTaskOnce  BY DEF Inv
<1> QED  BY <1>1, PoolInvariant, PTL

\* inFlight_ equals the number of closures being run, although it is lowered
\* outside mx_.
THEOREM PoolInFlightExact == Spec => []InFlightExact
<1>1. Inv => InFlightExact  BY DEF Inv
<1> QED  BY <1>1, PoolInvariant, PTL

\* drain() returns only when every task accepted before the call has finished,
\* whoever else posts, drains or stops the pool meanwhile.
THEOREM PoolDrainWaits == Spec => []DrainWaitsForEarlierTasks
<1>1. Inv => DrainWaitsForEarlierTasks  BY DEF Inv
<1> QED  BY <1>1, PoolInvariant, PTL

\* Once all workers have exited, which is what shutdown() and the destructor
\* join on, no accepted task is left behind.
THEOREM PoolNothingStranded == Spec => []NothingStranded
<1>1. Inv => NothingStranded
  <2> SUFFICES ASSUME Inv, \A w \in Workers : wpc[w] = "exited"
               PROVE  accepted = done /\ q = <<>>
    BY DEF NothingStranded
  <2>1. q = <<>>  BY PoolAssumption DEF Inv, ExitedMeansEmpty
  <2>2. Busy = {}  BY DEF Busy
  <2>3. Queued = {} /\ Running = {}  BY <2>1, <2>2 DEF Queued, Running
  <2> QED  BY <2>1, <2>3 DEF Inv, EachTaskOnce
<1> QED  BY <1>1, PoolInvariant, PTL

=============================================================================
