------------------------------ MODULE StateProofs ------------------------------
(***************************************************************************)
(* What holds of the state file, for any number of processes, calls, file  *)
(* versions, reloads, failures and requests.                               *)
(*                                                                         *)
(* Of its lock (StateLock): with crashes, stalls and expired deadlines at  *)
(* any point, until a process has logged that it stole a lock or went      *)
(* ahead without it, the lock excludes, no update is lost, and updateState *)
(* is an atomic update.                                                    *)
(*                                                                         *)
(* Of the daemon that reloads it (Runtime): a reload never puts an older   *)
(* file back in force, a reload that is answered is in force, and the      *)
(* profiles in force are those of what serves.                             *)
(***************************************************************************)
EXTENDS StateLock, Runtime, SequenceTheorems, TLAPS

-----------------------------------------------------------------------------
(* The lock. *)

(* A process that is about to remove a stale lock has said so.             *)
StealsAreLogged == \A p \in Procs : pc[p] = "steal" => logged

(* The file and what processes read of it hold only changes really made.   *)
NothingInvented ==
  \A p, q \in Procs : file[q] <= calls[q] /\ view[p][q] <= calls[q]

(* Exclusion rests on every removal of a live lock being logged, and makes *)
(* the view of a process about to write the file itself; no part of the    *)
(* invariant but the types is inductive alone.                             *)
IInv ==
  /\ TypeOK
  /\ StealsAreLogged
  /\ LossIsAnnounced
  /\ NoLostUpdate
  /\ NothingInvented

-----------------------------------------------------------------------------
(* The initial state satisfies the invariant.                              *)
LEMMA InitInv == Init => IInv
<1> SUFFICES ASSUME Init PROVE IInv
  OBVIOUS
<1> USE DEF Init, Nothing
<1>1. TypeOK
  BY DEF TypeOK, Places
<1>2. Inside = {}
  BY DEF Inside, Critical
<1>3. LossIsAnnounced
  BY <1>2 DEF LossIsAnnounced
<1>4. NoLostUpdate
  BY DEF NoLostUpdate
<1>5. NothingInvented /\ StealsAreLogged
  BY DEF NothingInvented, StealsAreLogged
<1> QED
  BY <1>1, <1>3, <1>4, <1>5 DEF IInv

(* Every step preserves types.                                             *)
LEMMA StepType == TypeOK /\ [Next]_vars => TypeOK'
<1> SUFFICES ASSUME TypeOK, [Next]_vars PROVE TypeOK'
  OBVIOUS
<1> USE DEF TypeOK, Places, Goto, history
<1>1. ASSUME NEW p \in Procs, Call(p) PROVE TypeOK'
  BY <1>1 DEF Call
<1>2. ASSUME NEW p \in Procs, TryOpen(p) PROVE TypeOK'
  BY <1>2 DEF TryOpen
<1>3. ASSUME NEW p \in Procs, Stat(p) PROVE TypeOK'
  BY <1>3 DEF Stat, Log
<1>4. ASSUME NEW p \in Procs, Steal(p) PROVE TypeOK'
  BY <1>4 DEF Steal
<1>5. ASSUME NEW p \in Procs, Read(p) PROVE TypeOK'
  BY <1>5 DEF Read
<1>6. ASSUME NEW p \in Procs, Write(p) PROVE TypeOK'
  BY <1>6 DEF Write
<1>7. ASSUME NEW p \in Procs, Throw(p) PROVE TypeOK'
  BY <1>7 DEF Throw
<1>8. ASSUME NEW p \in Procs, Unlock(p) PROVE TypeOK'
  BY <1>8 DEF Unlock
<1>9. ASSUME NEW p \in Procs, Crash(p) PROVE TypeOK'
  BY <1>9 DEF Crash
<1>10. ASSUME NEW p \in Procs, Deadline(p) PROVE TypeOK'
  BY <1>10 DEF Deadline
<1>11. CASE Age
  BY <1>11 DEF Age
<1>12. CASE UNCHANGED vars
  BY <1>12 DEF vars
<1> QED
  BY <1>1, <1>2, <1>3, <1>4, <1>5, <1>6, <1>7, <1>8, <1>9, <1>10, <1>11,
     <1>12 DEF Next, Step

(* A log line is written on the way to every steal.                        *)
LEMMA StepSteals ==
  TypeOK /\ StealsAreLogged /\ [Next]_vars => StealsAreLogged'
<1> SUFFICES ASSUME TypeOK, StealsAreLogged, [Next]_vars,
                    NEW p \in Procs, pc'[p] = "steal"
             PROVE  logged'
  BY DEF StealsAreLogged
<1> USE DEF TypeOK, Goto
<1>1. CASE pc[p] = "steal"
  <2>1. logged
    BY <1>1 DEF StealsAreLogged
  <2> QED
    BY <2>1 DEF Next, Step, Call, TryOpen, Stat, Log, Steal, Read, Write, Throw,
                Unlock, Crash, Deadline, Age, vars, history
<1>2. CASE pc[p] # "steal"
  BY <1>2 DEF Next, Step, Call, TryOpen, Stat, Log, Steal, Read, Write, Throw,
              Unlock, Crash, Deadline, Age, vars
<1> QED
  BY <1>1, <1>2

(* The only step that moves a process into the critical section unlogged   *)
(* creates the lock file, which it can do only when there is none.         *)
LEMMA StepExcludes ==
  TypeOK /\ StealsAreLogged /\ LossIsAnnounced /\ [Next]_vars
    => LossIsAnnounced'
<1> SUFFICES ASSUME TypeOK, StealsAreLogged, LossIsAnnounced, [Next]_vars,
                    ~logged'
             PROVE  /\ \A p, q \in Inside' : p = q
                    /\ Inside' # {} => lock' # "none"
  BY DEF LossIsAnnounced
<1>0. ~logged
  BY DEF Next, Step, Call, TryOpen, Stat, Log, Steal, Read, Write, Throw,
         Unlock, Crash, Deadline, Age, vars, history
<1>a. (\A p, q \in Inside : p = q) /\ (Inside # {} => lock # "none")
  BY <1>0 DEF LossIsAnnounced
<1> DEFINE Out == Inside' \subseteq Inside /\ lock' = lock
<1> USE DEF TypeOK, Goto, Inside, Critical
<1>1. ASSUME NEW p \in Procs, Call(p) PROVE Out
  BY <1>1 DEF Call
<1>2. ASSUME NEW p \in Procs, TryOpen(p)
      PROVE  Out \/ (Inside' = {p} /\ lock' = "fresh")
  <2>1. CASE lock = "none"
    <3>1. Inside = {} /\ pc' = [pc EXCEPT ![p] = "read"] /\ lock' = "fresh"
      BY <1>a, <1>2, <2>1 DEF TryOpen
    <3> QED
      BY <3>1
  <2>2. CASE lock # "none"
    <3>1. pc' = [pc EXCEPT ![p] = "stat"] /\ lock' = lock
      BY <1>2, <2>2 DEF TryOpen
    <3> QED
      BY <3>1
  <2> QED
    BY <2>1, <2>2
<1>3. ASSUME NEW p \in Procs, Stat(p) PROVE Out
  BY <1>3 DEF Stat, Log
<1>4. ASSUME NEW p \in Procs, Steal(p) PROVE FALSE
  BY <1>0, <1>4 DEF Steal, StealsAreLogged
<1>5. ASSUME NEW p \in Procs, Read(p) PROVE Out
  BY <1>5 DEF Read
<1>6. ASSUME NEW p \in Procs, Write(p) PROVE Out
  BY <1>6 DEF Write
<1>7. ASSUME NEW p \in Procs, Throw(p) PROVE Out
  BY <1>7 DEF Throw
<1>8. ASSUME NEW p \in Procs, Unlock(p) PROVE Inside' = {}
  <2>1. Inside = {p}
    BY <1>a, <1>8 DEF Unlock
  <2> QED
    BY <1>8, <2>1 DEF Unlock
<1>9. ASSUME NEW p \in Procs, Crash(p) PROVE Out
  BY <1>9 DEF Crash
<1>10. ASSUME NEW p \in Procs, Deadline(p) PROVE Out
  BY <1>10 DEF Deadline
<1>11. CASE Age
  BY <1>a, <1>11 DEF Age
<1>12. CASE UNCHANGED vars
  BY <1>a, <1>12 DEF vars
<1> HIDE DEF Inside
<1>13. ASSUME Out PROVE (\A p, q \in Inside' : p = q)
                        /\ (Inside' # {} => lock' # "none")
  BY <1>a, <1>13
<1> QED
  BY <1>1, <1>2, <1>3, <1>4, <1>5, <1>6, <1>7, <1>8, <1>9, <1>10, <1>11,
     <1>12, <1>13 DEF Next, Step

(* Only a process inside writes, and it writes what it read of the file.   *)
LEMMA StepKeepsUpdates ==
  IInv /\ [Next]_vars => NoLostUpdate'
<1> SUFFICES ASSUME IInv, [Next]_vars, ~logged'
             PROVE  /\ file' = acked'
                    /\ \A p \in Procs : pc'[p] = "write" => view'[p] = file'
  BY DEF NoLostUpdate
<1>0. ~logged
  BY DEF Next, Step, Call, TryOpen, Stat, Log, Steal, Read, Write, Throw,
         Unlock, Crash, Deadline, Age, vars, history
<1>a. /\ file = acked
      /\ \A p \in Procs : pc[p] = "write" => view[p] = file
      /\ \A p, q \in Inside : p = q
  BY <1>0 DEF IInv, LossIsAnnounced, NoLostUpdate
<1> DEFINE Same == /\ file' = file /\ acked' = acked /\ view' = view
                   /\ \A q \in Procs : pc'[q] = "write" => pc[q] = "write"
<1> USE DEF IInv, TypeOK, Goto
<1>1. ASSUME NEW p \in Procs, Call(p) \/ TryOpen(p) \/ Stat(p) \/ Steal(p)
                                \/ Throw(p) \/ Unlock(p) \/ Crash(p)
                                \/ Deadline(p)
      PROVE  Same
  BY <1>1 DEF Call, TryOpen, Stat, Steal, Throw, Unlock, Crash, Deadline,
              history
<1>2. ASSUME NEW p \in Procs, Read(p)
      PROVE  /\ file' = acked'
             /\ \A q \in Procs : pc'[q] = "write" => view'[q] = file'
  BY <1>a, <1>2 DEF Read, history
<1>3. ASSUME NEW p \in Procs, Write(p)
      PROVE  /\ file' = acked'
             /\ \A q \in Procs : pc'[q] = "write" => view'[q] = file'
  <2>1. view[p] = file /\ file' = acked'
    BY <1>a, <1>3 DEF Write
  <2>2. ASSUME NEW q \in Procs, pc'[q] = "write" PROVE FALSE
    <3>1. p # q /\ pc[q] = "write" /\ pc[p] = "write"
      BY <1>3, <2>2 DEF Write
    <3> QED
      BY <1>a, <3>1 DEF Inside, Critical
  <2> QED
    BY <2>1, <2>2
<1>4. ASSUME Age \/ UNCHANGED vars PROVE Same
  BY <1>4 DEF Age, vars, history
<1>5. ASSUME Same
      PROVE  /\ file' = acked'
             /\ \A q \in Procs : pc'[q] = "write" => view'[q] = file'
  BY <1>a, <1>5
<1> HIDE DEF Same
<1> QED
  BY <1>1, <1>2, <1>3, <1>4, <1>5 DEF Next, Step

(* Numbers of changes only grow, and a write copies numbers of real ones.  *)
LEMMA StepInventsNothing ==
  TypeOK /\ NothingInvented /\ [Next]_vars => NothingInvented'
<1> SUFFICES ASSUME TypeOK, NothingInvented, [Next]_vars,
                    NEW p \in Procs, NEW q \in Procs
             PROVE  file'[q] <= calls'[q] /\ view'[p][q] <= calls'[q]
  BY DEF NothingInvented
<1>a. file[q] <= calls[q] /\ view[p][q] <= calls[q]
  BY DEF NothingInvented
<1> USE DEF TypeOK
<1>1. ASSUME NEW r \in Procs, Call(r)
      PROVE  file'[q] <= calls'[q] /\ view'[p][q] <= calls'[q]
  BY <1>a, <1>1 DEF Call
<1>2. ASSUME NEW r \in Procs, Read(r)
      PROVE  file'[q] <= calls'[q] /\ view'[p][q] <= calls'[q]
  BY <1>a, <1>2 DEF Read
<1>3. ASSUME NEW r \in Procs, Write(r)
      PROVE  file'[q] <= calls'[q] /\ view'[p][q] <= calls'[q]
  <2>1. view[r][q] <= calls[q]
    BY DEF NothingInvented
  <2> QED
    BY <1>a, <1>3, <2>1 DEF Write
<1>4. CASE UNCHANGED <<file, view, calls>>
  BY <1>a, <1>4
<1>5. ASSUME NEW r \in Procs, TryOpen(r) \/ Stat(r) \/ Steal(r) \/ Throw(r)
                                \/ Unlock(r) \/ Crash(r) \/ Deadline(r)
      PROVE  UNCHANGED <<file, view, calls>>
  BY <1>5 DEF TryOpen, Stat, Steal, Throw, Unlock, Crash, Deadline, history
<1>6. ASSUME Age \/ UNCHANGED vars PROVE UNCHANGED <<file, view, calls>>
  BY <1>6 DEF Age, vars
<1> QED
  BY <1>1, <1>2, <1>3, <1>4, <1>5, <1>6 DEF Next, Step

(* Every step preserves the invariant.                                     *)
LEMMA StepInv == IInv /\ [Next]_vars => IInv'
  BY StepType, StepSteals, StepExcludes, StepKeepsUpdates, StepInventsNothing
  DEF IInv

(* The invariant holds throughout every behaviour of the state lock.       *)
LEMMA Invariance == Spec => []IInv
  BY InitInv, StepInv, PTL DEF Spec

-----------------------------------------------------------------------------
(* The variables of the lock, the file and the processes keep their types. *)
THEOREM TypeCorrect == Spec => []TypeOK
<1>1. IInv => TypeOK
  BY DEF IInv
<1> QED
  BY <1>1, Invariance, PTL

(* withStateLock excludes until a process has logged that it does not.     *)
THEOREM ExclusiveUntilReported == Spec => []LossIsAnnounced
<1>1. IInv => LossIsAnnounced
  BY DEF IInv
<1> QED
  BY <1>1, Invariance, PTL

(* No change acknowledged by updateState disappears under another until    *)
(* then.                                                                   *)
THEOREM UpdatesSurvive == Spec => []NoLostUpdate
<1>1. IInv => NoLostUpdate
  BY DEF IInv
<1> QED
  BY <1>1, Invariance, PTL

-----------------------------------------------------------------------------
(* Refinement: the write is the atomic update.                             *)

(* The initial state of the lock is an initial state of the shared state.  *)
LEMMA InitRefines == Init => Shared!Init
  BY DEF Init, Shared!Init, Stage, Nothing, Waiting

(* Every step of the lock is a step of the shared state or changes nothing *)
(* of it: the write is the atomic update, for until a report the view it   *)
(* starts from is the file.                                                *)
LEMMA StepRefines == IInv /\ [Next]_vars => [Shared!Next]_(Shared!vars)
<1> SUFFICES ASSUME IInv, [Next]_vars PROVE [Shared!Next]_(Shared!vars)
  OBVIOUS
<1> DEFINE stage == [p \in Procs |-> Stage(pc[p])]
           Hidden == stage' = stage /\ file' = file /\ calls' = calls
           Said == logged' = logged \/ logged' = TRUE
<1> USE DEF IInv, TypeOK, Goto
<1>a. Hidden /\ logged' = logged => UNCHANGED Shared!vars
  BY DEF Shared!vars
<1>b. Hidden /\ logged' = TRUE => Shared!Next
  BY DEF Shared!Next, Shared!Report
<1>c. ASSUME NEW p \in Procs,
             NEW place \in Places, pc' = [pc EXCEPT ![p] = place]
      PROVE  stage' = [stage EXCEPT ![p] = Stage(place)]
  BY <1>c
<1>1. ASSUME NEW p \in Procs, Call(p) PROVE Shared!Call(p)
  BY <1>1, <1>c DEF Call, Shared!Call, Stage, Places, Waiting, history
<1>2. ASSUME NEW p \in Procs, TryOpen(p) \/ Stat(p) \/ Steal(p) \/ Read(p)
      PROVE  Hidden /\ Said
  <2>1. ASSUME NEW place \in Waiting \cup {"read", "write"},
               pc[p] \in Waiting \cup {"read", "write"},
               pc' = [pc EXCEPT ![p] = place]
        PROVE  stage' = stage
    BY <2>1, <1>c DEF Stage, Places, Waiting
  <2> QED
    BY <1>2, <2>1 DEF TryOpen, Stat, Log, Steal, Read, Waiting, history
<1>3. ASSUME NEW p \in Procs, Write(p) PROVE Shared!Apply(p)
  <2>1. stage[p] = "called" /\ stage' = [stage EXCEPT ![p] = "settled"]
    BY <1>3, <1>c DEF Write, Stage, Places, Waiting
  <2>2. file' = [view[p] EXCEPT ![p] = calls[p]] /\ UNCHANGED <<calls, logged>>
    BY <1>3 DEF Write
  <2>3. CASE logged
    <3>1. file' \in [Procs -> Nat] /\ file'[p] = calls[p]
      BY <2>2
    <3>2. \A q \in Procs : file'[q] <= calls[q]
      BY <2>2 DEF NothingInvented
    <3> QED
      BY <2>1, <2>2, <2>3, <3>1, <3>2 DEF Shared!Apply
  <2>4. CASE ~logged
    <3>1. view[p] = file
      BY <1>3, <2>4 DEF Write, NoLostUpdate
    <3> QED
      BY <2>1, <2>2, <2>4, <3>1 DEF Shared!Apply
  <2> QED
    BY <2>3, <2>4
<1>4. ASSUME NEW p \in Procs, Throw(p) PROVE Shared!Refuse(p)
  BY <1>4, <1>c DEF Throw, Shared!Refuse, Stage, Places, Waiting, history
<1>5. ASSUME NEW p \in Procs, Unlock(p) PROVE Shared!Return(p)
  BY <1>5, <1>c DEF Unlock, Shared!Return, Stage, Places, Waiting, history
<1>6. ASSUME NEW p \in Procs, Crash(p) PROVE Shared!Die(p)
  BY <1>6, <1>c DEF Crash, Shared!Die, Stage, Places, Waiting, Critical,
                    history
<1>7. ASSUME NEW p \in Procs, Deadline(p) PROVE Hidden /\ Said
  BY <1>7 DEF Deadline, history
<1>8. ASSUME Age \/ UNCHANGED vars PROVE Hidden /\ Said
  BY <1>8 DEF Age, vars, history
<1> HIDE DEF Hidden
<1> QED
  BY <1>a, <1>b, <1>1, <1>2, <1>3, <1>4, <1>5, <1>6, <1>7, <1>8
  DEF Next, Step, Shared!Next

(* updateState is an atomic update of the state on disk, until a process   *)
(* reports that it went ahead without exclusivity.                         *)
THEOREM UpdateStateIsAtomic == Spec => UpdatesAreAtomic
  BY InitRefines, StepRefines, Invariance, PTL
  DEF Spec, UpdatesAreAtomic, Shared!Spec

-----------------------------------------------------------------------------
(* The reload. *)

Built == [ver : Nat, tunnel : BOOLEAN, module : BOOLEAN, build : Nat]
Ask == [by : {"api", "hup"}, since : Nat]
Building == [on : {TRUE}, gen : Nat, of : File]

(* The types the arguments below need. *)
TypeInv ==
  /\ disk \in File
  /\ dir \in File
  /\ plugs \in Built
  /\ gen \in Nat
  /\ failures \in Nat
  /\ chain \in Seq(Ask)
  /\ build \in Building \cup {Idle}

(* Nothing in force or under way is newer than the file, and the plugins   *)
(* are never ahead of the directory.                                       *)
Behind ==
  /\ dir.ver <= disk.ver
  /\ plugs.ver <= dir.ver
  /\ \A k \in DOMAIN chain : chain[k].since <= disk.ver

(* A reload under way is the first of the chain, of a snapshot taken when  *)
(* that one had been asked for; the generation tells whether anything was  *)
(* taken on since.                                                         *)
Fenced ==
  build.on =>
    /\ chain # <<>>
    /\ build.gen <= gen
    /\ build.of.ver <= disk.ver
    /\ chain[1].since <= build.of.ver
    /\ build.gen = gen => dir.ver <= build.of.ver

ReloadInv == TypeInv /\ Behind /\ Fenced

-----------------------------------------------------------------------------
(* What the operators return. *)

LEMMA ChangedType ==
  ASSUME NEW f \in File, NEW switch \in Switches
  PROVE  Changed(f, switch) \in File /\ Changed(f, switch).ver = f.ver + 1
BY DEF File, Changed

LEMMA SetType ==
  ASSUME NEW f \in File, NEW n \in Nat
  PROVE  Set(f, n) \in Built /\ Set(f, n).ver = f.ver
BY DEF Set, File, Built

LEMMA SnapshotType ==
  ASSUME TypeInv
  PROVE  Snapshot \in Building /\ Snapshot.on /\ Snapshot.gen = gen /\ Snapshot.of = disk
BY DEF TypeInv, Snapshot, Building

LEMMA BuildingType ==
  ASSUME TypeInv, build.on
  PROVE  build \in Building /\ build.gen \in Nat /\ build.of \in File /\ build.of.ver \in Nat
<1>1. build # Idle
  <2>1. ~Idle.on
    BY DEF Idle
  <2> QED BY <2>1
<1>2. build \in Building
  BY <1>1 DEF TypeInv
<1>3. build.gen \in Nat /\ build.of \in File
  BY <1>2 DEF Building
<1> QED BY <1>2, <1>3 DEF File

(* One more reload at the end of the chain. *)
LEMMA AskedLast ==
  ASSUME ReloadInv, NEW by \in {"api", "hup"},
         chain' = Append(chain, [by |-> by, since |-> disk.ver]),
         UNCHANGED <<disk, dir, plugs, gen, failures, build>>
  PROVE  ReloadInv'
<1> DEFINE a == [by |-> by, since |-> disk.ver]
<1>0. disk.ver \in Nat
  BY DEF ReloadInv, TypeInv, File
<1>1. a \in Ask /\ a.since = disk.ver
  BY <1>0 DEF Ask
<1> HIDE DEF a
<1>2. chain \in Seq(Ask) /\ chain' = Append(chain, a)
  BY DEF ReloadInv, TypeInv, a
<1>3. /\ chain' \in Seq(Ask)
      /\ Len(chain') = Len(chain) + 1
      /\ \A k \in 1..Len(chain) : chain'[k] = chain[k]
      /\ chain'[Len(chain) + 1] = a
  BY <1>1, <1>2
<1>4. Behind'
  BY <1>0, <1>1, <1>2, <1>3 DEF ReloadInv, Behind
<1>5. chain # <<>> => chain' # <<>> /\ chain'[1] = chain[1]
  BY <1>2, <1>3
<1>6. Fenced'
  BY <1>5 DEF ReloadInv, Fenced
<1> QED BY <1>3, <1>4, <1>6 DEF ReloadInv, TypeInv

(* The first of the chain is through. *)
LEMMA FirstIsThrough ==
  ASSUME TypeInv, Behind, chain # <<>>, chain' = Tail(chain), disk' = disk
  PROVE  /\ chain' \in Seq(Ask)
         /\ \A k \in DOMAIN chain' : chain'[k].since <= disk.ver
<1>1. chain \in Seq(Ask)
  BY DEF TypeInv
<1>2. /\ chain' \in Seq(Ask)
      /\ Len(chain') = Len(chain) - 1
      /\ \A k \in 1..Len(chain') : chain'[k] = chain[k + 1] /\ k + 1 \in DOMAIN chain
  BY <1>1
<1> QED BY <1>2 DEF Behind

-----------------------------------------------------------------------------
(* The invariant. *)

LEMMA InitReload == RuntimeInit => ReloadInv
<1> SUFFICES ASSUME RuntimeInit PROVE ReloadInv
  OBVIOUS
<1>1. disk \in File /\ disk.ver = 0
  BY DEF RuntimeInit, File
<1>2. plugs \in Built /\ plugs.ver = 0
  BY <1>1, SetType DEF RuntimeInit
<1>3. ~build.on /\ build = Idle /\ chain = <<>>
  BY DEF RuntimeInit, Idle
<1> QED BY <1>1, <1>2, <1>3 DEF RuntimeInit, ReloadInv, TypeInv, Behind, Fenced

LEMMA StepReload == ReloadInv /\ [RuntimeNext]_runtimeVars => ReloadInv'
<1> SUFFICES ASSUME ReloadInv, [RuntimeNext]_runtimeVars PROVE ReloadInv'
  OBVIOUS
<1> USE DEF ReloadInv
<1>0. /\ disk.ver \in Nat /\ dir.ver \in Nat /\ plugs.ver \in Nat
      /\ plugs.build \in Nat /\ gen \in Nat
      /\ \A k \in DOMAIN chain : chain[k].since \in Nat
      /\ chain # <<>> => 1 \in DOMAIN chain
  <2>1. disk.ver \in Nat /\ dir.ver \in Nat
    BY DEF TypeInv, File
  <2>2. plugs.ver \in Nat /\ plugs.build \in Nat
    BY DEF TypeInv, Built
  <2>3. \A k \in DOMAIN chain : chain[k] \in Ask
    BY DEF TypeInv
  <2>4. \A k \in DOMAIN chain : chain[k].since \in Nat
    BY <2>3 DEF Ask
  <2>5. chain # <<>> => 1 \in DOMAIN chain
    BY DEF TypeInv
  <2> QED BY <2>1, <2>2, <2>4, <2>5 DEF TypeInv
<1>1. ASSUME NEW switch \in Switches, Command(switch) PROVE ReloadInv'
  <2>1. disk' \in File /\ disk'.ver = disk.ver + 1
    BY <1>1, ChangedType DEF Command, TypeInv
  <2>2. TypeInv'
    BY <1>1, <2>1 DEF Command, TypeInv, serveVars, reloadVars
  <2>3. Behind'
    BY <1>0, <1>1, <2>1 DEF Command, Behind, serveVars, reloadVars
  <2>4. Fenced'
    BY <1>0, <1>1, <2>1, BuildingType DEF Command, Fenced, serveVars, reloadVars
  <2> QED BY <2>2, <2>3, <2>4
<1>2. ASSUME NEW switch \in Switches, ApplyChange(switch) PROVE ReloadInv'
  <2>1. disk' \in File /\ disk'.ver = disk.ver + 1
    BY <1>2, ChangedType DEF ApplyChange, TypeInv
  <2>2. dir' = disk' /\ gen' = gen + 1
    BY <1>2 DEF ApplyChange, Adopt
  <2>3. UNCHANGED <<plugs, chain, build, failures>>
    BY <1>2 DEF ApplyChange, reloadVars
  <2>4. TypeInv'
    BY <1>0, <2>1, <2>2, <2>3 DEF TypeInv
  <2>5. Behind'
    BY <1>0, <2>1, <2>2, <2>3 DEF Behind
  <2>6. Fenced'
    BY <1>0, <2>1, <2>2, <2>3, BuildingType DEF Fenced
  <2> QED BY <2>4, <2>5, <2>6
<1>3. ASSUME AskReload PROVE ReloadInv'
  BY <1>3, AskedLast DEF AskReload, fileVars, serveVars
<1>4. ASSUME HangUp PROVE ReloadInv'
  <2>1. UNCHANGED <<disk, dir, plugs, gen, failures, build>>
    BY <1>4 DEF HangUp, serveVars
  <2>2. CASE Reloading
    <3>1. chain' = chain
      BY <1>4, <2>2 DEF HangUp
    <3> QED BY <2>1, <3>1 DEF TypeInv, Behind, Fenced
  <2>3. CASE ~Reloading
    <3>1. chain' = Append(chain, [by |-> "hup", since |-> disk.ver])
      BY <1>4, <2>3 DEF HangUp
    <3> QED BY <2>1, <3>1, AskedLast
  <2> QED BY <2>2, <2>3
<1>5. ASSUME StartReload \/ Rebuild PROVE ReloadInv'
  <2>1. build' = Snapshot /\ UNCHANGED <<disk, dir, plugs, gen, chain, failures>>
    BY <1>5 DEF StartReload, Rebuild, fileVars, serveVars
  <2>2. chain # <<>>
    BY <1>5 DEF StartReload, Rebuild, Fenced
  <2>3. TypeInv'
    BY <2>1, SnapshotType DEF TypeInv
  <2>4. Behind'
    BY <2>1 DEF Behind
  <2>5. 1 \in DOMAIN chain
    BY <2>2 DEF TypeInv
  <2>6. Fenced'
    BY <1>0, <2>1, <2>2, <2>5, SnapshotType DEF Fenced, Behind
  <2> QED BY <2>3, <2>4, <2>6
<1>6. ASSUME Commit PROVE ReloadInv'
  <2>1. /\ build.on /\ build.gen = gen
        /\ dir' = build.of /\ gen' = gen + 1
        /\ plugs' = Set(build.of, plugs.build + 1)
        /\ chain' = Tail(chain) /\ build' = Idle
        /\ UNCHANGED <<disk, failures>>
    BY <1>6 DEF Commit, Overtaken, Adopt, fileVars
  <2>2. /\ build.of \in File /\ build.of.ver <= disk.ver /\ chain # <<>>
    BY <2>1, BuildingType DEF Fenced
  <2>3. plugs' \in Built /\ plugs'.ver = build.of.ver
    BY <1>0, <2>1, <2>2, SetType
  <2>4. /\ chain' \in Seq(Ask)
        /\ \A k \in DOMAIN chain' : chain'[k].since <= disk.ver
    BY <2>1, <2>2, FirstIsThrough
  <2>5. TypeInv'
    BY <1>0, <2>1, <2>2, <2>3, <2>4 DEF TypeInv
  <2>6. build.of.ver \in Nat
    BY <2>2 DEF File
  <2>7. Behind'
    BY <1>0, <2>1, <2>2, <2>3, <2>4, <2>6 DEF Behind
  <2>8. Fenced'
    BY <2>1 DEF Fenced, Idle
  <2> QED BY <2>5, <2>7, <2>8
<1>7. ASSUME Fail PROVE ReloadInv'
  <2>1. /\ build.on
        /\ failures' = failures + 1
        /\ chain' = Tail(chain) /\ build' = Idle
        /\ UNCHANGED <<disk, dir, plugs, gen>>
    BY <1>7 DEF Fail, fileVars
  <2>2. chain # <<>>
    BY <2>1 DEF Fenced
  <2>3. /\ chain' \in Seq(Ask)
        /\ \A k \in DOMAIN chain' : chain'[k].since <= disk.ver
    BY <2>1, <2>2, FirstIsThrough
  <2>4. TypeInv'
    BY <2>1, <2>3 DEF TypeInv
  <2>5. Behind'
    BY <2>1, <2>3 DEF Behind
  <2>6. Fenced'
    BY <2>1 DEF Fenced, Idle
  <2> QED BY <2>4, <2>5, <2>6
<1>8. ASSUME UNCHANGED <<disk, dir, plugs, gen, chain, build, failures>>
      PROVE ReloadInv'
  BY <1>8 DEF TypeInv, Behind, Fenced
<1>9. ASSUME NEW n, Stop(n) \/ End(n) PROVE ReloadInv'
  BY <1>8, <1>9 DEF Stop, End, fileVars, serveVars, reloadVars
<1>10. ASSUME NEW r, Dispatch(r) \/ \E grant \in BOOLEAN : Arrive(r, grant)
       PROVE ReloadInv'
  BY <1>8, <1>10 DEF Dispatch, Arrive, fileVars, serveVars, reloadVars
<1>11. CASE UNCHANGED runtimeVars
  BY <1>8, <1>11 DEF runtimeVars, fileVars, serveVars, reloadVars
<1> QED
  BY <1>1, <1>2, <1>3, <1>4, <1>5, <1>6, <1>7, <1>9, <1>10, <1>11 DEF RuntimeNext

(* Whatever is under way is of the file as it was when its reload was      *)
(* asked for or later, and the generation fences off anything older than   *)
(* what serves (doReload, applyReload and applyChange of bin/hail.js).     *)
THEOREM ReloadsAreFenced == RuntimeSpec => []ReloadInv
<1> QED BY InitReload, StepReload, PTL DEF RuntimeSpec
-----------------------------------------------------------------------------
(* Which steps change what is in force. *)

LEMMA CommitServes ==
  ASSUME ReloadInv, Commit
  PROVE  /\ dir' = build.of
         /\ plugs'.ver = build.of.ver
         /\ known' = Merged(plugs', dir')
         /\ failures' = failures
         /\ dir.ver <= build.of.ver /\ plugs.ver <= build.of.ver
         /\ chain # <<>> /\ chain[1].since <= build.of.ver
<1>1. /\ build.on /\ build.gen = gen
      /\ dir' = build.of
      /\ plugs' = Set(build.of, plugs.build + 1)
      /\ failures' = failures
  BY DEF Commit, Overtaken, Adopt
<1>2. known' = Merged(plugs', dir')
  BY <1>1 DEF Commit, UseProfiles
<1>3. build.of \in File /\ build.of.ver \in Nat
  BY <1>1, BuildingType DEF ReloadInv
<1>4. plugs.build + 1 \in Nat /\ plugs.ver \in Nat /\ dir.ver \in Nat
  BY DEF ReloadInv, TypeInv, Built, File
<1>5. plugs'.ver = build.of.ver
  BY <1>1, <1>3, <1>4, SetType
<1> QED BY <1>1, <1>2, <1>3, <1>4, <1>5 DEF ReloadInv, Behind, Fenced

(* Every other step but a page's change leaves the directory and the       *)
(* plugins, and no other one takes a reload off the chain without failing. *)
LEMMA OthersServe ==
  ASSUME ReloadInv, [RuntimeNext]_runtimeVars, ~Commit,
         ~\E switch \in Switches : ApplyChange(switch)
  PROVE  /\ dir' = dir /\ plugs' = plugs
         /\ \/ known' = known /\ failures' = failures
            \/ failures' = failures + 1
         /\ chain # <<>> /\ failures' = failures => chain' # Tail(chain)
<1>0. chain \in Seq(Ask) /\ failures \in Nat
  BY DEF ReloadInv, TypeInv
<1>1. chain # <<>> => chain # Tail(chain)
  BY <1>0
<1>2. ASSUME NEW a, chain' = Append(chain, a), chain # <<>> PROVE chain' # Tail(chain)
  <2>1. Len(chain') = Len(chain) + 1 /\ Len(Tail(chain)) = Len(chain) - 1
    BY <1>0, <1>2
  <2> QED BY <2>1, <1>0
<1>3. ASSUME NEW switch \in Switches, Command(switch)
      PROVE  UNCHANGED <<dir, plugs, known, failures, chain>>
  BY <1>3 DEF Command, serveVars, reloadVars
<1>4. CASE AskReload
  BY <1>2, <1>4 DEF AskReload, serveVars
<1>5. CASE HangUp
  <2>1. UNCHANGED <<dir, plugs, known, failures>>
    BY <1>5 DEF HangUp, serveVars
  <2>2. chain # <<>> => chain' # Tail(chain)
    BY <1>1, <1>2, <1>5 DEF HangUp
  <2> QED BY <2>1, <2>2
<1>6. CASE StartReload \/ Rebuild
  BY <1>1, <1>6 DEF StartReload, Rebuild, serveVars
<1>7. CASE Fail
  BY <1>0, <1>7 DEF Fail
<1>8. ASSUME NEW n, Stop(n) \/ End(n)
      PROVE  UNCHANGED <<dir, plugs, known, failures, chain>>
  BY <1>8 DEF Stop, End, serveVars, reloadVars
<1>9. ASSUME NEW r, Dispatch(r) \/ \E grant \in BOOLEAN : Arrive(r, grant)
      PROVE  UNCHANGED <<dir, plugs, known, failures, chain>>
  BY <1>9 DEF Dispatch, Arrive, serveVars, reloadVars
<1>10. CASE UNCHANGED runtimeVars
  BY <1>1, <1>10 DEF runtimeVars, serveVars, reloadVars
<1> QED
  BY <1>1, <1>3, <1>4, <1>5, <1>6, <1>7, <1>8, <1>9, <1>10 DEF RuntimeNext

-----------------------------------------------------------------------------
(* The properties. *)

(* doReload()'s fence: neither the directory nor the plugins in force ever *)
(* go back to an older state of the file.                                  *)
THEOREM NeverGoesBackHolds == RuntimeSpec => NeverGoesBack
<1>1. ReloadInv /\ [RuntimeNext]_runtimeVars => [dir'.ver >= dir.ver /\ plugs'.ver >= plugs.ver]_runtimeVars
  <2> SUFFICES ASSUME ReloadInv, [RuntimeNext]_runtimeVars
      PROVE  dir'.ver >= dir.ver /\ plugs'.ver >= plugs.ver
    OBVIOUS
  <2>0. disk.ver \in Nat /\ dir.ver \in Nat /\ plugs.ver \in Nat
    BY DEF ReloadInv, TypeInv, File, Built
  <2>1. CASE Commit
    <3>1. /\ dir' = build.of /\ plugs'.ver = build.of.ver
          /\ dir.ver <= build.of.ver /\ plugs.ver <= build.of.ver
      BY <2>1, CommitServes
    <3>2. build.of.ver \in Nat
      BY <2>1, BuildingType DEF Commit, ReloadInv
    <3> QED BY <2>0, <3>1, <3>2
  <2>2. ASSUME NEW switch \in Switches, ApplyChange(switch)
        PROVE  dir'.ver >= dir.ver /\ plugs'.ver >= plugs.ver
    <3>1. dir' = disk' /\ disk'.ver = disk.ver + 1 /\ plugs' = plugs
      BY <2>2, ChangedType DEF ApplyChange, Adopt, ReloadInv, TypeInv
    <3> QED BY <2>0, <3>1 DEF ReloadInv, Behind
  <2>3. CASE ~Commit /\ ~\E switch \in Switches : ApplyChange(switch)
    <3>1. dir' = dir /\ plugs' = plugs
      BY <2>3, OthersServe
    <3> QED BY <2>0, <3>1
  <2> QED BY <2>1, <2>2, <2>3
<1> QED BY <1>1, ReloadsAreFenced, PTL DEF RuntimeSpec, NeverGoesBack

(* applyReload() answers when what the file said at the time of asking is  *)
(* in force, plugins and directory of one version, or with an error.       *)
THEOREM AnsweredIsInForceHolds == RuntimeSpec => AnsweredIsInForce
<1> DEFINE Answer == chain # <<>> /\ chain' = Tail(chain) /\ failures' = failures
           InForce == dir'.ver >= chain[1].since /\ plugs'.ver = dir'.ver
<1>1. ReloadInv /\ [RuntimeNext]_runtimeVars => [Answer => InForce]_runtimeVars
  <2> SUFFICES ASSUME ReloadInv, [RuntimeNext]_runtimeVars, Answer PROVE InForce
    OBVIOUS
  <2>1. CASE Commit
    <3>1. /\ dir' = build.of /\ plugs'.ver = build.of.ver
          /\ chain # <<>> /\ chain[1].since <= build.of.ver
      BY <2>1, CommitServes
    <3>2. build.of.ver \in Nat
      BY <2>1, BuildingType DEF Commit, ReloadInv
    <3>3. chain[1].since \in Nat
      <4>1. chain[1] \in Ask
        BY <3>1 DEF ReloadInv, TypeInv
      <4> QED BY <4>1 DEF Ask
    <3> QED BY <3>1, <3>2, <3>3
  <2>2. ASSUME NEW switch \in Switches, ApplyChange(switch) PROVE FALSE
    <3>1. chain' = chain
      BY <2>2 DEF ApplyChange, reloadVars
    <3> QED BY <3>1 DEF ReloadInv, TypeInv
  <2>3. Commit \/ \E switch \in Switches : ApplyChange(switch)
    BY OthersServe
  <2> QED BY <2>1, <2>2, <2>3
<1> QED BY <1>1, ReloadsAreFenced, PTL DEF RuntimeSpec, AnsweredIsInForce

(* While no reload has failed, the profiles in force are those of the      *)
(* plugins that serve and of the file the directory took on.               *)
THEOREM ProfilesAgreeHolds == RuntimeSpec => []ProfilesAgree
<1>1. RuntimeInit => ProfilesAgree
  BY DEF RuntimeInit, ProfilesAgree
<1>2. ReloadInv /\ ProfilesAgree /\ [RuntimeNext]_runtimeVars => ProfilesAgree'
  <2> SUFFICES ASSUME ReloadInv, ProfilesAgree, [RuntimeNext]_runtimeVars PROVE ProfilesAgree'
    OBVIOUS
  <2>0. failures \in Nat
    BY DEF ReloadInv, TypeInv
  <2>1. CASE Commit
    <3>1. known' = Merged(plugs', dir')
      BY <2>1, CommitServes
    <3> QED BY <3>1 DEF ProfilesAgree, Merged, Suggested
  <2>2. ASSUME NEW switch \in Switches, ApplyChange(switch) PROVE ProfilesAgree'
    <3>1. known' = Merged(plugs', dir')
      BY <2>2 DEF ApplyChange, UseProfiles, Adopt
    <3> QED BY <3>1 DEF ProfilesAgree, Merged, Suggested
  <2>3. CASE ~Commit /\ ~\E switch \in Switches : ApplyChange(switch)
    <3>1. /\ dir' = dir /\ plugs' = plugs
          /\ \/ known' = known /\ failures' = failures
             \/ failures' = failures + 1
      BY <2>3, OthersServe
    <3>2. CASE known' = known /\ failures' = failures
      BY <3>1, <3>2 DEF ProfilesAgree, Merged, Suggested
    <3>3. CASE failures' = failures + 1
      BY <2>0, <3>3 DEF ProfilesAgree
    <3> QED BY <3>1, <3>2, <3>3
  <2> QED BY <2>1, <2>2, <2>3
<1> QED BY <1>1, <1>2, ReloadsAreFenced, PTL DEF RuntimeSpec

=============================================================================
