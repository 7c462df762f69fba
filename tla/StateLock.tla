------------------------------ MODULE StateLock ------------------------------
(***************************************************************************)
(* The lock on directory.json: withStateLock and updateState (state.js).   *)
(*                                                                         *)
(* CLI commands and the daemon are processes of one machine that share the *)
(* file and a lock file beside it.  Each step below is one system call, or *)
(* the synchronous code between two of them.  The lock file is empty: what *)
(* a process can learn of it is that it exists and how old it is.          *)
(***************************************************************************)
EXTENDS Naturals

CONSTANTS
  Procs,     \* processes that update the file
  MaxCalls   \* bound: calls of updateState per process

ASSUME MaxCallsAssumption == MaxCalls \in Nat

VARIABLES
  file,    \* file[p]: the last change of p that the state on disk holds
  lock,    \* the lock file: none, or one younger or older than LOCK_STALE_MS
  pc,      \* where p is in updateState
  calls,   \* calls[p]: calls made by p; the change of a call is its number
  view,    \* view[p]: the state p read inside the critical section
  late,    \* late[p]: p has waited past its deadline
  logged,  \* history: some process has logged a steal or a give-up
  acked    \* history: acked[p] is the last change p wrote

history == <<logged, acked>>
vars == <<file, lock, pc, calls, view, late, history>>

Places == {"idle", "open", "stat", "steal", "read", "write", "unlock", "dead"}
Waiting == {"open", "stat", "steal"}
Critical == {"read", "write", "unlock"}
Inside == {p \in Procs : pc[p] \in Critical}

TypeOK ==
  /\ file \in [Procs -> Nat]
  /\ lock \in {"none", "fresh", "stale"}
  /\ pc \in [Procs -> Places]
  /\ calls \in [Procs -> Nat]
  /\ view \in [Procs -> [Procs -> Nat]]
  /\ late \in [Procs -> BOOLEAN]
  /\ logged \in BOOLEAN
  /\ acked \in [Procs -> Nat]

Nothing == [p \in Procs |-> 0]

Init ==
  /\ file = Nothing
  /\ lock = "none"
  /\ pc = [p \in Procs |-> "idle"]
  /\ calls = Nothing
  /\ view = [p \in Procs |-> Nothing]
  /\ late = [p \in Procs |-> FALSE]
  /\ logged = FALSE
  /\ acked = Nothing

Goto(p, place) == pc' = [pc EXCEPT ![p] = place]

Log == logged' = TRUE

-----------------------------------------------------------------------------
(* Plausible bugs; the properties below tell each from the code. *)

(* openSync with "w": an existing lock file is opened, not refused.        *)
TryOpenW(p) ==
  /\ pc[p] = "open"
  /\ lock' = "fresh"
  /\ Goto(p, "read")
  /\ UNCHANGED <<file, calls, view, late, history>>

(* A stale lock is not stolen and the deadline not looked at.              *)
StatPatient(p) ==
  /\ pc[p] = "stat"
  /\ Goto(p, "open")
  /\ UNCHANGED <<file, lock, calls, view, late, history>>

(* The steal is not logged.                                                *)
StatSilent(p) ==
  /\ pc[p] = "stat"
  /\ \/ lock = "none" /\ Goto(p, "open")
     \/ lock = "stale" /\ Goto(p, "steal")
     \/ lock = "fresh" /\ late[p] /\ Goto(p, "read")
     \/ lock = "fresh" /\ ~late[p] /\ Goto(p, "open")
  /\ UNCHANGED <<file, lock, calls, view, late, history>>

-----------------------------------------------------------------------------
(* withStateLock. *)

Call(p) ==
  /\ pc[p] = "idle"
  /\ calls[p] < MaxCalls
  /\ calls' = [calls EXCEPT ![p] = @ + 1]
  /\ late' = [late EXCEPT ![p] = FALSE]
  /\ Goto(p, "open")
  /\ UNCHANGED <<file, lock, view, history>>

(* openSync(lockPath, "wx"): create the lock file, or fail with EEXIST.    *)
TryOpen(p) ==
  /\ pc[p] = "open"
  /\ \/ /\ lock = "none"
        /\ lock' = "fresh"
        /\ Goto(p, "read")
     \/ lock # "none" /\ Goto(p, "stat") /\ UNCHANGED lock
  /\ UNCHANGED <<file, calls, view, late, history>>

(* Look at the lock that is there now, and decide: gone, try again; stale, *)
(* say so and steal it; past the deadline, say so and go ahead without it; *)
(* otherwise sleep LOCK_RETRY_MS and try again.                            *)
Stat(p) ==
  /\ pc[p] = "stat"
  /\ \/ lock = "none" /\ Goto(p, "open") /\ UNCHANGED logged
     \/ lock = "stale" /\ Goto(p, "steal") /\ Log
     \/ lock = "fresh" /\ late[p] /\ Goto(p, "read") /\ Log
     \/ /\ lock = "fresh"
        /\ ~late[p]
        /\ Goto(p, "open")
        /\ UNCHANGED logged
  /\ UNCHANGED <<file, lock, calls, view, late, acked>>

(* rmSync(lockPath, {force: true}) removes whichever lock is there by now. *)
Steal(p) ==
  /\ pc[p] = "steal"
  /\ lock' = "none"
  /\ Goto(p, "open")
  /\ UNCHANGED <<file, calls, view, late, history>>

(* finally: the lock file goes, whoever created it.                        *)
Unlock(p) ==
  /\ pc[p] = "unlock"
  /\ lock' = "none"
  /\ Goto(p, "idle")
  /\ UNCHANGED <<file, calls, view, late, history>>

-----------------------------------------------------------------------------
(* The change updateState makes under the lock. *)

Read(p) ==
  /\ pc[p] = "read"
  /\ view' = [view EXCEPT ![p] = file]
  /\ Goto(p, "write")
  /\ UNCHANGED <<file, lock, calls, late, history>>

(* mutate and saveState: the temporary file is named after the process and *)
(* renamed over the target, so others see all of the write or none.        *)
Write(p) ==
  /\ pc[p] = "write"
  /\ file' = [view[p] EXCEPT ![p] = calls[p]]
  /\ acked' = [acked EXCEPT ![p] = calls[p]]
  /\ Goto(p, "unlock")
  /\ UNCHANGED <<lock, calls, view, late, logged>>

(* mutate or the write throws: finally still removes the lock.             *)
Throw(p) ==
  /\ pc[p] = "write"
  /\ Goto(p, "unlock")
  /\ UNCHANGED <<file, lock, calls, view, late, history>>

-----------------------------------------------------------------------------
(* The environment: crashes, and time that passes at any speed relative to *)
(* the processes, one of which may be suspended for as long as it likes.   *)

Crash(p) ==
  /\ pc[p] \in Waiting \cup Critical
  /\ Goto(p, "dead")
  /\ UNCHANGED <<file, lock, calls, view, late, history>>

Age ==
  /\ lock = "fresh"
  /\ lock' = "stale"
  /\ UNCHANGED <<file, pc, calls, view, late, history>>

Deadline(p) ==
  /\ pc[p] \in Waiting
  /\ ~late[p]
  /\ late' = [late EXCEPT ![p] = TRUE]
  /\ UNCHANGED <<file, lock, pc, calls, view, history>>

Step(p) ==
  \/ TryOpen(p) \/ Stat(p) \/ Steal(p)
  \/ Read(p) \/ Write(p) \/ Throw(p) \/ Unlock(p)

Next ==
  \/ \E p \in Procs : Call(p) \/ Step(p) \/ Crash(p) \/ Deadline(p)
  \/ Age

Spec == Init /\ [][Next]_vars

(* A process that is not dead runs on, the loop being synchronous, and     *)
(* time passes.                                                            *)
FairSpec ==
  /\ Spec
  /\ \A p \in Procs : WF_vars(Step(p)) /\ WF_vars(Deadline(p))
  /\ WF_vars(Age)

-----------------------------------------------------------------------------
(* Properties. *)

(* Exclusivity is lost only once a process has logged that it stole a lock *)
(* or gave up waiting: until then at most one process is between acquiring *)
(* and releasing, and the lock file stands for it (state.js 138-142).      *)
LossIsAnnounced ==
  ~logged =>
    /\ \A p, q \in Inside : p = q
    /\ Inside # {} => lock # "none"

(* Until then no update is lost: the file holds the last change each       *)
(* process wrote, and a process about to write read that same file inside  *)
(* the lock, "rather than whatever this process happened to load minutes   *)
(* ago" (state.js 129-131, 195-197).                                       *)
NoLostUpdate ==
  ~logged =>
    /\ file = acked
    /\ \A p \in Procs : pc[p] = "write" => view[p] = file

(* Nobody waits forever: not behind a dead process's lock, nor behind a    *)
(* crowd.  Every call of a process that lives on comes back.               *)
EveryCallReturns ==
  \A p \in Procs : pc[p] \in Waiting \cup Critical ~> pc[p] \in {"idle", "dead"}

(* updateState implements an atomic update of the shared state, up to the  *)
(* first report of a loss of exclusivity.                                  *)
Stage(place) ==
  IF place \in Waiting \cup {"read", "write"} THEN "called"
  ELSE IF place = "unlock" THEN "settled" ELSE place
Shared == INSTANCE SharedState WITH
  stage <- [p \in Procs |-> Stage(pc[p])], reported <- logged
UpdatesAreAtomic == Shared!Spec

=============================================================================
