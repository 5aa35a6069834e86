---------------------------- MODULE RequestLock ----------------------------
(***************************************************************************)
(* The lock file of one request: withRequestLock of                        *)
(* repository-custody/store.js, and withLock of repository-lifecycle/      *)
(* store.js, which differs in its words only.  The file holds the pid of   *)
(* the process and a token of the call; a lock of a process that is not    *)
(* alive is removed.                                                       *)
(* Taking the lock is several system calls.  They are synchronous, so      *)
(* other calls of the same process wait, but other processes do not.       *)
(* A process that is killed leaves the file; its replacement runs under    *)
(* any pid that is free, the old one included (the service is process 1    *)
(* of its container).                                                      *)
(***************************************************************************)
EXTENDS Integers, FiniteSets, TLAPS

CONSTANTS Processes,  \* service processes that share a state root
          Calls,      \* calls of transact or put for the one request
          Of,         \* the process of each call
          Pids        \* process ids the system gives out

NoCall == "none"

ASSUME LockAssumption ==
    /\ Of \in [Calls -> Processes]
    /\ Pids \subseteq Nat \ {0}
    /\ NoCall \notin Calls

VARIABLES
    pid,   \* per process: its pid, 0 while it does not run
    file,  \* the lock file: whose open created it, and the pid written to it
    at     \* per call: its place in withRequestLock

vars == <<pid, file, at>>

Absent == [by |-> NoCall, pid |-> 0]
Present == file.by # NoCall
Alive(n) == \E p \in Processes : pid[p] = n /\ n # 0

(* A process that is between two system calls of the lock runs nothing     *)
(* else.                                                                   *)
Synchronous == {"found", "dead", "clear", "opened", "matched"}
MayRun(c) ==
    /\ pid[Of[c]] # 0
    /\ \A d \in Calls \ {c} : Of[d] = Of[c] => at[d] \notin Synchronous

Goto(c, place) == at' = [at EXCEPT ![c] = place]

-----------------------------------------------------------------------------
(* withRequestLock.                                                        *)

(* existsSync.                                                             *)
Look(c) ==
    /\ at[c] = "idle" /\ MayRun(c)
    /\ Goto(c, IF Present THEN "found" ELSE "clear")
    /\ UNCHANGED <<pid, file>>

(* Mutant: a lock of another call of the same process is not alive.        *)
ReadHolderOfOthers(c) ==
    /\ at[c] = "found" /\ MayRun(c)
    /\ Goto(c, IF Alive(file.pid) /\ file.pid # pid[Of[c]] THEN "idle" ELSE "dead")
    /\ UNCHANGED <<pid, file>>

(* readLock and processAlive: busy while the holder lives.  A file that is *)
(* empty or gone reads as {}, which is nobody alive.                       *)
ReadHolder(c) ==
    /\ at[c] = "found" /\ MayRun(c)
    /\ Goto(c, IF Alive(file.pid) THEN "idle" ELSE "dead")
    /\ UNCHANGED <<pid, file>>

(* unlinkSync, which throws when the file has gone.                        *)
RemoveDead(c) ==
    /\ at[c] = "dead" /\ MayRun(c)
    /\ Goto(c, IF Present THEN "clear" ELSE "idle")
    /\ file' = Absent
    /\ UNCHANGED pid

(* openSync with "wx": an existing file means busy.                        *)
Open(c) ==
    /\ at[c] = "clear" /\ MayRun(c)
    /\ IF Present THEN Goto(c, "idle") /\ UNCHANGED file
       ELSE Goto(c, "opened") /\ file' = [by |-> c, pid |-> 0]
    /\ UNCHANGED pid

(* Mutant: the operation starts before the pid is written.                 *)
WriteLater(c) ==
    /\ at[c] = "opened" /\ MayRun(c)
    /\ Goto(c, "holding")
    /\ UNCHANGED <<pid, file>>

(* writeFileSync to the descriptor; a file that was unlinked meanwhile is  *)
(* written unseen.  The operation runs from here.                          *)
Write(c) ==
    /\ at[c] = "opened" /\ MayRun(c)
    /\ Goto(c, "holding")
    /\ file' = IF file.by = c THEN [file EXCEPT !.pid = pid[Of[c]]] ELSE file
    /\ UNCHANGED pid

(* The write fails: release finds no token of its own and leaves the file. *)
WriteFails(c) ==
    /\ at[c] = "opened" /\ MayRun(c)
    /\ Goto(c, "idle")
    /\ UNCHANGED <<pid, file>>

(* release: the token is compared, then the file unlinked.                 *)
Release(c) ==
    /\ at[c] = "holding" /\ MayRun(c)
    /\ Goto(c, IF file.by = c /\ file.pid # 0 THEN "matched" ELSE "idle")
    /\ UNCHANGED <<pid, file>>

Unlink(c) ==
    /\ at[c] = "matched" /\ MayRun(c)
    /\ Goto(c, "idle")
    /\ file' = Absent
    /\ UNCHANGED pid

-----------------------------------------------------------------------------
(* The processes.                                                          *)

Stop(p) ==
    /\ pid[p] # 0
    /\ pid' = [pid EXCEPT ![p] = 0]
    /\ at' = [c \in Calls |-> IF Of[c] = p THEN "idle" ELSE at[c]]
    /\ UNCHANGED file

Start(p) ==
    /\ pid[p] = 0
    /\ \E n \in Pids : ~Alive(n) /\ pid' = [pid EXCEPT ![p] = n]
    /\ UNCHANGED <<file, at>>

Init ==
    /\ pid = [p \in Processes |-> 0]
    /\ file = Absent
    /\ at = [c \in Calls |-> "idle"]

Step(c) == \/ Look(c) \/ ReadHolder(c) \/ RemoveDead(c) \/ Open(c)
           \/ Write(c) \/ WriteFails(c) \/ Release(c) \/ Unlink(c)

Next == \/ \E c \in Calls : Step(c)
        \/ \E p \in Processes : Stop(p) \/ Start(p)

Spec == Init /\ [][Next]_vars

(* One service process per state root, as the service is deployed.         *)
OneProcess == \A c, d \in Calls : Of[c] = Of[d]

-----------------------------------------------------------------------------
(* Properties.                                                             *)

(* Types; a process that does not run has no calls.                        *)
TypeOK ==
    /\ pid \in [Processes -> Pids \cup {0}]
    /\ file \in [by : Calls \cup {NoCall}, pid : Pids \cup {0}]
    /\ at \in [Calls -> Synchronous \cup {"idle", "holding"}]
    /\ \A c \in Calls : pid[Of[c]] = 0 => at[c] = "idle"

(* The operation of one call runs at a time: journal and provider are      *)
(* never worked on by two.                                                 *)
MutualExclusion ==
    \A c, d \in Calls : at[c] = "holding" /\ at[d] = "holding" => c = d

(* While an operation runs its lock file is in place and names it, so that *)
(* every other call is refused.                                            *)
HolderKeepsItsLock ==
    \A c \in Calls : at[c] \in {"holding", "matched"} =>
        file = [by |-> c, pid |-> pid[Of[c]]]

(* The inductive invariant of one process: one call at a time is between   *)
(* two system calls, and none gets past a lock that is held.               *)
IInv ==
    /\ TypeOK /\ MutualExclusion /\ HolderKeepsItsLock
    /\ \A c, d \in Calls : at[c] \in Synchronous /\ at[d] \in Synchronous => c = d
    /\ \A c \in Calls : at[c] = "opened" => file.by = c
    /\ \A c \in Calls : at[c] = "clear" => ~Present
    /\ \A c, d \in Calls : at[c] \in {"dead", "clear", "opened", "matched"}
                           => at[d] # "holding"

-----------------------------------------------------------------------------
(* Proofs, for any number of calls, pids and restarts.                     *)

USE LockAssumption

(* A new service with no lock file satisfies the inductive invariant.      *)
LEMMA InitIsInductive == Init => IInv
  BY DEF Init, IInv, TypeOK, MutualExclusion, HolderKeepsItsLock, Synchronous,
         Absent, NoCall, Present

(* Every step of one process keeps the inductive invariant.                *)
LEMMA StepIsInductive == ASSUME OneProcess, IInv, [Next]_vars PROVE IInv'
  <1> USE DEF IInv, TypeOK, MutualExclusion, HolderKeepsItsLock, Synchronous,
              Present, Absent, Goto
  <1>1. ASSUME NEW c \in Calls, Look(c) PROVE IInv'
    BY <1>1 DEF Look, MayRun, OneProcess, NoCall
  <1>2. ASSUME NEW c \in Calls, ReadHolder(c) PROVE IInv'
    <2>1. ASSUME NEW d \in Calls, at[d] \in {"holding", "matched"}
          PROVE Alive(file.pid)
      BY <2>1 DEF Alive
    <2> QED
      BY <1>2, <2>1 DEF ReadHolder, MayRun, OneProcess
  <1>3. ASSUME NEW c \in Calls, RemoveDead(c) PROVE IInv'
    BY <1>3 DEF RemoveDead, MayRun, OneProcess
  <1>4. ASSUME NEW c \in Calls, Open(c) PROVE IInv'
    BY <1>4 DEF Open, MayRun, OneProcess
  <1>5. ASSUME NEW c \in Calls, Write(c) PROVE IInv'
    BY <1>5 DEF Write, MayRun, OneProcess
  <1>6. ASSUME NEW c \in Calls, Release(c) PROVE IInv'
    BY <1>6 DEF Release, MayRun, OneProcess
  <1>7. ASSUME NEW c \in Calls, Unlink(c) PROVE IInv'
    BY <1>7 DEF Unlink, MayRun, OneProcess
  <1>8. ASSUME NEW p \in Processes, Stop(p) PROVE IInv'
    BY <1>8 DEF Stop, OneProcess
  <1>9. ASSUME NEW p \in Processes, Start(p) PROVE IInv'
    BY <1>9 DEF Start, OneProcess
  <1>10. ASSUME NEW c \in Calls, WriteFails(c) PROVE IInv'
    BY <1>10 DEF WriteFails, MayRun, OneProcess
  <1>11. CASE UNCHANGED vars
    BY <1>11 DEF vars
  <1> QED
    BY <1>1, <1>2, <1>3, <1>4, <1>5, <1>6, <1>7, <1>8, <1>9, <1>10,
       <1>11
    DEF Next, Step

(* The inductive invariant holds in every state of one process.            *)
LEMMA InductiveInvariant == ASSUME OneProcess PROVE Spec => []IInv
  BY InitIsInductive, StepIsInductive, PTL DEF Spec

(* withRequestLock: in one process at most one operation on a request runs *)
(* at a time, across any restarts.                                         *)
THEOREM LockExcludes == ASSUME OneProcess PROVE Spec => []MutualExclusion
  <1>1. IInv => MutualExclusion
    BY DEF IInv
  <1> QED
    BY <1>1, InductiveInvariant, PTL

(* withRequestLock: while an operation runs, its lock file names it.       *)
THEOREM LockIsKept == ASSUME OneProcess PROVE Spec => []HolderKeepsItsLock
  <1>1. IInv => HolderKeepsItsLock
    BY DEF IInv
  <1> QED
    BY <1>1, InductiveInvariant, PTL
=============================================================================
