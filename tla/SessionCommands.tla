--------------------------- MODULE SessionCommands ---------------------------
(***************************************************************************)
(* The commands of a delivery work session: the journal of command         *)
(* records, the revision a command was authored against, and the locks     *)
(* under which it runs.                                                    *)
(*                                                                         *)
(* One session covers several work items.  A command locks its own id, a   *)
(* mutation lock of its item, the item, and at last the session; a lock    *)
(* that is taken is an error at once.  A process knows the locks its own   *)
(* calls wait for; between processes a lock is a directory, which goes     *)
(* stale when its owner stops, or runs a child process for so long that it *)
(* does not refresh it.                                                    *)
(***************************************************************************)
EXTENDS Naturals

CONSTANTS Calls,          \* calls that may run at once
          Processes, Commands, Items,
          MaxRevision,    \* bound on the writes of the session
          MaxTakeovers,   \* bound on the locks taken from a blocked owner
          MaxCrashes

VARIABLES session,    \* its revision, and whether it is open
          record,     \* the state of a command in the journal
          call,       \* the calls that run
          directory,  \* the owner of a lock's directory
          begun,      \* how often the effects of a command began (history)
          takeovers, crashes

vars == <<session, record, call, directory, begun, takeovers, crashes>>

None == "none"
Stopped == "stopped"
Bodies == [item : Items, expected : 0..MaxRevision]
NoRequest == [item |-> None, expected |-> 0]

CommandLock(c) == <<"command", c>>
MutationLock(i) == <<"mutation", i>>
ItemLock(i) == <<"item", i>>
SessionLock == <<"session", None>>
Locks == {CommandLock(c) : c \in Commands} \cup {SessionLock}
         \cup {MutationLock(i) : i \in Items} \cup {ItemLock(i) : i \in Items}

NotCalled == [at |-> "idle", process |-> None, command |-> None,
              request |-> NoRequest, locks |-> {}]

Init == /\ session = [open |-> TRUE, revision |-> 0]
        /\ record = [c \in Commands |-> None]
        /\ call = [k \in Calls |-> NotCalled]
        /\ directory = [l \in Locks |-> None]
        /\ begun = [c \in Commands |-> 0] /\ takeovers = 0 /\ crashes = 0

-----------------------------------------------------------------------------
(* The locks that calls of a process hold or wait for.                     *)
PendingLocks(p) == UNION {call[k].locks : k \in {k \in Calls : call[k].process = p}}

Blocked(k) == call[k].at = "effect"

(* The owner of a directory stopped, or is blocked in a child process.     *)
Abandoned(l) == directory[l] = Stopped
Overdue(l, k) == /\ directory[l] \in Calls /\ Blocked(directory[l])
                 /\ call[directory[l]].process # call[k].process
                 /\ takeovers < MaxTakeovers

Wait(k, l, step) == /\ l \notin PendingLocks(call[k].process)
                    /\ call' = [call EXCEPT ![k].at = step, ![k].locks = @ \cup {l}]

Acquire(k, l) ==
    /\ \/ (directory[l] = None \/ Abandoned(l)) /\ UNCHANGED takeovers
       \/ Overdue(l, k) /\ takeovers' = takeovers + 1
    /\ directory' = [directory EXCEPT ![l] = k]

Taken(k, l) == directory[l] \in Calls /\ ~Overdue(l, k)

(* A release removes the directories, whoever took them meanwhile.         *)
Released(k) == [l \in Locks |->
    IF l \in call[k].locks THEN None ELSE directory[l]]

Answer(k) == call' = [call EXCEPT ![k] = NotCalled] /\ directory' = Released(k)

(* The controller gives the locks of the item and of the session back.     *)
Leave(k, outcome) ==
    LET outer == {CommandLock(call[k].command), MutationLock(call[k].request.item)} IN
    /\ call' = [call EXCEPT ![k].at = outcome, ![k].locks = outer]
    /\ directory' = [l \in Locks |->
          IF l \in call[k].locks \ outer THEN None ELSE directory[l]]

-----------------------------------------------------------------------------
(* A client sends a command, or one it sent before, to a process.          *)
Send(k, p, c, request) ==
    /\ call[k] = NotCalled
    /\ CommandLock(c) \notin PendingLocks(p)
    /\ request.expected <= session.revision
    /\ call' = [call EXCEPT ![k] = [NotCalled EXCEPT !.at = "command",
                   !.process = p, !.command = c, !.request = request, !.locks = {CommandLock(c)}]]
    /\ UNCHANGED <<session, record, directory, begun, takeovers, crashes>>

(* Mutant: a command that was interrupted is run again.                    *)
InJournalIfTerminal(k) == record[call[k].command] \in {"completed", "failed"}

(* A command the journal knows is answered from its record: its result,    *)
(* its error, a conflict with another request, or an unknown outcome.      *)
InJournal(k) == record[call[k].command] \in {"pending", "completed", "failed"}

ReadJournal(k) ==
    LET c == call[k].command IN
    /\ call[k].at = "command"
    /\ Acquire(k, CommandLock(c))
    /\ IF InJournal(k)
         THEN call' = [call EXCEPT ![k].at = "answer"]
         ELSE IF MutationLock(call[k].request.item) \in PendingLocks(call[k].process)
         THEN call' = [call EXCEPT ![k].at = "answer"]
         ELSE Wait(k, MutationLock(call[k].request.item), "mutation")
    /\ UNCHANGED <<session, record, begun, crashes>>

(* The revision of the session is compared once, under the lock of the     *)
(* item; a refusal leaves no record.                                       *)
CheckRevision(k) ==
    /\ call[k].at = "mutation"
    /\ Acquire(k, MutationLock(call[k].request.item))
    /\ call' = IF session.open /\ session.revision = call[k].request.expected
               THEN [call EXCEPT ![k].at = "begin"]
               ELSE [call EXCEPT ![k].at = "answer"]
    /\ UNCHANGED <<session, record, begun, crashes>>

(* Source access may be awaited first.                                     *)
WritePending(k) ==
    LET c == call[k].command IN
    /\ call[k].at = "begin"
    /\ record' = [record EXCEPT ![c] = "pending"]
    /\ IF ItemLock(call[k].request.item) \in PendingLocks(call[k].process)
         THEN call' = [call EXCEPT ![k].at = "failed"]
         ELSE Wait(k, ItemLock(call[k].request.item), "item")
    /\ UNCHANGED <<session, directory, begun, takeovers, crashes>>

(* The session is read, and its lock asked for.                            *)
ReadSession(k) ==
    /\ call[k].at = "item"
    /\ Acquire(k, ItemLock(call[k].request.item))
    /\ IF ~session.open
         THEN call' = [call EXCEPT ![k].at = "completed"]
         ELSE IF SessionLock \in PendingLocks(call[k].process)
         THEN call' = [call EXCEPT ![k].at = "failed"]
         ELSE Wait(k, SessionLock, "session")
    /\ UNCHANGED <<session, record, begun, crashes>>

Begin(k) ==
    /\ call[k].at = "session"
    /\ Acquire(k, SessionLock)
    /\ call' = [call EXCEPT ![k].at = "effect"]
    /\ begun' = [begun EXCEPT ![call[k].command] = @ + 1]
    /\ UNCHANGED <<session, record, crashes>>

(* The effects end with the session written, or removed if the command was *)
(* a close; or they fail.                                                  *)
Finish(k) ==
    /\ call[k].at = "effect"
    /\ \/ /\ session.revision < MaxRevision
          /\ \E open \in BOOLEAN : session' = [open |-> open, revision |-> session.revision + 1]
          /\ Leave(k, "completed")
       \/ /\ Leave(k, "failed")
          /\ UNCHANGED session
    /\ UNCHANGED <<record, begun, takeovers, crashes>>

(* A lock is held by another process.                                      *)
Locked(k) ==
    /\ \/ call[k].at = "command" /\ Taken(k, CommandLock(call[k].command))
       \/ call[k].at = "mutation" /\ Taken(k, MutationLock(call[k].request.item))
    /\ call' = [call EXCEPT ![k].at = "answer",
                            ![k].locks = {l \in @ : directory[l] = k}]
    /\ UNCHANGED <<session, record, directory, begun, takeovers, crashes>>

LockedInEffect(k) ==
    /\ \/ call[k].at = "item" /\ Taken(k, ItemLock(call[k].request.item))
       \/ call[k].at = "session" /\ Taken(k, SessionLock)
    /\ call' = [call EXCEPT ![k].at = "failed",
                            ![k].locks = {l \in @ : directory[l] = k}]
    /\ UNCHANGED <<session, record, directory, begun, takeovers, crashes>>

WriteTerminal(k) ==
    /\ call[k].at \in {"completed", "failed"}
    /\ record' = [record EXCEPT ![call[k].command] = call[k].at]
    /\ Answer(k)
    /\ UNCHANGED <<session, begun, takeovers, crashes>>

Refuse(k) == /\ call[k].at = "answer"
             /\ Answer(k)
             /\ UNCHANGED <<session, record, begun, takeovers, crashes>>

(* A process stops, as it also does when it finds a lock taken from it.    *)
Crash(p) ==
    /\ crashes < MaxCrashes /\ crashes' = crashes + 1
    /\ \E k \in Calls : call[k].process = p
    /\ call' = [k \in Calls |-> IF call[k].process = p THEN NotCalled ELSE call[k]]
    /\ directory' = [l \in Locks |->
          IF directory[l] \in {k \in Calls : call[k].process = p} THEN Stopped
          ELSE directory[l]]
    /\ UNCHANGED <<session, record, begun, takeovers>>

Next == \/ \E k \in Calls :
              \/ \E p \in Processes, c \in Commands, r \in Bodies : Send(k, p, c, r)
              \/ ReadJournal(k) \/ CheckRevision(k) \/ WritePending(k)
              \/ ReadSession(k) \/ Begin(k) \/ Finish(k) \/ Locked(k)
              \/ LockedInEffect(k) \/ WriteTerminal(k) \/ Refuse(k)
        \/ \E p \in Processes : Crash(p)

Spec == Init /\ [][Next]_vars

-----------------------------------------------------------------------------
(* The effects of a command id begin at most once, over every retry, after *)
(* every stop of a process, and when a lock is taken from its owner.       *)
EffectsBeginOnce == \A c \in Commands : begun[c] <= 1

=============================================================================
