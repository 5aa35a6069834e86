----------------------------- MODULE SavedWork -----------------------------
(***************************************************************************)
(* The saved draft of one operator and subject, and the browser originals  *)
(* preserved beside it, as the private files of the service keep them.     *)
(*                                                                         *)
(* A file is replaced by rename: it is the old record or the new one.  A   *)
(* save or a preservation runs under a kernel lock and without giving way, *)
(* so nothing happens between its writes but a failure of the next one or  *)
(* a stop of the process, which releases the lock.                         *)
(***************************************************************************)
EXTENDS Naturals, FiniteSets

CONSTANTS Sessions,     \* browser tabs with the subject open
          Contents,     \* drafts without their finalized briefs
          Briefs,       \* brief versions an operator may finalize
          Originals,    \* browser records, as storage key and raw value
          MaxRecoveries,
          MaxCommands,  \* bound on the saves of a tab
          MaxRevision   \* bound on the saves written

VARIABLES current, previous,   \* current.json and previous.json
          kept, index,         \* recovery-*.json and recovery-index.json
          writing,             \* the step between two writes, if any
          session              \* per tab: what it holds

vars == <<current, previous, kept, index, writing, session>>

None == "none"

NoCommand == [by |-> None, number |-> 0, expected |-> 0, content |-> None, briefs |-> {}]
NoRecord == [revision |-> 0, command |-> NoCommand]
NotWriting == [what |-> None, by |-> None, record |-> NoRecord, original |-> None]

(* number counts the commands of a tab; told holds the revisions whose     *)
(* acknowledgement it received, with the command acknowledged.             *)
NewSession == [command |-> NoCommand, number |-> 0, revision |-> 0,
               content |-> None, briefs |-> {}, told |-> {}]

Init == /\ current = NoRecord /\ previous = NoRecord
        /\ kept = {} /\ index = {}
        /\ writing = NotWriting
        /\ session = [s \in Sessions |-> NewSession]

Free == writing = NotWriting

-----------------------------------------------------------------------------
(* A tab reads the record, and goes on from it.                            *)
Read(s) ==
    /\ Free /\ session[s].command = NoCommand
    /\ session' = [session EXCEPT ![s].revision = current.revision,
                                  ![s].content = current.command.content,
                                  ![s].briefs = current.command.briefs]
    /\ UNCHANGED <<current, previous, kept, index, writing>>

(* The operator edits, and may finalize briefs or drop them from the text. *)
Submit(s, content, briefs) ==
    /\ session[s].command = NoCommand
    /\ session[s].number < MaxCommands
    /\ session' = [session EXCEPT
          ![s].number = @ + 1,
          ![s].command = [by |-> s, number |-> session[s].number + 1,
                          expected |-> session[s].revision,
                          content |-> content, briefs |-> briefs]]
    /\ UNCHANGED <<current, previous, kept, index, writing>>

Told(s, revision) ==
    [session EXCEPT ![s].command = NoCommand, ![s].revision = revision,
                    ![s].content = session[s].command.content,
                    ![s].briefs = session[s].command.briefs,
                    ![s].told = @ \cup {[revision |-> revision,
                                         number |-> session[s].command.number]}]

(* The command that was saved last is acknowledged again, with no write.   *)
Replay(s) ==
    /\ Free /\ session[s].command # NoCommand
    /\ current.command = session[s].command
    /\ session' = Told(s, current.revision)
    /\ UNCHANGED <<current, previous, kept, index, writing>>

(* Mutant: the revision of the command is not compared.                    *)
AcceptedAnyRevision(c) == current.command.briefs \subseteq c.briefs

Accepted(c) == /\ current.revision = c.expected
               /\ current.command.briefs \subseteq c.briefs

(* A command of an earlier revision, or one that drops a finalized brief,  *)
(* is refused; the tab keeps its edits and may read again.                 *)
Refuse(s) ==
    /\ Free /\ session[s].command # NoCommand
    /\ current.command # session[s].command
    /\ ~Accepted(session[s].command)
    /\ session' = [session EXCEPT ![s].command = NoCommand]
    /\ UNCHANGED <<current, previous, kept, index, writing>>

(* The first write of a save keeps the record that is to be replaced.      *)
KeepPrevious(s) ==
    LET c == session[s].command IN
    /\ Free /\ c # NoCommand /\ current.command # c
    /\ Accepted(c)
    /\ current.revision < MaxRevision
    /\ previous' = IF current = NoRecord THEN previous ELSE current
    /\ writing' = [NotWriting EXCEPT
          !.what = "current", !.by = s,
          !.record = [revision |-> current.revision + 1, command |-> c]]
    /\ UNCHANGED <<current, kept, index, session>>

(* The second replaces it; the answer may be lost.                         *)
WriteCurrent ==
    /\ writing.what = "current"
    /\ current' = writing.record
    /\ writing' = NotWriting
    /\ \/ session' = Told(writing.by, writing.record.revision)
       \/ UNCHANGED session
    /\ UNCHANGED <<previous, kept, index>>

(* A write fails, or the process stops between two.                        *)
Interrupt ==
    /\ ~Free /\ writing' = NotWriting
    /\ UNCHANGED <<current, previous, kept, index, session>>

-----------------------------------------------------------------------------
(* Mutant: the index is written first.                                     *)
IndexOriginalFirst(o) ==
    /\ Free /\ o \notin index /\ Cardinality(index) < MaxRecoveries
    /\ index' = index \cup {o}
    /\ writing' = [NotWriting EXCEPT !.what = "index", !.original = o]
    /\ UNCHANGED <<current, previous, kept, session>>

(* preserve: the original, then the index that names it.                   *)
KeepOriginal(o) ==
    /\ Free /\ o \notin index /\ Cardinality(index) < MaxRecoveries
    /\ kept' = kept \cup {o}
    /\ writing' = [NotWriting EXCEPT !.what = "index", !.original = o]
    /\ UNCHANGED <<current, previous, index, session>>

IndexOriginal ==
    /\ writing.what = "index"
    /\ index' = index \cup {writing.original}
    /\ writing' = NotWriting
    /\ UNCHANGED <<current, previous, kept, session>>

Next == \/ \E s \in Sessions :
              \/ Read(s) \/ Replay(s) \/ Refuse(s) \/ KeepPrevious(s)
              \/ \E content \in Contents, briefs \in SUBSET Briefs :
                    Submit(s, content, briefs)
        \/ WriteCurrent \/ Interrupt
        \/ \E o \in Originals : KeepOriginal(o)
        \/ IndexOriginal

Spec == Init /\ [][Next]_vars
-----------------------------------------------------------------------------
(* docs/operations/saved-operator-work.md:38: a save that was acknowledged *)
(* is the only one of its revision, whatever tabs saved at once and        *)
(* whichever answers were lost, and only a save whose tab had read it      *)
(* replaces it.                                                            *)
AcknowledgedSavesSurvive ==
    /\ current.revision > 0 => current.command.expected = current.revision - 1
    /\ \A s \in Sessions : \A t \in session[s].told :
          /\ t.revision <= current.revision
          /\ t.revision = current.revision =>
                current.command.by = s /\ current.command.number = t.number
          /\ \A r \in Sessions : \A u \in session[r].told :
                t.revision = u.revision => r = s /\ t = u

(* The complete record of the revision before stays beside the current     *)
(* one, also after a save that was cut short, and every original that is   *)
(* indexed is there.                                                       *)
RecoveryIsComplete ==
    /\ current.revision > 1 => previous.revision >= current.revision - 1
    /\ previous.revision <= current.revision
    /\ previous.revision = current.revision /\ current # NoRecord => previous = current
    /\ index \subseteq kept
=============================================================================
