---------------------- MODULE SourceRealizationProofs ----------------------
(***************************************************************************)
(* Proofs about SourceRealization, for any number of calls and drafts, and *)
(* whatever is lost, stopped or done by hand.                              *)
(*                                                                         *)
(* A call that is inside, and waits, has the session: what it has read of  *)
(* the record there stays so, and only it writes (InsideHolds, Prepared).  *)
(* What the executor works on was accepted, and what was accepted and not  *)
(* refused stays (ExecutionsAreAccepted).  As long as no call was lost the *)
(* executor works for a call that waits; no call comes to it any more when *)
(* the credential has stopped, which a withdrawal does before it looks at  *)
(* the source (WithdrawnIsStill).                                          *)
(***************************************************************************)
EXTENDS SourceRealization, SequenceTheorems, FiniteSetTheorems, TLAPS

(* The drafts have names of their own, and so have the calls.              *)
NamesDiffer == {None, Hand} \cap ChangeSets = {} /\ None \notin Calls

Authors == ChangeSets \cup {Hand}
Heads == Seq(Authors)
MaybeDraft == ChangeSets \cup {None}
Holders == Calls \cup {None}

States == Unapplied \cup Live \cup {"accepted", "draft-ready"}

Outcomes == {None, "pending", "unknown", "succeeded"}

Attempts ==
    [state : States, draft : MaybeDraft, accepted : MaybeDraft, receipt : Heads,
     pull : Nat, control : [Controls -> Outcomes]]
Saves == [draft : ChangeSets, read : MaybeDraft, over : MaybeDraft]
Records ==
    [revision : Nat, saves : Seq(Saves),
     withdrawn : Outcomes, stopped : BOOLEAN,
     attempts : Seq(Attempts)]
Pulls ==
    [head : Heads, state : {"open", "closed", "merged", "merged by hand"}, approved : Heads]

(* Where a call has entered, and where a control is at its executor.       *)
Inside ==
    AtExecutor \cup
    {"drafting", "saving", "applying", "take", "validate", "inspect", "look", "stop",
     "retire", "revoke", "discard"}
Whats ==
    Controls \cup {None, "generate", "save", "continue", "cancel", "withdraw", "recover"}
CallStates ==
    [at : Inside \cup {"idle", "lease", "enter"}, what : Whats, seen : Nat,
     draft : MaybeDraft, after : Nat, head : Heads, waits : BOOLEAN]
Executions ==
    [at : {None, "asked", "prepared", "committed", "failed"}, draft : MaybeDraft, head : Heads]

TypeOK ==
    /\ record \in Records
    /\ tree \in [commits : Heads, dirty : BOOLEAN]
    /\ remote \in [branch : Heads, pulls : Seq(Pulls)]
    /\ exec \in [Calls -> Executions]
    /\ results \in [ChangeSets -> Heads]
    /\ lock \in [session : Holders, lease : Holders]
    /\ call \in [Calls -> CallStates]
    /\ env \in [hands : Nat, stops : Nat]

(* Two calls are not inside at once, unless nobody waits for one.          *)
InsideHolds ==
    /\ \A c \in Calls :
          /\ call[c].at \in Inside /\ call[c].waits => lock.session = c
          /\ ~call[c].waits => call[c].at \in AtExecutor
          /\ call[c].at = "enter" /\ call[c].what \in {"continue", "recover"} => lock.lease = c
          /\ call[c].at = "applying" => lock.lease = c
    /\ record.stopped => lock.lease = None

(* What a call found when it entered.                                      *)
HasRead(c) ==
    /\ call[c].at = "drafting" => State = "accepted"
    /\ call[c].at = "saving" =>
          State \in Unapplied \cup {"draft-ready"} /\ call[c].draft = Draft
    /\ call[c].at = "applying" => State \in {"applying", "apply-unknown"}
    /\ call[c].at = "discard" => record.stopped

Prepared == \A c \in Calls : HasRead(c)

Accepted(x) ==
    \E i \in DOMAIN record.attempts :
        /\ record.attempts[i].accepted = x /\ record.attempts[i].draft = x
        /\ record.attempts[i].state \in Live

DraftsAreThere ==
    \A i \in DOMAIN record.attempts :
        LET attempt == record.attempts[i] IN
        /\ attempt.state \in Live \cup {"draft-ready"} => attempt.draft \in ChangeSets
        /\ attempt.state \in Live => attempt.accepted = attempt.draft

ExecutionsAreAccepted ==
    \A c \in Calls :
        exec[c].at \in {"asked", "prepared", "committed"} =>
            exec[c].draft \in ChangeSets /\ Accepted(exec[c].draft)

MadeOnce ==
    \A i, j \in DOMAIN tree.commits :
        /\ tree.commits[i] \in ChangeSets => Accepted(tree.commits[i])
        /\ tree.commits[i] \in ChangeSets /\ tree.commits[i] = tree.commits[j] => i = j

(* Of a withdrawn request.                                                 *)
WithdrawnIsStill ==
    /\ record.withdrawn = "succeeded" => record.stopped
    /\ env.stops = 0 =>
          /\ \A c \in Calls : exec[c] # NoExec => call[c].at = "applying"
          /\ record.withdrawn = "succeeded" => Made = {} /\ \A c \in Calls : exec[c] = NoExec

SourceInv ==
    /\ TypeOK /\ InsideHolds /\ Prepared /\ DraftsAreThere
    /\ ExecutionsAreAccepted /\ MadeOnce /\ WithdrawnIsStill
    /\ SavesReplaceWhatWasRead

-----------------------------------------------------------------------------
(* The record.  What a control writes leaves every attempt its state, its  *)
(* draft and its acceptance.                                               *)

Alike(attempts) ==
    /\ Len(attempts) = Count
    /\ \A i \in 1..Count :
          /\ attempts[i].state = record.attempts[i].state
          /\ attempts[i].draft = record.attempts[i].draft
          /\ attempts[i].accepted = record.attempts[i].accepted

Calm ==
    /\ record' \in Records /\ Alike(record'.attempts)
    /\ record'.saves = record.saves

Still == record'.withdrawn = record.withdrawn /\ record'.stopped = record.stopped

(* One element of a sequence is replaced.                                  *)
LEMMA Replaced ==
    ASSUME NEW S, NEW s \in Seq(S), NEW n, NEW a, n \in 1..Len(s) => a \in S
    PROVE  /\ [s EXCEPT ![n] = a] \in Seq(S) /\ Len([s EXCEPT ![n] = a]) = Len(s)
           /\ \A i \in 1..Len(s) : [s EXCEPT ![n] = a][i] = IF i = n THEN a ELSE s[i]
  <1> DEFINE t == [s EXCEPT ![n] = a]
  <1>1. /\ DOMAIN s = 1..Len(s) /\ Len(s) \in Nat
        /\ \A i \in 1..Len(s) : s[i] \in S
    OBVIOUS
  <1>2. DOMAIN t = 1..Len(s) /\ \A i \in 1..Len(s) : t[i] = IF i = n THEN a ELSE s[i]
    BY <1>1
  <1>3. t \in [1..Len(s) -> S]
    BY <1>1, <1>2
  <1>4. t \in Seq(S) /\ Len(t) = Len(s)
    BY <1>1, <1>3, SeqDef, LenProperties
  <1> QED
    BY <1>2, <1>4

(* The parts of the record.                                                *)
LEMMA RecordParts ==
    ASSUME TypeOK
    PROVE  /\ record.attempts \in Seq(Attempts) /\ Count \in Nat
           /\ DOMAIN record.attempts = 1..Count
           /\ \A i \in 1..Count : record.attempts[i] \in Attempts
           /\ record.revision \in Nat
  BY DEF TypeOK, Records, Count

(* The attempts are written, and nothing else of the record.               *)
LEMMA WrittenAttempts ==
    ASSUME TypeOK, NEW attempts \in Seq(Attempts), Write(attempts)
    PROVE  /\ record' \in Records /\ Still /\ record'.attempts = attempts
           /\ record'.saves = record.saves
  <1> DEFINE first == [record EXCEPT !.attempts = attempts]
  <1>1. record \in Records
    BY DEF TypeOK
  <1>2. /\ first \in Records /\ first.attempts = attempts
        /\ first.revision = record.revision /\ first.saves = record.saves
        /\ first.withdrawn = record.withdrawn /\ first.stopped = record.stopped
    BY <1>1 DEF Records
  <1>3. record' = [first EXCEPT !.revision = record.revision + 1]
    BY DEF Write
  <1> HIDE DEF first
  <1> QED
    BY <1>2, <1>3 DEF Records, Still

(* An outcome of a control is written.                                     *)
LEMMA ControlWritten ==
    ASSUME TypeOK, NEW x \in Controls, NEW state \in Outcomes, SetControl(x, state)
    PROVE  Calm /\ Still
  <1> DEFINE now == [Current EXCEPT !.control[x] = state]
             attempts == [record.attempts EXCEPT ![Count] = now]
  <1>1. ASSUME Count \in 1..Count
        PROVE  now \in Attempts /\ now.state = Current.state /\ now.draft = Current.draft
               /\ now.accepted = Current.accepted
    BY <1>1, RecordParts DEF Attempts, Current
  <1>2. Write(attempts)
    BY RecordParts DEF SetControl, Current
  <1> HIDE DEF now
  <1>3. /\ attempts \in Seq(Attempts) /\ Len(attempts) = Count
        /\ \A i \in 1..Count : attempts[i] = IF i = Count THEN now ELSE record.attempts[i]
    BY <1>1, RecordParts, Replaced DEF Count
  <1> HIDE DEF attempts
  <1>4. Alike(attempts)
    BY <1>1, <1>3 DEF Alike, Current
  <1> QED
    BY <1>2, <1>3, <1>4, WrittenAttempts DEF Calm

-----------------------------------------------------------------------------
(* The calls and their locks: a step of c leaves the other calls where     *)
(* they are, with what they hold.                                          *)

Locks == [session : Holders, lease : Holders]

CallStep(c) ==
    /\ call' \in [Calls -> CallStates] /\ lock' \in Locks
    /\ \A d \in Calls \ {c} : call'[d] = call[d]
    /\ InsideHolds'

(* When is a step of c one that leaves the others what they hold.          *)
LEMMA CallMoves ==
    ASSUME NamesDiffer, TypeOK, InsideHolds, NEW c \in Calls, NEW my \in CallStates,
           call' = [call EXCEPT ![c] = my], lock' \in Locks,
           \A d \in Calls \ {c} : /\ lock.session = d => lock'.session = d
                                  /\ lock.lease = d => lock'.lease = d,
           my.at \in Inside /\ my.waits => lock'.session = c,
           ~my.waits => my.at \in AtExecutor,
           my.at = "enter" /\ my.what \in {"continue", "recover"} => lock'.lease = c,
           my.at = "applying" => lock'.lease = c,
           record'.stopped => lock'.lease = None
    PROVE  CallStep(c) /\ call'[c] = my
  <1>1. /\ call \in [Calls -> CallStates]
        /\ call' \in [Calls -> CallStates] /\ call'[c] = my
        /\ \A d \in Calls \ {c} : call'[d] = call[d]
    BY DEF TypeOK
  <1> QED
    BY <1>1 DEF CallStep, InsideHolds

(* The call is idle, and its locks are free.                               *)
LEMMA Ends ==
    ASSUME NamesDiffer, TypeOK, InsideHolds, NEW c \in Calls, End(c),
           record'.stopped => record.stopped \/ lock.lease = None
    PROVE  CallStep(c) /\ call'[c] = Idle
  <1>1. lock \in Locks /\ DOMAIN lock = {"session", "lease"}
    BY DEF TypeOK, Locks
  <1>2. /\ lock' \in Locks
        /\ \A l \in {"session", "lease"} : lock'[l] = IF lock[l] = c THEN None ELSE lock[l]
    BY <1>1 DEF End, Locks, Holders
  <1>3. Idle \in CallStates /\ Idle.at = "idle" /\ Idle.waits
    BY DEF Idle, CallStates, Whats, MaybeDraft, Heads
  <1>4. record'.stopped => lock'.lease = None
    BY <1>2 DEF InsideHolds
  <1>5. "idle" \notin Inside
    BY DEF Inside, AtExecutor
  <1>6. call' = [call EXCEPT ![c] = Idle]
    BY DEF End
  <1>7. \A d \in Calls \ {c} : /\ lock.session = d => lock'.session = d
                               /\ lock.lease = d => lock'.lease = d
    BY <1>2
  <1> HIDE DEF Idle
  <1> QED
    BY <1>2, <1>3, <1>4, <1>5, <1>6, <1>7, CallMoves

(* The call goes on inside.                                                *)
LEMMA GoesOn ==
    ASSUME NamesDiffer, TypeOK, InsideHolds, NEW c \in Calls, NEW at \in Inside, Go(c, at),
           at # "applying", call[c].at \in Inside, call[c].waits \/ at \in AtExecutor,
           lock' = lock \/ (Leased /\ lock' = [lock EXCEPT !.lease = c]),
           record'.stopped => record.stopped \/ lock.lease = None,
           lock' = lock \/ record'.stopped = record.stopped
    PROVE  CallStep(c) /\ call'[c] = [call[c] EXCEPT !.at = at]
  <1> DEFINE my == [call[c] EXCEPT !.at = at]
  <1>0. call[c] \in CallStates
    BY DEF TypeOK
  <1>1. /\ my \in CallStates /\ my.at = at /\ my.waits = call[c].waits
        /\ my.what = call[c].what
    BY <1>0 DEF CallStates
  <1>2. call' = [call EXCEPT ![c] = my]
    BY DEF Go, TypeOK
  <1>3. lock \in Locks
    BY DEF TypeOK, Locks
  <1>4. lock' \in Locks /\ lock'.session = lock.session
    BY <1>3 DEF Locks, Holders
  <1>5. /\ \A d \in Calls \ {c} : lock.lease = d => lock'.lease = d
        /\ record'.stopped => lock'.lease = None
    BY <1>3 DEF Locks, Leased, InsideHolds, NamesDiffer
  <1>6. at # "enter"
    BY DEF Inside, AtExecutor
  <1> HIDE DEF my
  <1>7. my.at \in Inside /\ my.waits => lock'.session = c
    BY <1>1, <1>4 DEF InsideHolds
  <1>8. ~my.waits => my.at \in AtExecutor
    BY <1>1
  <1>9. CallStep(c) /\ call'[c] = my
    BY <1>1, <1>2, <1>4, <1>5, <1>6, <1>7, <1>8, CallMoves
  <1> QED
    BY <1>9 DEF my

(* The call enters, and has the session.                                   *)
LEMMA Entered ==
    ASSUME NamesDiffer, TypeOK, InsideHolds, NEW c \in Calls, NEW at \in Inside,
           NEW what, Free, Enter(c, what, at), record'.stopped = record.stopped,
           at = "applying" => what \in {"continue", "recover"}
    PROVE  CallStep(c) /\ call'[c] = [call[c] EXCEPT !.at = at] /\ call[c].at = "enter"
  <1> DEFINE my == [call[c] EXCEPT !.at = at]
  <1>1. /\ my \in CallStates /\ my.at = at /\ my.waits = call[c].waits
    BY DEF TypeOK, CallStates
  <1>2. call' = [call EXCEPT ![c] = my]
    BY DEF Go, Enter, TypeOK
  <1>3. lock \in Locks /\ lock' = [lock EXCEPT !.session = c]
    BY DEF TypeOK, Locks, Enter
  <1>4. lock' \in Locks /\ lock'.session = c /\ lock'.lease = lock.lease
    BY <1>3 DEF Locks, Holders
  <1>5. at # "enter" /\ call[c].at = "enter"
    BY DEF Inside, AtExecutor, Enter
  <1>6. my.waits
    BY <1>1, <1>5 DEF InsideHolds, AtExecutor
  <1>7. record'.stopped => lock'.lease = None
    BY <1>4 DEF InsideHolds
  <1>8. \A d \in Calls \ {c} : lock.session # d
    BY DEF Free, NamesDiffer
  <1>9. at = "applying" => lock.lease = c
    BY DEF Enter, InsideHolds
  <1> HIDE DEF my
  <1> QED
    <2>1. my.at = "applying" => lock'.lease = c
      BY <1>1, <1>4, <1>9
    <2>2. \A d \in Calls \ {c} : /\ lock.session = d => lock'.session = d
                                 /\ lock.lease = d => lock'.lease = d
      BY <1>4, <1>8
    <2>3. my.at \in Inside /\ my.waits => lock'.session = c
      BY <1>4
    <2>4. my.at # "enter"
      BY <1>1, <1>5
    <2>5. CallStep(c) /\ call'[c] = my
      BY <1>1, <1>2, <1>4, <1>6, <1>7, <2>1, <2>2, <2>3, <2>4, CallMoves
    <2> QED
      BY <2>5, <1>5 DEF my

(* A control is over, for who waits for it.                                *)
LEMMA DoneWritten ==
    ASSUME NamesDiffer, TypeOK, InsideHolds, NEW c \in Calls, NEW outcome \in Outcomes,
           Done(c, outcome), call[c].what \in Controls
    PROVE  CallStep(c) /\ call'[c] = Idle /\ Calm /\ Still
  <1>1. CASE call[c].waits
    <2>1. SetControl(call[c].what, outcome) /\ End(c)
      BY <1>1 DEF Done
    <2>2. Calm /\ Still
      BY <2>1, ControlWritten
    <2> QED
      BY <2>1, <2>2, Ends DEF Still
  <1>2. CASE ~call[c].waits
    <2>1. UNCHANGED <<record, lock>> /\ call' = [call EXCEPT ![c] = Idle]
      BY <1>2 DEF Done
    <2>2. Calm /\ Still
      BY <2>1, RecordParts DEF Calm, Still, Alike, TypeOK, Count
    <2>3. Idle \in CallStates /\ Idle.at = "idle" /\ Idle.waits /\ "idle" \notin Inside
      BY DEF Idle, CallStates, Whats, MaybeDraft, Heads, Inside, AtExecutor
    <2>4. lock' \in Locks /\ (record'.stopped => lock'.lease = None)
      BY <2>1 DEF TypeOK, Locks, InsideHolds
    <2> QED
      BY <2>1, <2>2, <2>3, <2>4, CallMoves
  <1> QED
    BY <1>1, <1>2

-----------------------------------------------------------------------------
(* A quiet step: of a call that the executor has nothing of, and that      *)
(* leaves the attempts and the source as they are.                         *)

Remotes == [branch : Heads, pulls : Seq(Pulls)]

QuietStep(c) ==
    /\ CallStep(c) /\ Calm /\ remote' \in Remotes
    /\ UNCHANGED <<tree, exec, results, env>>
    /\ call[c].at # "applying" /\ call'[c].at # "applying"
    /\ call'[c].at = "drafting" => State = "accepted"
    /\ call'[c].at = "saving" =>
          State \in Unapplied \cup {"draft-ready"} /\ call'[c].draft = Draft
    /\ call'[c].at = "discard" => record'.stopped
    /\ record.stopped => record'.stopped
    /\ record'.withdrawn = "succeeded" => record.withdrawn = "succeeded"

(* What is the same when the attempts are alike.                           *)
LEMMA AlikeState ==
    ASSUME TypeOK, Calm
    PROVE  /\ State' = State /\ Draft' = Draft
           /\ \A x : Accepted(x) => Accepted(x)'
           /\ DraftsAreThere => DraftsAreThere'
  <1>1. /\ Count \in Nat /\ Count' = Count
        /\ DOMAIN record.attempts = 1..Count /\ DOMAIN record'.attempts = 1..Count
        /\ \A i \in 1..Count :
              /\ record'.attempts[i].state = record.attempts[i].state
              /\ record'.attempts[i].draft = record.attempts[i].draft
              /\ record'.attempts[i].accepted = record.attempts[i].accepted
    BY RecordParts DEF Calm, Alike, Records, Count
  <1>2. State' = State /\ Draft' = Draft
    <2>1. CASE Count = 0
      BY <1>1, <2>1 DEF State, Draft, None
    <2>2. CASE Count # 0
      <3>1. Current'.state = Current.state /\ Current'.draft = Current.draft
        BY <1>1, <2>2 DEF Current
      <3>2. State' = State
        BY <1>1, <2>2, <3>1 DEF State
      <3> QED
        BY <3>1, <3>2 DEF Draft
    <2> QED
      BY <2>1, <2>2
  <1>3. \A x : Accepted(x) => Accepted(x)'
    BY <1>1 DEF Accepted
  <1>4. DraftsAreThere => DraftsAreThere'
    BY <1>1 DEF DraftsAreThere
  <1> QED
    BY <1>2, <1>3, <1>4

(* A record that is as it was, is alike.                                   *)
LEMMA SameRecord ==
    ASSUME TypeOK, UNCHANGED record
    PROVE  Calm /\ Still
  BY RecordParts DEF Calm, Still, Alike, TypeOK, Count

(* A quiet step keeps the invariant.                                       *)
LEMMA QuietKeeps ==
    ASSUME NamesDiffer, SourceInv, NEW c \in Calls, QuietStep(c)
    PROVE  SourceInv'
  <1>1. TypeOK /\ Calm /\ CallStep(c)
    BY DEF SourceInv, QuietStep
  <1>2. TypeOK' /\ InsideHolds'
    BY <1>1 DEF TypeOK, QuietStep, CallStep, Calm, Locks, Remotes
  <1>3. Prepared'
    <2> SUFFICES ASSUME NEW d \in Calls
                 PROVE  HasRead(d)'
      BY DEF Prepared
    <2>1. CASE d = c
      BY <1>1, <2>1, AlikeState DEF QuietStep, HasRead, Unapplied
    <2>2. CASE d # c
      BY <1>1, <2>2, AlikeState DEF QuietStep, CallStep, SourceInv, Prepared, HasRead, Unapplied
    <2> QED
      BY <2>1, <2>2
  <1>4. DraftsAreThere'
    BY <1>1, AlikeState DEF SourceInv
  <1>5. ExecutionsAreAccepted' /\ MadeOnce'
    BY <1>1, AlikeState DEF SourceInv, QuietStep, ExecutionsAreAccepted, MadeOnce
  <1>6. WithdrawnIsStill'
    <2>1. \A d \in Calls : call[d].at = "applying" => call'[d].at = "applying"
      BY <1>1 DEF CallStep, QuietStep
    <2>2. Made' = Made /\ NoExec' = NoExec
      BY DEF QuietStep, Made, HasCommitted, NoExec
    <2> QED
      BY <2>1, <2>2 DEF QuietStep, SourceInv, WithdrawnIsStill
  <1>7. SavesReplaceWhatWasRead'
    BY <1>1 DEF Calm, SourceInv, SavesReplaceWhatWasRead
  <1> QED
    BY <1>2, <1>3, <1>4, <1>5, <1>6, <1>7 DEF SourceInv

Elsewhere == <<tree, exec, results, env>>

(* The remote is what it was.                                              *)
LEMMA SameRemote == TypeOK /\ UNCHANGED remote => remote' \in Remotes
  BY DEF TypeOK, Remotes

(* A control goes on quietly, ...                                          *)
LEMMA GoesQuietly ==
    ASSUME NamesDiffer, TypeOK, InsideHolds, NEW c \in Calls, NEW at \in Inside, Go(c, at),
           at \notin {"drafting", "saving", "applying", "discard"},
           call[c].at \in Inside, call[c].at # "applying", call[c].waits \/ at \in AtExecutor,
           UNCHANGED <<record, lock>>, UNCHANGED Elsewhere, remote' \in Remotes
    PROVE  QuietStep(c)
  <1>1. CallStep(c) /\ call'[c] = [call[c] EXCEPT !.at = at]
    BY GoesOn
  <1>2. call'[c].at = at
    BY <1>1 DEF TypeOK, CallStates
  <1>3. Calm /\ Still
    BY SameRecord
  <1> QED
    BY <1>1, <1>2, <1>3 DEF QuietStep, Elsewhere, Still

(* ... a call ends quietly, ...                                            *)
LEMMA EndsQuietly ==
    ASSUME NamesDiffer, TypeOK, InsideHolds, NEW c \in Calls, End(c), call[c].at # "applying",
           Calm, record.stopped => record'.stopped,
           record'.stopped => record.stopped \/ lock.lease = None,
           record'.withdrawn = "succeeded" => record.withdrawn = "succeeded",
           UNCHANGED Elsewhere, remote' \in Remotes
    PROVE  QuietStep(c)
  <1>1. CallStep(c) /\ call'[c].at = "idle"
    BY Ends DEF Idle
  <1> QED
    BY <1>1 DEF QuietStep, Elsewhere

(* ... is refused quietly, ...                                             *)
LEMMA RefusedQuietly ==
    ASSUME NamesDiffer, TypeOK, InsideHolds, NEW c \in Calls, Refuse(c), call[c].at # "applying"
    PROVE  QuietStep(c)
  <1>1. End(c) /\ UNCHANGED <<record, remote>> /\ UNCHANGED Elsewhere
    BY DEF Refuse, Elsewhere
  <1>2. Calm /\ Still
    BY <1>1, SameRecord
  <1> QED
    BY <1>1, <1>2, EndsQuietly, SameRemote DEF Still

(* ... and a control is over quietly.                                      *)
LEMMA DoneQuietly ==
    ASSUME NamesDiffer, TypeOK, InsideHolds, NEW c \in Calls, NEW outcome \in Outcomes,
           Done(c, outcome), call[c].what \in Controls, call[c].at # "applying",
           UNCHANGED Elsewhere, remote' \in Remotes
    PROVE  QuietStep(c)
  <1>1. CallStep(c) /\ call'[c].at = "idle" /\ Calm /\ Still
    BY DoneWritten DEF Idle
  <1> QED
    BY <1>1 DEF QuietStep, Elsewhere, Still

(* An unknown outcome.                                                     *)
LEMMA UnknownQuietly ==
    ASSUME NamesDiffer, TypeOK, InsideHolds, NEW c \in Calls, Unknown(c),
           call[c].what \in Controls, call[c].at # "applying"
    PROVE  QuietStep(c)
  <1>1. Done(c, "unknown") /\ UNCHANGED Elsewhere /\ UNCHANGED remote
    BY DEF Unknown, Elsewhere
  <1>2. "unknown" \in Outcomes /\ remote' \in Remotes
    BY <1>1, SameRemote DEF Outcomes
  <1> QED
    BY <1>1, <1>2, DoneQuietly

(* What is asked, and what takes its lease.                                *)
LEMMA AskIsQuiet ==
    ASSUME NamesDiffer, TypeOK, InsideHolds, NEW c \in Calls,
           NEW what \in {"generate", "save", "continue", "cancel", "withdraw", "recover"},
           Ask(c, what)
    PROVE  QuietStep(c)
  <1> DEFINE my == [Idle EXCEPT !.at = IF what \in {"continue", "recover"} THEN "lease" ELSE "enter",
                                !.what = what, !.seen = record.revision,
                                !.draft = Draft, !.after = Count]
  <1>1. /\ Calm /\ Still /\ remote' \in Remotes /\ UNCHANGED Elsewhere
        /\ call' = [call EXCEPT ![c] = my] /\ UNCHANGED <<record, lock>>
        /\ call[c].at = "idle"
    BY SameRecord, SameRemote DEF Ask, Elsewhere
  <1>2. Draft \in MaybeDraft
    <2>1. Count = 0 => State = None
      BY DEF State
    <2>2. Count # 0 => Current \in Attempts
      BY RecordParts DEF Current
    <2> QED
      BY <2>1, <2>2 DEF Draft, MaybeDraft, Attempts, None
  <1>3. /\ my.at = IF what \in {"continue", "recover"} THEN "lease" ELSE "enter"
        /\ my.what = what /\ my.waits
    BY DEF Idle
  <1>4. my \in CallStates
    <2>1. Idle \in CallStates /\ record.revision \in Nat /\ Count \in Nat
      BY RecordParts DEF Idle, CallStates, Whats, Heads, MaybeDraft
    <2>2. my.at \in {"lease", "enter"} /\ what \in Whats
      BY <1>3 DEF Whats
    <2> HIDE DEF Idle
    <2> QED
      BY <1>2, <2>1, <2>2 DEF CallStates
  <1>5. lock' \in Locks /\ (record'.stopped => lock'.lease = None)
    BY <1>1 DEF TypeOK, Locks, InsideHolds
  <1> HIDE DEF my
  <1>6. my.at \notin Inside
    BY <1>3 DEF Inside, AtExecutor
  <1>7. CallStep(c) /\ call'[c] = my
    BY <1>1, <1>3, <1>4, <1>5, <1>6, CallMoves
  <1> QED
    BY <1>1, <1>3, <1>7 DEF QuietStep, Elsewhere, Still

(* The lease is taken before the session, or the call is refused.          *)
LEMMA LeaseIsQuiet ==
    ASSUME NamesDiffer, TypeOK, InsideHolds, NEW c \in Calls, Lease(c)
    PROVE  QuietStep(c)
  <1>0. call[c].at = "lease" /\ call[c] \in CallStates
    BY DEF Lease, TypeOK
  <1>1. CASE Leased
    <2> DEFINE my == [call[c] EXCEPT !.at = "enter"]
    <2>1. /\ lock' = [lock EXCEPT !.lease = c] /\ call' = [call EXCEPT ![c] = my]
          /\ UNCHANGED <<record, remote>> /\ UNCHANGED Elsewhere
      BY <1>1 DEF Lease, Go, Elsewhere, TypeOK
    <2>2. Calm /\ Still /\ remote' \in Remotes
      BY <2>1, SameRecord, SameRemote
    <2>3. my \in CallStates /\ my.at = "enter" /\ my.waits = call[c].waits
      BY <1>0 DEF CallStates
    <2>4. call[c].waits
      BY <1>0 DEF InsideHolds, AtExecutor
    <2>5. lock' \in Locks /\ lock'.session = lock.session /\ lock'.lease = c
      BY <2>1 DEF TypeOK, Locks, Holders
    <2>6. lock.lease = None /\ ~record'.stopped
      BY <1>1, <2>1 DEF Leased
    <2>7. "enter" \notin Inside
      BY DEF Inside, AtExecutor
    <2> HIDE DEF my
    <2>9. \A d \in Calls \ {c} : /\ lock.session = d => lock'.session = d
                                 /\ lock.lease = d => lock'.lease = d
      BY <2>5, <2>6 DEF NamesDiffer
    <2>8. CallStep(c) /\ call'[c] = my
      BY <2>1, <2>3, <2>4, <2>5, <2>6, <2>7, <2>9, CallMoves
    <2> QED
      BY <1>0, <2>1, <2>2, <2>3, <2>8 DEF QuietStep, Elsewhere, Still
  <1>2. CASE ~Leased
    BY <1>0, <1>2, RefusedQuietly DEF Lease
  <1> QED
    BY <1>1, <1>2

(* A draft is taken up again, or saved over, under the session.            *)
LEMMA ResumeIsQuiet ==
    ASSUME NamesDiffer, TypeOK, InsideHolds, NEW c \in Calls, Resume(c) \/ EnterSave(c)
    PROVE  QuietStep(c)
  <1> DEFINE at == IF Resume(c) THEN "drafting" ELSE "saving"
  <1>1. PICK what : Enter(c, what, at) /\ Free /\ UNCHANGED <<record, exec>>
    BY DEF Resume, EnterSave
  <1>2. at \in Inside /\ at \in {"drafting", "saving"}
    BY DEF Inside
  <1>3. /\ at = "drafting" => State = "accepted"
        /\ at = "saving" => State \in Unapplied \cup {"draft-ready"} /\ call[c].draft = Draft
    BY DEF Resume, EnterSave, MaySave
  <1> HIDE DEF at
  <1>4. CallStep(c) /\ call'[c] = [call[c] EXCEPT !.at = at] /\ call[c].at = "enter"
    BY <1>1, <1>2, Entered
  <1>5. call'[c].at = at /\ call'[c].draft = call[c].draft
    BY <1>4 DEF TypeOK, CallStates
  <1>6. Calm /\ Still /\ UNCHANGED Elsewhere /\ remote' \in Remotes
    BY <1>1, SameRecord, SameRemote DEF Enter, Elsewhere
  <1> QED
    BY <1>2, <1>3, <1>4, <1>5, <1>6 DEF QuietStep, Elsewhere, Still

-----------------------------------------------------------------------------
(* The controls of the pull request are quiet.                             *)

(* A new control has entered.                                              *)
LEMMA EnterControlIsQuiet ==
    ASSUME NamesDiffer, TypeOK, InsideHolds, NEW c \in Calls, NEW x \in Controls,
           EnterControl(c, x)
    PROVE  QuietStep(c)
  <1> DEFINE my == [Idle EXCEPT !.at = First[x], !.what = x]
  <1>1. /\ Free /\ call[c].at = "idle" /\ UNCHANGED remote /\ UNCHANGED Elsewhere
        /\ call' = [call EXCEPT ![c] = my] /\ lock' = [lock EXCEPT !.session = c]
        /\ SetControl(x, "pending")
    BY DEF EnterControl, Elsewhere, Idle
  <1>2. Calm /\ Still
    BY <1>1, ControlWritten DEF Outcomes
  <1>3. my.at = First[x] /\ my.waits
    BY DEF Idle
  <1>4. First[x] \in {"take", "look", "stop"}
    BY DEF First, Controls
  <1>5. my \in CallStates
    <2>1. Idle \in CallStates
      BY DEF Idle, CallStates, Whats, Heads, MaybeDraft
    <2> HIDE DEF Idle
    <2> QED
      BY <1>4, <2>1 DEF CallStates, Inside, Whats
  <1>6. lock' \in Locks /\ lock'.session = c /\ lock'.lease = lock.lease
    BY <1>1 DEF TypeOK, Locks, Holders
  <1>7. record'.stopped => lock'.lease = None
    BY <1>2, <1>6 DEF InsideHolds, Still
  <1>8. \A d \in Calls \ {c} : lock.session # d
    BY <1>1 DEF Free, NamesDiffer
  <1> HIDE DEF my
  <1>9. CallStep(c) /\ call'[c] = my
    BY <1>1, <1>3, <1>4, <1>5, <1>6, <1>7, <1>8, CallMoves
  <1> QED
    BY <1>1, <1>2, <1>3, <1>4, <1>9, SameRemote DEF QuietStep, Elsewhere, Still

(* A publication takes the lease, ...                                      *)
LEMMA TakeIsQuiet ==
    ASSUME NamesDiffer, TypeOK, InsideHolds, NEW c \in Calls, Take(c)
    PROVE  QuietStep(c)
  <1>1. call[c].at = "take" /\ call[c].what \in Controls
    BY DEF Take, Works, Controls
  <1>2. CASE Leased
    <2>1. /\ lock' = [lock EXCEPT !.lease = c] /\ Go(c, "validate")
          /\ UNCHANGED <<record, remote>> /\ UNCHANGED Elsewhere
      BY <1>2 DEF Take, Elsewhere
    <2>2. "validate" \in Inside /\ call[c].at \in Inside /\ call[c].at \notin AtExecutor
      BY <1>1 DEF Inside, AtExecutor
    <2>3. call[c].waits
      BY <2>2 DEF InsideHolds
    <2>4. CallStep(c) /\ call'[c] = [call[c] EXCEPT !.at = "validate"]
      BY <1>2, <2>1, <2>2, <2>3, GoesOn
    <2>5. call'[c].at = "validate"
      BY <2>4 DEF TypeOK, CallStates
    <2>6. Calm /\ Still /\ remote' \in Remotes
      BY <2>1, SameRecord, SameRemote
    <2> QED
      BY <1>1, <2>1, <2>4, <2>5, <2>6 DEF QuietStep, Elsewhere, Still
  <1>3. CASE ~Leased
    BY <1>1, <1>3, UnknownQuietly DEF Take
  <1> QED
    BY <1>2, <1>3

(* ... goes on, as a review does, when what it looks at is as it was, ...  *)
LEMMA LookIsQuiet ==
    ASSUME NamesDiffer, TypeOK, InsideHolds, NEW c \in Calls,
           Validate(c) \/ LookReview(c)
    PROVE  QuietStep(c)
  <1>1. /\ call[c].at \in {"validate", "look"} /\ call[c].what \in Controls
    BY DEF Validate, LookReview, Works, Controls
  <1>2. \/ Unknown(c)
        \/ \E at \in {"push", "approve"} :
              Go(c, at) /\ UNCHANGED <<record, lock>> /\ UNCHANGED remote /\ UNCHANGED Elsewhere
    BY DEF Validate, LookReview, Elsewhere
  <1>3. call[c].at \in Inside /\ call[c].at \notin AtExecutor /\ {"push", "approve"} \subseteq AtExecutor
        /\ AtExecutor \subseteq Inside
    BY <1>1 DEF Inside, AtExecutor
  <1> QED
    BY <1>1, <1>2, <1>3, UnknownQuietly, GoesQuietly, SameRemote

(* ... and does not, or goes on, at the provider.                          *)
LEMMA EitherIsQuiet ==
    ASSUME NamesDiffer, TypeOK, InsideHolds, NEW c \in Calls, NEW at \in Inside,
           call[c].at \in Inside, call[c].at # "applying", call[c].what \in Controls,
           at \notin {"drafting", "saving", "applying", "discard"},
           remote' \in Remotes, UNCHANGED Elsewhere,
           \/ \E outcome \in Outcomes : Done(c, outcome)
           \/ (call[c].waits \/ at \in AtExecutor) /\ Go(c, at) /\ UNCHANGED <<record, lock>>
    PROVE  QuietStep(c)
  BY DoneQuietly, GoesQuietly

(* The remote after a push, and after a change of one pull request.        *)
LEMMA PushedRemote ==
    ASSUME TypeOK, NEW commits \in Heads
    PROVE  Pushed(commits) \in Remotes
  <1>1. /\ remote.pulls \in Seq(Pulls) /\ Len(remote.pulls) \in Nat
        /\ Known = 1..Len(remote.pulls) /\ \A i \in Known : remote.pulls[i] \in Pulls
    BY DEF TypeOK, Known
  <1> DEFINE pulls == [i \in Known |-> IF IsOpen(i) THEN [remote.pulls[i] EXCEPT !.head = commits]
                                       ELSE remote.pulls[i]]
  <1>2. \A i \in Known : pulls[i] \in Pulls
    BY <1>1 DEF Pulls
  <1>3. pulls \in [1..Len(remote.pulls) -> Pulls]
    BY <1>1, <1>2
  <1>4. pulls \in Seq(Pulls)
    BY <1>1, <1>3, SeqDef
  <1> QED
    BY <1>4 DEF Pushed, Remotes

(* The parts of the remote.                                                *)
LEMMA PullParts ==
    ASSUME TypeOK
    PROVE  /\ remote.pulls \in Seq(Pulls) /\ Known = 1..Len(remote.pulls)
           /\ \A i \in Known : remote.pulls[i] \in Pulls
  BY DEF TypeOK, Known

(* One pull request is changed.                                            *)
LEMMA PullChanged ==
    ASSUME TypeOK, NEW i, NEW pull, i \in Known => pull \in Pulls
    PROVE  [remote EXCEPT !.pulls[i] = pull] \in Remotes
  <1>1. remote.pulls \in Seq(Pulls) /\ Known = 1..Len(remote.pulls)
    BY DEF TypeOK, Known
  <1>2. [remote.pulls EXCEPT ![i] = pull] \in Seq(Pulls)
    BY <1>1, Replaced
  <1> QED
    BY <1>2 DEF Remotes, TypeOK

(* The branch is pushed, ...                                               *)
LEMMA PushIsQuiet ==
    ASSUME NamesDiffer, TypeOK, InsideHolds, NEW c \in Calls, Push(c)
    PROVE  QuietStep(c)
  <1>1. call[c].at = "push" /\ call[c].what \in Controls
    BY DEF Push, Works, Controls
  <1>2. CASE MayPush
    <2> DEFINE my == [call[c] EXCEPT !.at = "propose", !.head = tree.commits]
    <2>1. /\ call' = [call EXCEPT ![c] = my] /\ UNCHANGED <<record, lock>>
          /\ UNCHANGED Elsewhere /\ remote' = Pushed(tree.commits)
      BY <1>2 DEF Push, Elsewhere, TypeOK
    <2>2. /\ call[c] \in CallStates /\ tree.commits \in Heads /\ lock \in Locks
          /\ "propose" \in AtExecutor /\ AtExecutor \subseteq Inside /\ "push" \in Inside
      BY DEF TypeOK, Inside, AtExecutor, Locks
    <2>3. my \in CallStates /\ my.at = "propose" /\ my.waits = call[c].waits
      BY <2>2 DEF CallStates
    <2>4. remote' \in Remotes /\ Calm /\ Still
      BY <2>1, <2>2, PushedRemote, SameRecord
    <2>5. record'.stopped => lock'.lease = None
      BY <2>1 DEF InsideHolds
    <2>6. call[c].waits => lock.session = c
      BY <1>1, <2>2 DEF InsideHolds
    <2> HIDE DEF my
    <2>7. CallStep(c) /\ call'[c] = my
      BY <2>1, <2>2, <2>3, <2>5, <2>6, CallMoves
    <2> QED
      BY <1>1, <2>1, <2>3, <2>4, <2>7 DEF QuietStep, Elsewhere, Still
  <1>3. CASE ~MayPush
    BY <1>1, <1>3, UnknownQuietly DEF Push
  <1> QED
    BY <1>2, <1>3

(* ... proposed, ...                                                       *)
LEMMA ProposeIsQuiet ==
    ASSUME NamesDiffer, TypeOK, InsideHolds, NEW c \in Calls, Propose(c)
    PROVE  QuietStep(c)
  <1>1. /\ call[c].at = "propose" /\ call[c].what \in Controls /\ UNCHANGED Elsewhere
    BY DEF Propose, Works, Controls, Elsewhere
  <1>2. {"propose", "inspect"} \subseteq Inside
    BY DEF Inside, AtExecutor
  <1>3. \/ Done(c, "unknown")
        \/ call[c].waits /\ Go(c, "inspect") /\ UNCHANGED <<record, lock>>
    BY DEF Propose
  <1>4. remote' \in Remotes
    <2> DEFINE new == Append(remote.pulls, Pull(remote.branch))
    <2>0. remote.branch \in Heads /\ << >> \in Heads
      BY DEF TypeOK, Heads
    <2>1. Pull(remote.branch) \in Pulls
      BY <2>0 DEF Pull, Pulls
    <2>2. new \in Seq(Pulls)
      BY <2>1 DEF TypeOK
    <2>3. remote' = remote \/ remote' = [remote EXCEPT !.pulls = new]
      BY DEF Propose
    <2> HIDE DEF new
    <2> QED
      BY <2>2, <2>3 DEF TypeOK, Remotes
  <1> QED
    BY <1>1, <1>2, <1>3, <1>4, EitherIsQuiet DEF Outcomes

(* ... and read back.                                                      *)
LEMMA InspectIsQuiet ==
    ASSUME NamesDiffer, TypeOK, InsideHolds, NEW c \in Calls, Inspect(c)
    PROVE  QuietStep(c)
  <1> DEFINE ready == Newest # 0 /\ IsOpen(Newest) /\ remote.pulls[Newest].head = Receipt
             now == [Current EXCEPT !.pull = Newest,
                         !.control["publish"] = IF ready THEN "succeeded" ELSE "unknown"]
             attempts == [record.attempts EXCEPT ![Count] = now]
  <1>1. Newest \in Nat /\ "publish" \in Controls
    BY DEF TypeOK, Newest, Controls
  <1>2. ASSUME Count \in 1..Count
        PROVE  now \in Attempts /\ now.state = Current.state /\ now.draft = Current.draft
               /\ now.accepted = Current.accepted
    <2>1. Current \in Attempts
      BY <1>2, RecordParts DEF Current
    <2> HIDE DEF ready
    <2> QED
      BY <1>1, <2>1 DEF Attempts, Outcomes
  <1>3. Write(attempts)
    BY RecordParts DEF Inspect, Current
  <1> HIDE DEF now
  <1>4. /\ attempts \in Seq(Attempts) /\ Len(attempts) = Count
        /\ \A i \in 1..Count : attempts[i] = IF i = Count THEN now ELSE record.attempts[i]
    BY <1>2, RecordParts, Replaced DEF Count
  <1> HIDE DEF attempts
  <1>5. Alike(attempts)
    BY <1>2, <1>4 DEF Alike, Current
  <1>6. Calm /\ Still
    BY <1>3, <1>4, <1>5, WrittenAttempts DEF Calm
  <1>7. End(c) /\ UNCHANGED Elsewhere /\ remote' = remote /\ call[c].at # "applying"
    BY DEF Inspect, Works, Elsewhere
  <1> QED
    BY <1>6, <1>7, EndsQuietly, SameRemote DEF Still

(* A review is approved, and read back.                                    *)
LEMMA ApproveIsQuiet ==
    ASSUME NamesDiffer, TypeOK, InsideHolds, NEW c \in Calls, Approve(c)
    PROVE  QuietStep(c)
  <1>1. call[c].at = "approve" /\ call[c].what \in Controls
    BY DEF Approve, Works, Controls
  <1>2. {"approve", "readback"} \subseteq AtExecutor /\ AtExecutor \subseteq Inside
    BY DEF Inside, AtExecutor
  <1> DEFINE i == Current.pull
             pull == [remote.pulls[i] EXCEPT !.approved = remote.pulls[i].head]
  <1>3. CASE IsOpen(i)
    <2>1. /\ Go(c, "readback") /\ UNCHANGED <<record, lock>> /\ UNCHANGED Elsewhere
          /\ remote' = [remote EXCEPT !.pulls[i] = pull]
      BY <1>3 DEF Approve, Elsewhere
    <2>2. i \in Known => pull \in Pulls
      BY PullParts DEF Pulls
    <2>3. remote' \in Remotes
      BY <2>1, <2>2, PullChanged
    <2> QED
      BY <1>1, <1>2, <2>1, <2>3, GoesQuietly
  <1>4. CASE ~IsOpen(i)
    BY <1>1, <1>4, UnknownQuietly DEF Approve
  <1> QED
    BY <1>3, <1>4

(* What a control reads back.                                              *)
LEMMA ReadbackIsQuiet ==
    ASSUME NamesDiffer, TypeOK, InsideHolds, NEW c \in Calls,
           ReadReview(c) \/ ReadMerge(c) \/ LookMerge(c)
    PROVE  QuietStep(c)
  <1>1. /\ call[c].at \in {"readback", "look"} /\ call[c].what \in Controls
        /\ UNCHANGED Elsewhere /\ UNCHANGED remote
    BY DEF ReadReview, ReadMerge, LookMerge, Works, Controls, Elsewhere
  <1>2. "merge" \in AtExecutor /\ AtExecutor \subseteq Inside /\ {"readback", "look"} \subseteq Inside
    BY DEF Inside, AtExecutor
  <1>3. \/ \E outcome \in {"succeeded", "unknown"} : Done(c, outcome)
        \/ Go(c, "merge") /\ UNCHANGED <<record, lock>>
    BY DEF ReadReview, ReadMerge, LookMerge
  <1> QED
    BY <1>1, <1>2, <1>3, EitherIsQuiet, SameRemote DEF Outcomes

(* A pull request is merged.                                               *)
LEMMA MergeIsQuiet ==
    ASSUME NamesDiffer, TypeOK, InsideHolds, NEW c \in Calls, Merge(c)
    PROVE  QuietStep(c)
  <1>1. call[c].at = "merge" /\ call[c].what \in Controls /\ UNCHANGED Elsewhere
    BY DEF Merge, Works, Controls, Elsewhere
  <1>2. {"merge", "readback"} \subseteq AtExecutor /\ AtExecutor \subseteq Inside
    BY DEF Inside, AtExecutor
  <1>3. \/ Done(c, "unknown")
        \/ Go(c, "readback") /\ UNCHANGED <<record, lock>>
    BY DEF Merge
  <1> DEFINE pull == [remote.pulls[Newest] EXCEPT !.state = "merged"]
  <1>4. Newest \in Known => pull \in Pulls
    BY PullParts DEF Pulls
  <1>5. remote' = remote \/ remote' = [remote EXCEPT !.pulls[Newest] = pull]
    BY DEF Merge
  <1> HIDE DEF pull
  <1>6. remote' \in Remotes
    BY <1>4, <1>5, PullChanged, SameRemote
  <1> QED
    BY <1>1, <1>2, <1>3, <1>6, EitherIsQuiet DEF Outcomes

-----------------------------------------------------------------------------
(* The stop of the credential, and the withdrawal before it looks at the   *)
(* source, are quiet.                                                      *)

(* The record is written, and not its attempts.                            *)
LEMMA RecordMarked ==
    ASSUME TypeOK,
           \/ record' = [record EXCEPT !.stopped = TRUE]
           \/ \E outcome \in Outcomes : record' = [record EXCEPT !.withdrawn = outcome]
    PROVE  Calm
  <1>1. /\ record' \in Records /\ record'.attempts = record.attempts
        /\ record'.saves = record.saves
    BY DEF TypeOK, Records
  <1> QED
    BY <1>1, RecordParts DEF Calm, Alike, Count

(* A close stops the credential, unless somebody has its lease.            *)
LEMMA StopCredentialIsQuiet ==
    ASSUME NamesDiffer, TypeOK, InsideHolds, NEW c \in Calls, StopCredential(c)
    PROVE  QuietStep(c)
  <1>1. call[c].at = "stop" /\ call[c].what \in Controls
    BY DEF StopCredential, Works, Controls
  <1>2. CASE lock.lease = None
    <2>1. /\ record' = [record EXCEPT !.stopped = TRUE] /\ Go(c, "retire")
          /\ UNCHANGED <<lock, remote>> /\ UNCHANGED Elsewhere
      BY <1>2 DEF StopCredential, Revoke, Elsewhere
    <2>2. "retire" \in Inside /\ call[c].at \in Inside /\ call[c].at \notin AtExecutor
      BY <1>1 DEF Inside, AtExecutor
    <2>3. call[c].waits
      BY <2>2 DEF InsideHolds
    <2>4. CallStep(c) /\ call'[c] = [call[c] EXCEPT !.at = "retire"]
      BY <1>2, <2>1, <2>2, <2>3, GoesOn
    <2>5. call'[c].at = "retire" /\ record'.stopped /\ record'.withdrawn = record.withdrawn
      BY <2>1, <2>4 DEF TypeOK, CallStates, Records
    <2> QED
      BY <1>1, <2>1, <2>4, <2>5, RecordMarked, SameRemote DEF QuietStep, Elsewhere
  <1>3. CASE lock.lease # None
    BY <1>1, <1>3, UnknownQuietly DEF StopCredential, Revoke
  <1> QED
    BY <1>2, <1>3

(* A withdrawal enters ...                                                 *)
LEMMA WithdrawIsQuiet ==
    ASSUME NamesDiffer, TypeOK, InsideHolds, NEW c \in Calls, Withdraw(c)
    PROVE  QuietStep(c)
  <1>1. /\ Free /\ Enter(c, "withdraw", "revoke") /\ UNCHANGED Elsewhere /\ UNCHANGED remote
        /\ record' = [record EXCEPT !.withdrawn = "pending"]
    BY DEF Withdraw, Withdrawn, Enter, Elsewhere
  <1>2. Calm /\ record'.stopped = record.stopped /\ record'.withdrawn = "pending"
    BY <1>1, RecordMarked DEF TypeOK, Records, Outcomes
  <1>3. "revoke" \in Inside
    BY DEF Inside
  <1>4. CallStep(c) /\ call'[c] = [call[c] EXCEPT !.at = "revoke"] /\ call[c].at = "enter"
    BY <1>1, <1>2, <1>3, Entered
  <1>5. call'[c].at = "revoke"
    BY <1>4 DEF TypeOK, CallStates
  <1> QED
    BY <1>1, <1>2, <1>4, <1>5, SameRemote DEF QuietStep, Elsewhere

(* ... and stops the credential.                                           *)
LEMMA StopPreparationIsQuiet ==
    ASSUME NamesDiffer, TypeOK, InsideHolds, NEW c \in Calls, StopPreparation(c)
    PROVE  QuietStep(c)
  <1>1. /\ call[c].at = "revoke" /\ UNCHANGED Elsewhere /\ UNCHANGED remote
    BY DEF StopPreparation, Works, Elsewhere
  <1>2. CASE lock.lease = None
    <2>1. /\ record' = [record EXCEPT !.stopped = TRUE] /\ Go(c, "discard") /\ UNCHANGED lock
      BY <1>2 DEF StopPreparation, MayStop
    <2>2. "discard" \in Inside /\ call[c].at \in Inside /\ call[c].at \notin AtExecutor
      BY <1>1 DEF Inside, AtExecutor
    <2>3. call[c].waits
      BY <2>2 DEF InsideHolds
    <2>4. CallStep(c) /\ call'[c] = [call[c] EXCEPT !.at = "discard"]
      BY <1>2, <2>1, <2>2, <2>3, GoesOn
    <2>5. call'[c].at = "discard" /\ record'.stopped /\ record'.withdrawn = record.withdrawn
      BY <2>1, <2>4 DEF TypeOK, CallStates, Records
    <2> QED
      BY <1>1, <2>1, <2>4, <2>5, RecordMarked, SameRemote DEF QuietStep, Elsewhere
  <1>3. CASE lock.lease # None
    <2>1. record' = [record EXCEPT !.withdrawn = "unknown"] /\ End(c)
      BY <1>3 DEF StopPreparation, MayStop, Withdrawn
    <2>2. Calm /\ record'.stopped = record.stopped /\ record'.withdrawn = "unknown"
      BY <2>1, RecordMarked DEF TypeOK, Records, Outcomes
    <2> QED
      BY <1>1, <2>1, <2>2, EndsQuietly, SameRemote
  <1> QED
    BY <1>2, <1>3

(* Every step of this list is quiet.                                       *)
Quietly(c) ==
    \/ \E what \in {"generate", "save", "continue", "cancel", "withdraw", "recover"} : Ask(c, what)
    \/ Lease(c) \/ Resume(c) \/ EnterSave(c) \/ CannotSave(c)
    \/ \E x \in Controls : EnterControl(c, x)
    \/ Take(c) \/ Validate(c) \/ Push(c) \/ Propose(c) \/ Inspect(c)
    \/ LookReview(c) \/ Approve(c) \/ ReadReview(c)
    \/ LookMerge(c) \/ Merge(c) \/ ReadMerge(c)
    \/ StopCredential(c) \/ Withdraw(c) \/ StopPreparation(c) \/ Refused(c)

(* And the quiet steps keep the invariant.                                 *)
LEMMA QuietSteps ==
    ASSUME NamesDiffer, SourceInv, NEW c \in Calls, Quietly(c)
    PROVE  SourceInv'
  <1>1. TypeOK /\ InsideHolds
    BY DEF SourceInv
  <1>2. CannotSave(c) \/ Refused(c) => Refuse(c) /\ call[c].at # "applying"
    BY DEF CannotSave, Refused
  <1>3. QuietStep(c)
    BY <1>1, <1>2, AskIsQuiet, LeaseIsQuiet, ResumeIsQuiet, RefusedQuietly, EnterControlIsQuiet,
       TakeIsQuiet, LookIsQuiet, PushIsQuiet, ProposeIsQuiet, InspectIsQuiet, ApproveIsQuiet,
       ReadbackIsQuiet, MergeIsQuiet, StopCredentialIsQuiet, WithdrawIsQuiet,
       StopPreparationIsQuiet
    DEF Quietly
  <1> QED
    BY <1>3, QuietKeeps

-----------------------------------------------------------------------------
(* The executor, which nobody's place depends on.                          *)

(* A step of the executor for c, when the source is as it has to be.       *)
LEMMA ExecutorKeeps ==
    ASSUME NamesDiffer, SourceInv, NEW c \in Calls, UNCHANGED <<record, remote, lock, call>>,
           exec' \in [Calls -> Executions], \A d \in Calls \ {c} : exec'[d] = exec[d],
           exec'[c].at \in {"asked", "prepared", "committed"} =>
               exec[c].at \in {"asked", "prepared"} /\ exec'[c].draft = exec[c].draft,
           exec[c] # NoExec,
           tree' \in [commits : Heads, dirty : BOOLEAN], MadeOnce',
           results' \in [ChangeSets -> Heads],
           env' \in [hands : Nat, stops : Nat], env'.stops = 0 => env.stops = 0
    PROVE  SourceInv'
  <1>1. TypeOK'
    BY DEF SourceInv, TypeOK
  <1>2. InsideHolds' /\ Prepared' /\ DraftsAreThere' /\ SavesReplaceWhatWasRead'
    BY DEF SourceInv, InsideHolds, Prepared, HasRead, DraftsAreThere, SavesReplaceWhatWasRead,
           State, Draft, Current, Count
  <1>3. \A x : Accepted(x)' = Accepted(x)
    BY DEF Accepted
  <1>4. ExecutionsAreAccepted'
    BY <1>3 DEF SourceInv, ExecutionsAreAccepted
  <1>5. WithdrawnIsStill'
    <2>1. NoExec' = NoExec
      BY DEF NoExec
    <2>2. \A d \in Calls : exec'[d] # NoExec => exec[d] # NoExec
      OBVIOUS
    <2> QED
      BY <2>1, <2>2 DEF SourceInv, WithdrawnIsStill
  <1> QED
    BY <1>1, <1>2, <1>4, <1>5 DEF SourceInv

(* What an execution has come to.                                          *)
LEMMA Settled ==
    ASSUME TypeOK, NEW c \in Calls, NEW at \in {"prepared", "committed", "failed"},
           NEW head \in Heads, Settles(c, at, head), exec[c].at \in {"asked", "prepared"}
    PROVE  /\ exec' \in [Calls -> Executions] /\ \A d \in Calls \ {c} : exec'[d] = exec[d]
           /\ exec'[c].at = at /\ exec'[c].draft = exec[c].draft /\ exec[c] # NoExec
  <1>1. exec \in [Calls -> Executions] /\ exec[c] \in Executions
    BY DEF TypeOK
  <1> DEFINE now == [exec[c] EXCEPT !.at = at, !.head = head]
  <1>2. exec' = [exec EXCEPT ![c] = now]
    BY <1>1 DEF Settles
  <1>3. now \in Executions /\ now.at = at /\ now.draft = exec[c].draft
    BY <1>1 DEF Executions
  <1>4. exec[c] # NoExec
    BY DEF NoExec, None
  <1> HIDE DEF now
  <1> QED
    BY <1>1, <1>2, <1>3, <1>4

(* Nothing is committed when the source stays as it is.                    *)
LEMMA SameSource ==
    ASSUME SourceInv, UNCHANGED <<tree, record>>
    PROVE  MadeOnce' /\ tree' \in [commits : Heads, dirty : BOOLEAN]
  BY DEF SourceInv, MadeOnce, Accepted, TypeOK

(* The executor looks at its source.                                       *)
LEMMA LookKeeps ==
    ASSUME NamesDiffer, SourceInv, NEW c \in Calls, Look(c)
    PROVE  SourceInv'
  <1> DEFINE x == exec[c].draft
  <1>1. /\ TypeOK /\ exec[c].at = "asked" /\ UNCHANGED <<record, tree, remote, lock, call, env>>
    BY DEF Look, SourceInv
  <1>2. x \in ChangeSets /\ results[x] \in Heads /\ tree.commits \in Heads /\ << >> \in Heads
    BY <1>1 DEF SourceInv, ExecutionsAreAccepted, TypeOK, Heads
  <1>3. /\ \E at \in {"prepared", "committed", "failed"}, head \in Heads : Settles(c, at, head)
        /\ results' \in [ChangeSets -> Heads]
    BY <1>1, <1>2 DEF Look, TypeOK
  <1>4. /\ exec' \in [Calls -> Executions] /\ \A d \in Calls \ {c} : exec'[d] = exec[d]
        /\ exec'[c].draft = exec[c].draft /\ exec[c] # NoExec
    BY <1>1, <1>3, Settled
  <1>5. env' \in [hands : Nat, stops : Nat]
    BY <1>1 DEF TypeOK
  <1> QED
    BY <1>1, <1>3, <1>4, <1>5, SameSource, ExecutorKeeps

(* The draft is committed, unless it was.                                  *)
LEMMA CommitKeeps ==
    ASSUME NamesDiffer, SourceInv, NEW c \in Calls, CommitDraft(c)
    PROVE  SourceInv'
  <1> DEFINE x == exec[c].draft
  <1>1. TypeOK /\ exec[c].at = "prepared" /\ UNCHANGED <<record, remote, lock, call>>
    BY DEF CommitDraft, SourceInv
  <1>2. x \in ChangeSets /\ Accepted(x) /\ tree.commits \in Heads /\ << >> \in Heads
    BY <1>1 DEF SourceInv, ExecutionsAreAccepted, TypeOK, Heads
  <1>3. env' \in [hands : Nat, stops : Nat] /\ (env'.stops = 0 => env.stops = 0)
    <2>1. env' = env \/ env' = [env EXCEPT !.stops = env.stops + 1]
      BY <1>1 DEF CommitDraft
    <2> QED
      BY <1>1, <2>1 DEF TypeOK
  <1>4. CASE tree.dirty \/ HasCommitted(x)
    <2>1. Settles(c, "failed", << >>) /\ UNCHANGED <<tree, results>>
      BY <1>4 DEF CommitDraft
    <2>2. /\ exec' \in [Calls -> Executions] /\ \A d \in Calls \ {c} : exec'[d] = exec[d]
          /\ exec'[c].at = "failed" /\ exec[c] # NoExec
      BY <1>1, <1>2, <2>1, Settled
    <2>3. results' \in [ChangeSets -> Heads]
      BY <1>1, <2>1 DEF TypeOK
    <2> QED
      BY <1>1, <1>3, <2>1, <2>2, <2>3, SameSource, ExecutorKeeps
  <1>5. CASE ~tree.dirty /\ ~HasCommitted(x)
    <2>1. tree' = [tree EXCEPT !.commits = Append(tree.commits, x)]
      BY <1>5 DEF CommitDraft
    <2>0. Append(tree.commits, x) \in Heads
      BY <1>2 DEF Heads, Authors
    <2>2. tree' \in [commits : Heads, dirty : BOOLEAN] /\ tree'.commits = Append(tree.commits, x)
      BY <1>1, <2>0, <2>1 DEF TypeOK
    <2>3. MadeOnce'
      <3>1. /\ DOMAIN tree.commits = 1..Len(tree.commits) /\ Len(tree.commits) \in Nat
            /\ DOMAIN tree'.commits = 1..(Len(tree.commits) + 1)
            /\ \A i \in 1..(Len(tree.commits) + 1) :
                  tree'.commits[i] = IF i = Len(tree.commits) + 1 THEN x ELSE tree.commits[i]
        BY <1>2, <2>2 DEF Heads
      <3>2. \A y : Accepted(y)' = Accepted(y)
        BY <1>1 DEF Accepted
      <3>3. \A i \in 1..Len(tree.commits) : tree.commits[i] # x
        BY <1>5, <3>1 DEF HasCommitted
      <3>4. \A i, j \in 1..Len(tree.commits) :
               /\ tree.commits[i] \in ChangeSets => Accepted(tree.commits[i])
               /\ tree.commits[i] \in ChangeSets /\ tree.commits[i] = tree.commits[j] => i = j
        BY <3>1 DEF MadeOnce, SourceInv
      <3> HIDE DEF x
      <3> SUFFICES ASSUME NEW i \in 1..(Len(tree.commits) + 1), NEW j \in 1..(Len(tree.commits) + 1)
                   PROVE  /\ tree'.commits[i] \in ChangeSets => Accepted(tree'.commits[i])
                          /\ tree'.commits[i] \in ChangeSets /\ tree'.commits[i] = tree'.commits[j] => i = j
        BY <3>1, <3>2 DEF MadeOnce
      <3>5. CASE i = Len(tree.commits) + 1 \/ j = Len(tree.commits) + 1
        BY <1>2, <3>1, <3>3, <3>4, <3>5
      <3>6. CASE i \in 1..Len(tree.commits) /\ j \in 1..Len(tree.commits)
        <4>1. tree'.commits[i] = tree.commits[i] /\ tree'.commits[j] = tree.commits[j]
          BY <3>1, <3>6
        <4> QED
          BY <3>4, <3>6, <4>1
      <3> QED
        BY <3>1, <3>5, <3>6
    <2>4. \E at \in {"committed", "failed"}, head \in Heads : Settles(c, at, head)
      BY <1>2, <1>5, <2>2 DEF CommitDraft
    <2>5. results' \in [ChangeSets -> Heads]
      <3>1. results' = results \/ results' = [results EXCEPT ![x] = tree'.commits]
        BY <1>5 DEF CommitDraft
      <3>2. tree'.commits \in Heads /\ results \in [ChangeSets -> Heads]
        BY <1>1, <2>2 DEF TypeOK
      <3> QED
        BY <3>1, <3>2
    <2>6. /\ exec' \in [Calls -> Executions] /\ \A d \in Calls \ {c} : exec'[d] = exec[d]
          /\ exec'[c].draft = exec[c].draft /\ exec[c] # NoExec
      BY <1>1, <2>4, Settled
    <2> QED
      BY <1>1, <1>3, <2>2, <2>3, <2>5, <2>6, ExecutorKeeps
  <1> QED
    BY <1>4, <1>5

(* What fails leaves no commit.                                            *)
LEMMA FailureKeeps ==
    ASSUME NamesDiffer, SourceInv, NEW c \in Calls, PutBack(c) \/ CutShort(c)
    PROVE  SourceInv'
  <1>1. /\ TypeOK /\ exec[c].at = "prepared" /\ Settles(c, "failed", << >>)
        /\ UNCHANGED <<record, remote, results, lock, call>>
    BY DEF PutBack, CutShort, SourceInv
  <1>2. tree' \in [commits : Heads, dirty : BOOLEAN] /\ tree'.commits = tree.commits
    BY <1>1 DEF PutBack, CutShort, TypeOK
  <1>3. env' \in [hands : Nat, stops : Nat] /\ (env'.stops = 0 => env.stops = 0)
    BY <1>1 DEF PutBack, CutShort, TypeOK
  <1>4. MadeOnce'
    BY <1>1, <1>2 DEF SourceInv, MadeOnce, Accepted
  <1>5. << >> \in Heads /\ results' \in [ChangeSets -> Heads]
    BY <1>1 DEF Heads, TypeOK
  <1>6. /\ exec' \in [Calls -> Executions] /\ \A d \in Calls \ {c} : exec'[d] = exec[d]
        /\ exec'[c].at = "failed" /\ exec[c] # NoExec
    BY <1>1, <1>5, Settled
  <1> QED
    BY <1>1, <1>2, <1>3, <1>4, <1>5, <1>6, ExecutorKeeps

(* An execution that nobody waits for is forgotten.                        *)
LEMMA ForgottenKeeps ==
    ASSUME NamesDiffer, SourceInv, NEW c \in Calls, Forgotten(c)
    PROVE  SourceInv'
  <1>1. /\ TypeOK /\ exec[c].at \in {"committed", "failed"} /\ exec' = [exec EXCEPT ![c] = NoExec]
        /\ UNCHANGED <<record, tree, remote, results, lock, call, env>>
    BY DEF Forgotten, SourceInv
  <1>2. NoExec \in Executions /\ NoExec.at = None /\ exec[c] # NoExec
    BY <1>1 DEF NoExec, Executions, MaybeDraft, Heads, None
  <1>3. exec' \in [Calls -> Executions] /\ exec'[c] = NoExec /\ \A d \in Calls \ {c} : exec'[d] = exec[d]
    BY <1>1, <1>2 DEF TypeOK
  <1>4. results' \in [ChangeSets -> Heads] /\ env' \in [hands : Nat, stops : Nat]
    BY <1>1 DEF TypeOK
  <1> QED
    BY <1>1, <1>2, <1>3, <1>4, SameSource, ExecutorKeeps DEF None

-----------------------------------------------------------------------------
(* The attempts.  A call that writes them has the session, or takes it.    *)

Rising == \A x : Accepted(x) => Accepted(x)'

(* What the other calls have read stays so.                                *)
LEMMA OthersHaveRead ==
    ASSUME NamesDiffer, SourceInv, NEW c \in Calls, CallStep(c),
           lock.session \in {c, None} \/ Calm, record.stopped => record'.stopped,
           HasRead(c)'
    PROVE  Prepared'
  <1> SUFFICES ASSUME NEW d \in Calls, d # c
               PROVE  HasRead(d)'
    BY DEF Prepared
  <1>1. call'[d] = call[d] /\ HasRead(d)
    BY DEF CallStep, SourceInv, Prepared
  <1>2. CASE Calm
    BY <1>1, <1>2, AlikeState DEF SourceInv, HasRead, Unapplied
  <1>3. CASE lock.session \in {c, None}
    <2>1. lock.session # d
      BY <1>3 DEF NamesDiffer
    <2>2. ~(call[d].at \in Inside /\ call[d].waits)
      BY <2>1 DEF SourceInv, InsideHolds
    <2>3. call[d].at \notin {"drafting", "saving", "applying"}
      BY <2>2 DEF SourceInv, InsideHolds, Inside, AtExecutor
    <2> QED
      BY <1>1, <2>3 DEF HasRead
  <1> QED
    BY <1>2, <1>3

(* An attempt is added, ...                                                *)
LEMMA AttemptAdded ==
    ASSUME TypeOK, DraftsAreThere, NEW attempt \in Attempts, attempt.state \notin Live,
           attempt.state = "draft-ready" => attempt.draft \in ChangeSets,
           record'.attempts = Append(record.attempts, attempt)
    PROVE  /\ record'.attempts \in Seq(Attempts) /\ Rising /\ DraftsAreThere'
           /\ State' = attempt.state
           /\ Draft' = IF attempt.state = "draft-ready" THEN attempt.draft ELSE None
  <1>1. /\ record'.attempts \in Seq(Attempts) /\ Count' = Count + 1 /\ Count \in Nat
        /\ DOMAIN record'.attempts = 1..(Count + 1) /\ DOMAIN record.attempts = 1..Count
        /\ \A i \in 1..(Count + 1) :
              record'.attempts[i] = IF i = Count + 1 THEN attempt ELSE record.attempts[i]
    BY RecordParts DEF Count
  <1>2. Rising
    BY <1>1 DEF Rising, Accepted
  <1>3. DraftsAreThere'
    BY <1>1 DEF DraftsAreThere
  <1>4. Current' = attempt /\ Count' # 0
    BY <1>1 DEF Current
  <1>5. State' = attempt.state
    BY <1>4 DEF State
  <1> QED
    BY <1>1, <1>2, <1>3, <1>4, <1>5 DEF Draft

(* In the record after the step.                                           *)
AcceptedThen(x) ==
    \E i \in DOMAIN record'.attempts :
        /\ record'.attempts[i].accepted = x /\ record'.attempts[i].draft = x
        /\ record'.attempts[i].state \in Live

(* ... or the current one changed, which stays applied when it was.        *)
LEMMA AttemptChanged ==
    ASSUME TypeOK, DraftsAreThere, NEW attempt \in Attempts, Count # 0,
           Current.state \in Live => attempt.state \in Live /\ attempt.draft = Current.draft
                                         /\ attempt.accepted = Current.accepted,
           attempt.state \in Live \cup {"draft-ready"} => attempt.draft \in ChangeSets,
           attempt.state \in Live => attempt.accepted = attempt.draft,
           record'.attempts = [record.attempts EXCEPT ![Count] = attempt]
    PROVE  /\ record'.attempts \in Seq(Attempts) /\ Rising /\ DraftsAreThere'
           /\ State' = attempt.state
           /\ Draft' = IF attempt.state = "draft-ready" THEN attempt.draft ELSE None
           /\ attempt.state \in Live => AcceptedThen(attempt.draft)
  <1>1. Count \in Nat /\ DOMAIN record.attempts = 1..Count /\ record.attempts \in Seq(Attempts)
    BY RecordParts
  <1>2. /\ record'.attempts \in Seq(Attempts) /\ Len(record'.attempts) = Count
        /\ \A i \in 1..Count :
              record'.attempts[i] = IF i = Count THEN attempt ELSE record.attempts[i]
    BY <1>1, Replaced DEF Count
  <1>3. Count' = Count /\ DOMAIN record'.attempts = 1..Count
    BY <1>2 DEF Count
  <1>4. Rising
    BY <1>1, <1>2, <1>3 DEF Rising, Accepted, Current
  <1>5. DraftsAreThere'
    BY <1>1, <1>2, <1>3 DEF DraftsAreThere
  <1>6. Current' = attempt /\ Count' # 0
    BY <1>1, <1>2, <1>3 DEF Current
  <1>7. State' = attempt.state
    BY <1>6 DEF State
  <1>8. attempt.state \in Live => AcceptedThen(attempt.draft)
    BY <1>1, <1>2, <1>3 DEF AcceptedThen
  <1> QED
    BY <1>2, <1>4, <1>5, <1>6, <1>7, <1>8 DEF Draft

(* A step of a call that may write the attempts keeps the invariant.       *)
LEMMA WriterKeeps ==
    ASSUME NamesDiffer, SourceInv, NEW c \in Calls, CallStep(c),
           record' \in Records, Still, Rising, DraftsAreThere', SavesReplaceWhatWasRead',
           lock.session \in {c, None} \/ Calm, HasRead(c)',
           UNCHANGED <<tree, remote, results>>,
           exec' \in [Calls -> Executions], \A d \in Calls \ {c} : exec'[d] = exec[d],
           exec'[c].at \in {"asked", "prepared", "committed"} =>
               \/ exec'[c] = exec[c]
               \/ (exec[c].draft \in ChangeSets /\ Accepted(exec[c].draft))',
           env' \in [hands : Nat, stops : Nat],
           env'.stops = 0 =>
               /\ env.stops = 0
               /\ exec'[c] # NoExec =>
                     /\ call'[c].at = "applying"
                     /\ exec[c] # NoExec \/ record.withdrawn # "succeeded"
    PROVE  SourceInv'
  <1>1. TypeOK'
    BY DEF SourceInv, TypeOK, CallStep, Locks
  <1>2. Prepared' /\ InsideHolds'
    <2>1. record.stopped => record'.stopped
      BY DEF Still
    <2>2. InsideHolds'
      BY DEF CallStep
    <2> QED
      BY <2>1, <2>2, OthersHaveRead
  <1>3. ExecutionsAreAccepted'
    BY DEF SourceInv, ExecutionsAreAccepted, Rising
  <1>4. MadeOnce'
    BY DEF SourceInv, MadeOnce, Rising
  <1>5. WithdrawnIsStill'
    <2>1. NoExec' = NoExec /\ Made' = Made
      BY DEF NoExec, Made, HasCommitted
    <2>2. \A d \in Calls \ {c} : call'[d] = call[d]
      BY DEF CallStep
    <2> QED
      BY <2>1, <2>2 DEF SourceInv, WithdrawnIsStill, Still
  <1> QED
    BY <1>1, <1>2, <1>3, <1>4, <1>5 DEF SourceInv

(* Who writes, and has nothing of the executor.                            *)
LEMMA DraftKeeps ==
    ASSUME NamesDiffer, SourceInv, NEW c \in Calls, CallStep(c),
           record' \in Records, Still, Rising, DraftsAreThere', SavesReplaceWhatWasRead',
           lock.session \in {c, None}, HasRead(c)', call[c].at # "applying",
           UNCHANGED <<tree, remote, results, exec, env>>
    PROVE  SourceInv'
  <1>1. exec' \in [Calls -> Executions] /\ env' \in [hands : Nat, stops : Nat]
    BY DEF SourceInv, TypeOK
  <1>2. env.stops = 0 => exec[c] = NoExec
    BY DEF SourceInv, WithdrawnIsStill
  <1> QED
    BY <1>1, <1>2, WriterKeeps

(* A new attempt.                                                          *)
LEMMA NewAttempt ==
    ASSUME NEW state \in States, NEW draft \in MaybeDraft
    PROVE  /\ Attempt(state, draft) \in Attempts
           /\ Attempt(state, draft).state = state /\ Attempt(state, draft).draft = draft
  <1>1. NoControls \in [Controls -> Outcomes] /\ << >> \in Heads /\ None \in MaybeDraft
    BY DEF NoControls, Outcomes, Heads, MaybeDraft
  <1> HIDE DEF NoControls
  <1> QED
    BY <1>1 DEF Attempt, Attempts

(* A generation begins, ...                                                *)
LEMMA GenerateKeeps ==
    ASSUME NamesDiffer, SourceInv, NEW c \in Calls, Generate(c)
    PROVE  SourceInv'
  <1> DEFINE attempt == Attempt("accepted", None)
  <1>1. /\ TypeOK /\ InsideHolds /\ DraftsAreThere /\ Free /\ Enter(c, "generate", "drafting")
        /\ Write(Append(record.attempts, attempt)) /\ UNCHANGED <<tree, remote, results, exec, env>>
    BY DEF SourceInv, Generate, Enter
  <1>2. attempt \in Attempts /\ attempt.state = "accepted" /\ attempt.state \notin Live
    BY NewAttempt DEF States, MaybeDraft, Live
  <1> HIDE DEF attempt
  <1>3. /\ record' \in Records /\ Still /\ record'.attempts = Append(record.attempts, attempt)
        /\ record'.saves = record.saves
    <2>1. Append(record.attempts, attempt) \in Seq(Attempts)
      BY <1>1, <1>2, RecordParts
    <2> QED
      BY <1>1, <2>1, WrittenAttempts
  <1>4. Rising /\ DraftsAreThere' /\ State' = "accepted"
    BY <1>1, <1>2, <1>3, AttemptAdded
  <1>5. "drafting" \in Inside
    BY DEF Inside
  <1>6. CallStep(c) /\ call'[c] = [call[c] EXCEPT !.at = "drafting"] /\ call[c].at = "enter"
    BY <1>1, <1>3, <1>5, Entered DEF Still
  <1>7. HasRead(c)'
    BY <1>1, <1>4, <1>6 DEF HasRead, TypeOK, CallStates
  <1>8. SavesReplaceWhatWasRead'
    BY <1>3 DEF SourceInv, SavesReplaceWhatWasRead
  <1> QED
    BY <1>1, <1>3, <1>4, <1>6, <1>7, <1>8, DraftKeeps DEF Free

(* The state of the current attempt is written.                            *)
LEMMA StateWritten ==
    ASSUME SourceInv, Count # 0, NEW state \in States, Current.state \notin Live,
           state \notin Live \cup {"draft-ready"}, Write(Change("state", state))
    PROVE  /\ record' \in Records /\ Still /\ Rising /\ DraftsAreThere'
           /\ SavesReplaceWhatWasRead'
  <1> DEFINE attempt == [Current EXCEPT !.state = state]
             attempts == [record.attempts EXCEPT ![Count] = attempt]
  <1>1. TypeOK /\ DraftsAreThere /\ Current \in Attempts
    BY RecordParts DEF SourceInv, Current
  <1>2. attempt \in Attempts /\ attempt.state = state
    BY <1>1 DEF Attempts
  <1>3. Write(attempts)
    BY DEF Change, Current
  <1> HIDE DEF attempt
  <1>4. attempts \in Seq(Attempts)
    BY <1>1, <1>2, RecordParts, Replaced DEF Count
  <1> HIDE DEF attempts
  <1>5. /\ record' \in Records /\ Still /\ record'.attempts = attempts
        /\ record'.saves = record.saves
    BY <1>1, <1>3, <1>4, WrittenAttempts
  <1>6. Rising /\ DraftsAreThere'
    BY <1>1, <1>2, <1>5, AttemptChanged DEF attempts
  <1> QED
    BY <1>5, <1>6 DEF SourceInv, SavesReplaceWhatWasRead

(* ... and ends, with a draft or without, ...                              *)
LEMMA GeneratedKeeps ==
    ASSUME NamesDiffer, SourceInv, NEW c \in Calls, Generated(c)
    PROVE  SourceInv'
  <1>1. /\ TypeOK /\ InsideHolds /\ DraftsAreThere /\ call[c].at = "drafting" /\ End(c)
        /\ UNCHANGED <<tree, remote, results, exec, env>>
    BY DEF SourceInv, Generated
  <1>2. State = "accepted"
    BY <1>1 DEF SourceInv, Prepared, HasRead
  <1>3. Count # 0 /\ Current.state = "accepted" /\ Current \in Attempts
    BY <1>1, <1>2, RecordParts DEF State, Current, None
  <1>4. lock.session = c
    BY <1>1 DEF InsideHolds, Inside, AtExecutor
  <1>5. ASSUME record' \in Records, Still, Rising, DraftsAreThere', SavesReplaceWhatWasRead'
        PROVE  SourceInv'
    <2>1. CallStep(c) /\ call'[c] = Idle
      BY <1>1, <1>5, Ends DEF Still
    <2>2. HasRead(c)'
      BY <2>1 DEF HasRead, Idle
    <2> QED
      BY <1>1, <1>4, <1>5, <2>1, <2>2, DraftKeeps
  <1>6. CASE \E end \in {"failed", "cancelled"} : Write(Change("state", end))
    <2>1. PICK end \in {"failed", "cancelled"} : Write(Change("state", end))
      BY <1>6
    <2>2. end \in States /\ end \notin Live \cup {"draft-ready"} /\ "accepted" \notin Live
      BY DEF States, Unapplied, Live
    <2> QED
      BY <1>3, <1>5, <2>1, <2>2, StateWritten
  <1>7. ASSUME NEW x \in ChangeSets,
               Write([Change("state", "draft-ready") EXCEPT ![Count].draft = x])
        PROVE  SourceInv'
    <2> DEFINE attempt == [Current EXCEPT !.state = "draft-ready", !.draft = x]
               attempts == [record.attempts EXCEPT ![Count] = attempt]
    <2>1. /\ attempt \in Attempts /\ attempt.state = "draft-ready" /\ attempt.draft = x
          /\ "draft-ready" \notin Live /\ "accepted" \notin Live
      BY <1>3 DEF Attempts, States, MaybeDraft, Live
    <2>2. Write(attempts)
      <3>1. [Change("state", "draft-ready") EXCEPT ![Count].draft = x] = attempts
        BY <1>1, <1>3, RecordParts DEF Change, Current
      <3> QED
        BY <1>7, <3>1
    <2> HIDE DEF attempt
    <2>3. attempts \in Seq(Attempts)
      BY <1>1, <2>1, RecordParts, Replaced DEF Count
    <2> HIDE DEF attempts
    <2>4. /\ record' \in Records /\ Still /\ record'.attempts = attempts
          /\ record'.saves = record.saves
      BY <1>1, <2>2, <2>3, WrittenAttempts
    <2>5. Rising /\ DraftsAreThere'
      BY <1>1, <1>3, <2>1, <2>4, AttemptChanged DEF attempts
    <2>6. SavesReplaceWhatWasRead'
      BY <2>4 DEF SourceInv, SavesReplaceWhatWasRead
    <2> QED
      BY <1>5, <2>4, <2>5, <2>6
  <1> QED
    BY <1>6, <1>7 DEF Generated

(* ... or is cancelled, ...                                                *)
LEMMA CancelKeeps ==
    ASSUME NamesDiffer, SourceInv, NEW c \in Calls, Cancel(c)
    PROVE  SourceInv'
  <1>1. /\ TypeOK /\ InsideHolds /\ Free /\ State \in Cancellable /\ call[c].at = "enter" /\ End(c)
        /\ Write(Change("state", "cancelled")) /\ UNCHANGED <<tree, remote, results, exec, env>>
    BY DEF SourceInv, Cancel
  <1>2. Count # 0 /\ Current.state \in Cancellable
    BY <1>1 DEF State, Cancellable, None
  <1>3. Current.state \notin Live /\ "cancelled" \in States /\ "cancelled" \notin Live \cup {"draft-ready"}
    BY <1>2 DEF Cancellable, Live, States, Unapplied
  <1>4. record' \in Records /\ Still /\ Rising /\ DraftsAreThere' /\ SavesReplaceWhatWasRead'
    BY <1>1, <1>2, <1>3, StateWritten
  <1>5. CallStep(c) /\ call'[c] = Idle
    BY <1>1, <1>4, Ends DEF Still
  <1>6. HasRead(c)'
    BY <1>5 DEF HasRead, Idle
  <1> QED
    BY <1>1, <1>4, <1>5, <1>6, DraftKeeps DEF Free

(* A save replaces the draft that the call had read.                       *)
LEMMA SaveKeeps ==
    ASSUME NamesDiffer, SourceInv, NEW c \in Calls, Save(c)
    PROVE  SourceInv'
  <1>1. /\ TypeOK /\ InsideHolds /\ DraftsAreThere /\ call[c].at = "saving" /\ End(c)
        /\ UNCHANGED <<tree, remote, results, exec, env>>
    BY DEF SourceInv, Save
  <1>2. State \in Unapplied \cup {"draft-ready"} /\ call[c].draft = Draft
    BY <1>1 DEF SourceInv, Prepared, HasRead
  <1>3. lock.session = c
    BY <1>1 DEF InsideHolds, Inside, AtExecutor
  <1> DEFINE saved(x) == [draft |-> x, read |-> call[c].draft, over |-> Draft]
             attempts(x) == IF State = "draft-ready" THEN Change("draft", x)
                            ELSE Append(record.attempts, Attempt("draft-ready", x))
  <1>4. PICK x \in ChangeSets :
            record' = [record EXCEPT !.revision = @ + 1, !.saves = Append(@, saved(x)),
                                     !.attempts = attempts(x)]
    BY DEF Save
  <1>5. /\ attempts(x) \in Seq(Attempts)
        /\ record'.attempts = attempts(x) => Rising /\ DraftsAreThere'
    <2>1. CASE State = "draft-ready"
      <3> DEFINE attempt == [Current EXCEPT !.draft = x]
      <3>1. Count # 0 /\ Current.state = "draft-ready" /\ Current \in Attempts
        BY <1>1, <2>1, RecordParts DEF State, Current, None
      <3>2. /\ attempt \in Attempts /\ attempt.state = "draft-ready" /\ attempt.draft = x
            /\ "draft-ready" \notin Live
        BY <3>1 DEF Attempts, MaybeDraft, Live
      <3>3. attempts(x) = [record.attempts EXCEPT ![Count] = attempt]
        BY <2>1 DEF Change, Current
      <3> HIDE DEF attempt, attempts
      <3>4. attempts(x) \in Seq(Attempts)
        BY <1>1, <3>2, <3>3, RecordParts, Replaced DEF Count
      <3>5. record'.attempts = attempts(x) => Rising /\ DraftsAreThere'
        BY <1>1, <3>1, <3>2, <3>3, AttemptChanged
      <3> QED
        BY <3>4, <3>5
    <2>2. CASE State # "draft-ready"
      <3> DEFINE attempt == Attempt("draft-ready", x)
      <3>1. /\ attempt \in Attempts /\ attempt.state = "draft-ready" /\ attempt.draft = x
            /\ "draft-ready" \notin Live
        BY NewAttempt DEF States, MaybeDraft, Live
      <3>2. attempts(x) = Append(record.attempts, attempt)
        BY <2>2
      <3> HIDE DEF attempt, attempts
      <3>3. attempts(x) \in Seq(Attempts)
        BY <1>1, <3>1, <3>2, RecordParts
      <3>4. record'.attempts = attempts(x) => Rising /\ DraftsAreThere'
        BY <1>1, <3>1, <3>2, AttemptAdded
      <3> QED
        BY <3>3, <3>4
    <2> QED
      BY <2>1, <2>2
  <1>6. saved(x) \in Saves /\ saved(x).read = saved(x).over
    <2>1. call[c].draft \in MaybeDraft
      BY <1>1 DEF TypeOK, CallStates
    <2> QED
      BY <1>2, <2>1 DEF Saves
  <1> HIDE DEF attempts, saved
  <1>7. /\ record' \in Records /\ Still /\ record'.attempts = attempts(x)
        /\ record'.saves = Append(record.saves, saved(x))
    <2> DEFINE first == [record EXCEPT !.saves = Append(record.saves, saved(x))]
               second == [first EXCEPT !.attempts = attempts(x)]
    <2>1. record \in Records /\ Append(record.saves, saved(x)) \in Seq(Saves)
      BY <1>1, <1>6 DEF TypeOK, Records
    <2>2. /\ first \in Records /\ first.saves = Append(record.saves, saved(x))
          /\ first.revision = record.revision
          /\ first.withdrawn = record.withdrawn /\ first.stopped = record.stopped
      BY <2>1 DEF Records
    <2>3. record' = [second EXCEPT !.revision = record.revision + 1]
      BY <1>4, <2>1 DEF Records
    <2> HIDE DEF first
    <2>4. /\ second \in Records /\ second.saves = first.saves /\ second.attempts = attempts(x)
          /\ second.revision = first.revision
          /\ second.withdrawn = first.withdrawn /\ second.stopped = first.stopped
      BY <1>5, <2>2 DEF Records
    <2> HIDE DEF second
    <2>5. /\ record' \in Records /\ record'.attempts = second.attempts
          /\ record'.saves = second.saves /\ record'.withdrawn = second.withdrawn
          /\ record'.stopped = second.stopped
      <3>1. record.revision + 1 \in Nat
        BY <2>1 DEF Records
      <3>2. second \in Records
        BY <2>4
      <3> QED
        BY <2>3, <3>1, <3>2 DEF Records
    <2> QED
      BY <2>2, <2>4, <2>5 DEF Still
  <1>8. SavesReplaceWhatWasRead'
    <2>1. record.saves \in Seq(Saves)
      BY <1>1 DEF TypeOK, Records
    <2>2. /\ DOMAIN record.saves = 1..Len(record.saves) /\ Len(record.saves) \in Nat
          /\ DOMAIN record'.saves = 1..(Len(record.saves) + 1)
          /\ \A i \in 1..(Len(record.saves) + 1) :
                record'.saves[i] = IF i = Len(record.saves) + 1 THEN saved(x) ELSE record.saves[i]
      BY <1>7, <2>1
    <2> QED
      BY <1>6, <2>2 DEF SourceInv, SavesReplaceWhatWasRead
  <1>9. CallStep(c) /\ call'[c] = Idle
    BY <1>1, <1>7, Ends DEF Still
  <1>10. HasRead(c)'
    BY <1>9 DEF HasRead, Idle
  <1> QED
    BY <1>1, <1>3, <1>5, <1>7, <1>8, <1>9, <1>10, DraftKeeps

-----------------------------------------------------------------------------
(* A draft is applied.                                                     *)

(* What the executor is sent, when the credential was not stopped.         *)
LEMMA Sent ==
    ASSUME TypeOK, NEW c \in Calls, Send(c), Current.draft \in ChangeSets
    PROVE  /\ exec' \in [Calls -> Executions] /\ \A d \in Calls \ {c} : exec'[d] = exec[d]
           /\ exec'[c].at = "asked" /\ exec'[c].draft = Current.draft
  <1> DEFINE sent == [NoExec EXCEPT !.at = "asked", !.draft = Current.draft]
  <1>1. sent \in Executions /\ sent.at = "asked" /\ sent.draft = Current.draft
    <2>1. NoExec \in Executions
      BY DEF NoExec, Executions, MaybeDraft, Heads
    <2> HIDE DEF NoExec
    <2> QED
      BY <2>1 DEF Executions, MaybeDraft
  <1>2. exec' = [exec EXCEPT ![c] = sent]
    BY DEF Send
  <1> HIDE DEF sent
  <1> QED
    BY <1>1, <1>2 DEF TypeOK

(* Who has the lease is of a request that is not withdrawn.                *)
LEMMA LeasedIsOpen ==
    ASSUME NamesDiffer, SourceInv, NEW c \in Calls, call[c].at = "enter",
           call[c].what \in {"continue", "recover"}
    PROVE  record.withdrawn # "succeeded"
  BY DEF SourceInv, InsideHolds, WithdrawnIsStill, NamesDiffer

(* The draft that was read is accepted, ...                                *)
LEMMA ContinueKeeps ==
    ASSUME NamesDiffer, SourceInv, NEW c \in Calls, Continue(c)
    PROVE  SourceInv'
  <1> DEFINE attempt == [Current EXCEPT !.state = "applying", !.accepted = call[c].draft]
             attempts == [record.attempts EXCEPT ![Count] = attempt]
  <1>1. /\ TypeOK /\ InsideHolds /\ DraftsAreThere /\ Free /\ Enter(c, "continue", "applying")
        /\ State = "draft-ready" /\ call[c].draft = Current.draft /\ Send(c)
        /\ Write([Change("state", "applying") EXCEPT ![Count].accepted = call[c].draft])
        /\ UNCHANGED <<tree, remote, results, env>>
    BY DEF SourceInv, Continue, Accepts, Enter
  <1>2. Count # 0 /\ Current.state = "draft-ready" /\ Current \in Attempts
    BY <1>1, RecordParts DEF State, Current, None
  <1>3. Current.draft \in ChangeSets
    BY <1>1, <1>2, RecordParts DEF DraftsAreThere, Current
  <1>4. /\ attempt \in Attempts /\ attempt.state = "applying" /\ attempt.state \in Live
        /\ attempt.draft = Current.draft /\ attempt.accepted = Current.draft
        /\ "draft-ready" \notin Live
    BY <1>1, <1>2, <1>3 DEF Attempts, States, MaybeDraft, Live
  <1>5. [Change("state", "applying") EXCEPT ![Count].accepted = call[c].draft] = attempts
    BY <1>1, <1>2, RecordParts DEF Change, Current
  <1>6. Write(attempts)
    BY <1>1, <1>5
  <1> HIDE DEF attempt
  <1>7. attempts \in Seq(Attempts)
    BY <1>1, <1>4, RecordParts, Replaced DEF Count
  <1> HIDE DEF attempts
  <1>8. /\ record' \in Records /\ Still /\ record'.attempts = attempts
        /\ record'.saves = record.saves
    BY <1>1, <1>6, <1>7, WrittenAttempts
  <1>9. /\ Rising /\ DraftsAreThere' /\ State' = "applying"
        /\ AcceptedThen(attempt.draft)
    BY <1>1, <1>2, <1>3, <1>4, <1>8, AttemptChanged DEF attempts
  <1>10. "applying" \in Inside
    BY DEF Inside
  <1>11. CallStep(c) /\ call'[c] = [call[c] EXCEPT !.at = "applying"] /\ call[c].at = "enter"
    BY <1>1, <1>8, <1>10, Entered DEF Still
  <1>12. call'[c].at = "applying" /\ call[c].what = "continue"
    BY <1>1, <1>11 DEF TypeOK, CallStates, Enter
  <1>13. HasRead(c)'
    BY <1>9, <1>12 DEF HasRead
  <1>14. SavesReplaceWhatWasRead'
    BY <1>8 DEF SourceInv, SavesReplaceWhatWasRead
  <1>15. /\ exec' \in [Calls -> Executions] /\ \A d \in Calls \ {c} : exec'[d] = exec[d]
         /\ exec'[c].at = "asked" /\ exec'[c].draft = Current.draft
    BY <1>1, <1>3, Sent
  <1>16. (exec[c].draft \in ChangeSets /\ Accepted(exec[c].draft))'
    BY <1>3, <1>4, <1>9, <1>15 DEF Accepted, AcceptedThen
  <1>17. record.withdrawn # "succeeded"
    BY <1>11, <1>12, LeasedIsOpen
  <1>18. env' \in [hands : Nat, stops : Nat] /\ env' = env /\ lock.session = None
    BY <1>1 DEF TypeOK, Free
  <1> QED
    BY <1>1, <1>8, <1>9, <1>11, <1>12, <1>13, <1>14, <1>15, <1>16, <1>17, <1>18, WriterKeeps

(* ... or was, and is sent again, ...                                      *)
LEMMA RecoverKeeps ==
    ASSUME NamesDiffer, SourceInv, NEW c \in Calls, Recover(c)
    PROVE  SourceInv'
  <1>1. /\ TypeOK /\ InsideHolds /\ DraftsAreThere /\ Free /\ Enter(c, "recover", "applying")
        /\ State \in {"applying", "apply-unknown"} /\ Send(c)
        /\ UNCHANGED <<record, tree, remote, results, env>>
    BY DEF SourceInv, Recover, Enter
  <1>2. Count # 0 /\ Current.state \in {"applying", "apply-unknown"}
    BY <1>1 DEF State, None
  <1>3. Count \in DOMAIN record.attempts
    BY <1>1, <1>2, RecordParts
  <1>4. Current.draft \in ChangeSets /\ Accepted(Current.draft)
    BY <1>1, <1>2, <1>3 DEF DraftsAreThere, Accepted, Current, Live
  <1>5. Calm /\ Still /\ record' \in Records
    BY <1>1, SameRecord DEF Calm
  <1>6. Rising /\ DraftsAreThere' /\ State' = State
    BY <1>1, <1>5, AlikeState DEF Rising
  <1>7. "applying" \in Inside
    BY DEF Inside
  <1>8. CallStep(c) /\ call'[c] = [call[c] EXCEPT !.at = "applying"] /\ call[c].at = "enter"
    BY <1>1, <1>7, Entered
  <1>9. call'[c].at = "applying" /\ call[c].what = "recover"
    BY <1>1, <1>8 DEF TypeOK, CallStates, Enter
  <1>10. HasRead(c)'
    BY <1>1, <1>6, <1>9 DEF HasRead
  <1>11. SavesReplaceWhatWasRead'
    BY <1>1 DEF SourceInv, SavesReplaceWhatWasRead
  <1>12. /\ exec' \in [Calls -> Executions] /\ \A d \in Calls \ {c} : exec'[d] = exec[d]
         /\ exec'[c].at = "asked" /\ exec'[c].draft = Current.draft
    BY <1>1, <1>4, Sent
  <1>13. (exec[c].draft \in ChangeSets /\ Accepted(exec[c].draft))'
    BY <1>1, <1>4, <1>12 DEF Accepted
  <1>14. record.withdrawn # "succeeded"
    BY <1>8, <1>9, LeasedIsOpen
  <1>15. env' \in [hands : Nat, stops : Nat] /\ env' = env
    BY <1>1 DEF TypeOK
  <1> QED
    BY <1>1, <1>5, <1>6, <1>8, <1>9, <1>10, <1>11, <1>12, <1>13, <1>14, <1>15, WriterKeeps

(* ... and what comes of it is written; it stays accepted.                 *)
LEMMA OutcomeWritten ==
    ASSUME NamesDiffer, SourceInv, NEW c \in Calls, call[c].at = "applying",
           NEW state \in {"source-created", "apply-unknown"}, NEW head \in Heads,
           \/ Write([Change("state", state) EXCEPT ![Count].receipt = head])
           \/ Write(Change("state", state))
    PROVE  /\ record' \in Records /\ Still /\ Rising /\ DraftsAreThere'
           /\ SavesReplaceWhatWasRead'
  <1> DEFINE first == [Current EXCEPT !.state = state, !.receipt = head]
             second == [Current EXCEPT !.state = state]
  <1>1. TypeOK /\ DraftsAreThere /\ State \in {"applying", "apply-unknown"}
    BY DEF SourceInv, Prepared, HasRead
  <1>2. Count # 0 /\ Current.state \in {"applying", "apply-unknown"} /\ Current \in Attempts
        /\ Count \in DOMAIN record.attempts
    BY <1>1, RecordParts DEF State, Current, None
  <1>3. /\ Current.state \in Live /\ state \in Live /\ Live \subseteq States
        /\ Current.draft \in ChangeSets /\ Current.accepted = Current.draft
    BY <1>1, <1>2 DEF DraftsAreThere, Current, Live, States
  <1>4. \E attempt \in Attempts :
            /\ attempt.state = state /\ attempt.draft = Current.draft
            /\ attempt.accepted = Current.accepted
            /\ Write([record.attempts EXCEPT ![Count] = attempt])
    <2>1. /\ first \in Attempts /\ first.state = state /\ first.draft = Current.draft
          /\ first.accepted = Current.accepted
      BY <1>2, <1>3 DEF Attempts
    <2>2. /\ second \in Attempts /\ second.state = state /\ second.draft = Current.draft
          /\ second.accepted = Current.accepted
      BY <1>2, <1>3 DEF Attempts
    <2>3. \/ Write([record.attempts EXCEPT ![Count] = first])
          \/ Write([record.attempts EXCEPT ![Count] = second])
      <3>1. /\ [Change("state", state) EXCEPT ![Count].receipt = head]
                 = [record.attempts EXCEPT ![Count] = first]
            /\ Change("state", state) = [record.attempts EXCEPT ![Count] = second]
        BY <1>1, <1>2, RecordParts DEF Change, Current
      <3> QED
        BY <3>1
    <2> HIDE DEF first, second
    <2> QED
      BY <2>1, <2>2, <2>3
  <1>5. PICK attempt \in Attempts :
            /\ attempt.state = state /\ attempt.draft = Current.draft
            /\ attempt.accepted = Current.accepted
            /\ Write([record.attempts EXCEPT ![Count] = attempt])
    BY <1>4
  <1> DEFINE attempts == [record.attempts EXCEPT ![Count] = attempt]
  <1>6. attempts \in Seq(Attempts) /\ Write(attempts)
    BY <1>1, <1>5, RecordParts, Replaced DEF Count
  <1> HIDE DEF attempts
  <1>7. /\ record' \in Records /\ Still /\ record'.attempts = attempts
        /\ record'.saves = record.saves
    BY <1>1, <1>6, WrittenAttempts
  <1>8. Rising /\ DraftsAreThere'
    BY <1>1, <1>2, <1>3, <1>5, <1>7, AttemptChanged DEF attempts
  <1> QED
    BY <1>7, <1>8 DEF SourceInv, SavesReplaceWhatWasRead

(* A call that has its answer, or lost it.                                 *)
LEMMA AppliedKeeps ==
    ASSUME NamesDiffer, SourceInv, NEW c \in Calls, Applied(c) \/ AnswerLost(c)
    PROVE  SourceInv'
  <1>1. /\ TypeOK /\ InsideHolds /\ call[c].at = "applying" /\ End(c)
        /\ UNCHANGED <<tree, remote, results>>
    BY DEF SourceInv, Applied, AnswerLost, Created, NotCreated
  <1>2. lock.session = c
    BY <1>1 DEF InsideHolds, Inside, AtExecutor
  <1>3. exec[c].head \in Heads /\ << >> \in Heads
    BY <1>1 DEF TypeOK, Executions, Heads
  <1>4. \/ UNCHANGED record
        \/ \E state \in {"source-created", "apply-unknown"}, head \in Heads :
              \/ Write([Change("state", state) EXCEPT ![Count].receipt = head])
              \/ Write(Change("state", state))
    BY <1>3 DEF Applied, AnswerLost, Created, NotCreated
  <1>5. /\ record' \in Records /\ Still /\ Rising /\ DraftsAreThere'
        /\ SavesReplaceWhatWasRead'
    <2>1. CASE UNCHANGED record
      <3>1. Calm /\ Still
        BY <1>1, <2>1, SameRecord
      <3> QED
        BY <1>1, <2>1, <3>1, AlikeState
        DEF Calm, Rising, SourceInv, SavesReplaceWhatWasRead
    <2>2. CASE ~UNCHANGED record
      BY <1>1, <1>4, <2>2, OutcomeWritten
    <2> QED
      BY <2>1, <2>2
  <1>6. CallStep(c) /\ call'[c] = Idle
    BY <1>1, <1>5, Ends DEF Still
  <1>7. HasRead(c)'
    BY <1>6 DEF HasRead, Idle
  <1>8. CASE exec' = [exec EXCEPT ![c] = NoExec] /\ UNCHANGED env
    <2>1. NoExec \in Executions /\ NoExec.at = None
      BY DEF NoExec, Executions, MaybeDraft, Heads
    <2>2. /\ exec' \in [Calls -> Executions] /\ exec'[c] = NoExec
          /\ \A d \in Calls \ {c} : exec'[d] = exec[d]
      BY <1>1, <1>8, <2>1 DEF TypeOK
    <2>3. env' \in [hands : Nat, stops : Nat]
      BY <1>1, <1>8 DEF TypeOK
    <2>4. exec'[c].at \notin {"asked", "prepared", "committed"}
      BY <2>1, <2>2 DEF None
    <2> QED
      BY <1>1, <1>2, <1>5, <1>6, <1>7, <1>8, <2>2, <2>3, <2>4, WriterKeeps
  <1>9. CASE env' = [env EXCEPT !.stops = @ + 1] /\ UNCHANGED exec
    <2>1. env' \in [hands : Nat, stops : Nat] /\ env'.stops # 0
      BY <1>1, <1>9 DEF TypeOK
    <2>2. exec' \in [Calls -> Executions]
      BY <1>1, <1>9 DEF TypeOK
    <2> QED
      BY <1>1, <1>2, <1>5, <1>6, <1>7, <1>9, <2>1, <2>2, WriterKeeps
  <1> QED
    BY <1>8, <1>9 DEF Applied, AnswerLost

-----------------------------------------------------------------------------
(* A call that is lost leaves its place; only its control goes on.         *)
LEMMA LostKeeps ==
    ASSUME NamesDiffer, SourceInv, NEW c \in Calls, NEW my \in CallStates,
           call' = [call EXCEPT ![c] = my], lock' \in Locks, Calm, Still,
           \A d \in Calls \ {c} : /\ lock.session = d => lock'.session = d
                                  /\ lock.lease = d => lock'.lease = d,
           ~(my.at \in Inside /\ my.waits), ~my.waits => my.at \in AtExecutor,
           my.at \notin {"enter", "drafting", "saving", "applying", "discard"},
           record'.stopped => lock'.lease = None,
           env' = [env EXCEPT !.stops = @ + 1],
           UNCHANGED <<tree, remote, exec, results>>
    PROVE  SourceInv'
  <1>1. TypeOK /\ InsideHolds /\ DraftsAreThere
    BY DEF SourceInv
  <1>2. CallStep(c) /\ call'[c] = my
    BY <1>1, CallMoves
  <1>3. record' \in Records /\ Rising /\ DraftsAreThere'
    BY <1>1, AlikeState DEF Calm, Rising
  <1>4. SavesReplaceWhatWasRead'
    BY DEF Calm, SourceInv, SavesReplaceWhatWasRead
  <1>5. HasRead(c)'
    BY <1>2 DEF HasRead
  <1>6. exec' \in [Calls -> Executions]
    BY <1>1 DEF TypeOK
  <1>7. env' \in [hands : Nat, stops : Nat] /\ env'.stops # 0
    BY <1>1 DEF TypeOK
  <1> QED
    BY <1>2, <1>3, <1>4, <1>5, <1>6, <1>7, WriterKeeps

(* A call stops, or is told that its answer was lost.                      *)
LEMMA LossKeeps ==
    ASSUME NamesDiffer, SourceInv, NEW c \in Calls, CallStops(c) \/ ControlLost(c)
    PROVE  SourceInv'
  <1> DEFINE my == IF Goes(c) THEN [call[c] EXCEPT !.waits = FALSE] ELSE Idle
  <1>1. /\ TypeOK /\ InsideHolds /\ DraftsAreThere /\ call[c] \in CallStates
        /\ Leave(c) /\ env' = [env EXCEPT !.stops = @ + 1]
        /\ UNCHANGED <<tree, remote, exec, results>>
    BY DEF SourceInv, TypeOK, CallStops, ControlLost, Lose
  <1>2. Calm /\ Still
    <2>1. CASE CallStops(c)
      BY <1>1, <2>1, SameRecord DEF CallStops
    <2>2. CASE ControlLost(c)
      <3>1. call[c].what \in Controls /\ SetControl(call[c].what, "unknown") /\ "unknown" \in Outcomes
        BY <2>2 DEF ControlLost, Goes, Outcomes
      <3> QED
        BY <1>1, <3>1, ControlWritten
    <2> QED
      BY <2>1, <2>2
  <1>3. lock \in Locks /\ DOMAIN lock = {"session", "lease"}
    BY <1>1 DEF TypeOK, Locks
  <1>4. /\ lock' \in Locks
        /\ \A l \in {"session", "lease"} : lock'[l] = IF lock[l] = c THEN None ELSE lock[l]
    BY <1>1, <1>3 DEF Leave, Locks, Holders
  <1>5. record'.stopped => lock'.lease = None
    BY <1>1, <1>2, <1>4 DEF InsideHolds, Still
  <1>6. \A d \in Calls \ {c} : /\ lock.session = d => lock'.session = d
                               /\ lock.lease = d => lock'.lease = d
    BY <1>4
  <1>7. call' = [call EXCEPT ![c] = my]
    BY <1>1 DEF Leave, TypeOK
  <1>8. CASE Goes(c)
    <2>1. my \in CallStates /\ my.at = call[c].at /\ ~my.waits /\ my.at \in AtExecutor
      BY <1>1, <1>8 DEF CallStates, Goes
    <2>2. my.at \notin {"enter", "drafting", "saving", "applying", "discard"}
      BY <2>1 DEF AtExecutor
    <2> HIDE DEF my
    <2> QED
      BY <1>1, <1>2, <1>4, <1>5, <1>6, <1>7, <2>1, <2>2, LostKeeps
  <1>9. CASE ~Goes(c)
    <2>1. my = Idle /\ Idle \in CallStates /\ Idle.at = "idle" /\ Idle.waits
      BY <1>9 DEF Idle, CallStates, Whats, MaybeDraft, Heads
    <2>2. "idle" \notin Inside
      BY DEF Inside, AtExecutor
    <2> HIDE DEF my, Idle
    <2> QED
      BY <1>1, <1>2, <1>4, <1>5, <1>6, <1>7, <2>1, <2>2, LostKeeps
  <1> QED
    BY <1>8, <1>9

-----------------------------------------------------------------------------
(* The source goes: of a merged pull request, and of a withdrawn request.  *)

(* What Abandon leaves of the executions.                                  *)
LEMMA Abandoned ==
    ASSUME TypeOK, Abandon
    PROVE  /\ exec' \in [Calls -> Executions]
           /\ \A c \in Calls :
                 /\ exec'[c] # NoExec => exec[c] # NoExec
                 /\ exec'[c].at \in {"asked", "prepared", "committed"} =>
                       exec'[c] = exec[c]
  <1> SUFFICES ASSUME NEW c \in Calls
               PROVE  /\ exec'[c] \in Executions
                      /\ exec'[c] # NoExec => exec[c] # NoExec
                      /\ exec'[c].at \in {"asked", "prepared", "committed"} =>
                            exec'[c] = exec[c]
    BY DEF Abandon
  <1>1. exec[c] \in Executions
    BY DEF TypeOK
  <1>2. exec'[c] = IF exec[c].at = "prepared" THEN [exec[c] EXCEPT !.at = "failed"] ELSE exec[c]
    BY DEF Abandon
  <1>3. CASE exec[c].at = "prepared"
    <2>1. exec[c] # NoExec
      BY <1>3 DEF NoExec, None
    <2>2. exec'[c] \in Executions /\ exec'[c].at = "failed"
      BY <1>1, <1>2, <1>3 DEF Executions
    <2> QED
      BY <2>1, <2>2
  <1>4. CASE exec[c].at # "prepared"
    BY <1>1, <1>2, <1>4
  <1> QED
    BY <1>3, <1>4

(* The worktree goes with its commits.                                     *)
LEMMA SourceGoes ==
    ASSUME NamesDiffer, SourceInv, NEW c \in Calls, call[c].at # "applying",
           CallStep(c), call'[c] = Idle, Calm, Abandon,
           tree' \in [commits : Heads, dirty : BOOLEAN], tree'.commits = <<>>,
           remote' \in Remotes, UNCHANGED <<results, env>>,
           record.stopped => record'.stopped,
           record'.withdrawn = "succeeded" =>
               /\ record'.stopped
               /\ env.stops = 0 => \A d \in Calls : exec[d] = NoExec
    PROVE  SourceInv'
  <1>1. TypeOK /\ DraftsAreThere
    BY DEF SourceInv
  <1>2. /\ exec' \in [Calls -> Executions]
        /\ \A d \in Calls : /\ exec'[d] # NoExec => exec[d] # NoExec
                            /\ exec'[d].at \in {"asked", "prepared", "committed"} =>
                                  exec'[d] = exec[d]
    BY <1>1, Abandoned
  <1>3. TypeOK'
    BY <1>1, <1>2 DEF TypeOK, CallStep, Calm, Locks, Remotes
  <1>4. /\ DraftsAreThere' /\ InsideHolds'
        /\ \A x : Accepted(x) => Accepted(x)'
    BY <1>1, AlikeState DEF CallStep
  <1>5. HasRead(c)'
    BY DEF HasRead, Idle
  <1>6. Prepared'
    BY <1>5, OthersHaveRead
  <1>7. ExecutionsAreAccepted'
    BY <1>2, <1>4 DEF SourceInv, ExecutionsAreAccepted
  <1>8. MadeOnce' /\ Made' = {}
    <2>1. DOMAIN tree'.commits = {}
      OBVIOUS
    <2> QED
      BY <2>1 DEF MadeOnce, Made, HasCommitted
  <1>9. WithdrawnIsStill'
    <2>1. NoExec' = NoExec
      BY DEF NoExec
    <2>2. \A d \in Calls : call[d].at = "applying" => call'[d].at = "applying"
      BY DEF CallStep
    <2> QED
      BY <1>2, <1>8, <2>1, <2>2 DEF SourceInv, WithdrawnIsStill
  <1>10. SavesReplaceWhatWasRead'
    BY DEF Calm, SourceInv, SavesReplaceWhatWasRead
  <1> QED
    BY <1>3, <1>4, <1>6, <1>7, <1>8, <1>9, <1>10 DEF SourceInv

(* The source of a merged pull request is retired.                         *)
LEMMA RetireKeeps ==
    ASSUME NamesDiffer, SourceInv, NEW c \in Calls, Retire(c)
    PROVE  SourceInv'
  <1>1. /\ TypeOK /\ InsideHolds /\ call[c].at = "retire" /\ call[c].what \in Controls
    BY DEF Retire, Works, Controls, SourceInv
  <1>2. CASE Unknown(c)
    BY <1>1, <1>2, UnknownQuietly, QuietKeeps
  <1>3. CASE ~Unknown(c)
    <2>1. /\ tree' = [tree EXCEPT !.commits = <<>>]
          /\ remote' = [remote EXCEPT !.branch = <<>>]
          /\ Abandon /\ Done(c, "succeeded") /\ UNCHANGED <<results, env>>
      BY <1>3 DEF Retire
    <2>2. CallStep(c) /\ call'[c] = Idle /\ Calm /\ Still
      BY <1>1, <2>1, DoneWritten DEF Outcomes
    <2>3. << >> \in Heads
      BY DEF Heads
    <2>4. /\ tree' \in [commits : Heads, dirty : BOOLEAN] /\ tree'.commits = <<>>
          /\ remote' \in Remotes
      BY <1>1, <2>1, <2>3 DEF TypeOK, Remotes
    <2>5. /\ record.stopped => record'.stopped
          /\ record'.withdrawn = "succeeded" =>
               /\ record'.stopped
               /\ env.stops = 0 => \A d \in Calls : exec[d] = NoExec
      BY <2>2 DEF Still, SourceInv, WithdrawnIsStill
    <2>6. call[c].at # "applying"
      BY <1>1
    <2> QED
      BY <2>1, <2>2, <2>4, <2>5, <2>6, SourceGoes
  <1> QED
    BY <1>2, <1>3

(* Source that nobody has worked on is thrown away: while no call was      *)
(* lost, who has an execution waits for it, and has the session; and this  *)
(* call has it.                                                            *)
LEMMA DiscardKeeps ==
    ASSUME NamesDiffer, SourceInv, NEW c \in Calls, Discard(c)
    PROVE  SourceInv'
  <1>1. /\ TypeOK /\ InsideHolds /\ call[c].at = "discard" /\ End(c)
        /\ UNCHANGED <<tree, remote, results, env>>
    BY DEF Discard, Works, SourceInv
  <1>2. record.stopped
    BY <1>1 DEF SourceInv, Prepared, HasRead
  <1>3. remote' \in Remotes
    BY <1>1, SameRemote
  <1>4. CASE Withdrawn("unknown") /\ UNCHANGED exec
    <2>1. Calm /\ record'.stopped = record.stopped /\ record'.withdrawn = "unknown"
      BY <1>1, <1>4, RecordMarked DEF Withdrawn, TypeOK, Records, Outcomes
    <2>2. QuietStep(c)
      BY <1>1, <1>3, <1>4, <2>1, EndsQuietly DEF Elsewhere
    <2> QED
      BY <2>2, QuietKeeps
  <1>5. CASE Pristine /\ Withdrawn("succeeded") /\ Abandon
    <2>1. Calm /\ record'.stopped = record.stopped
      BY <1>1, <1>5, RecordMarked DEF Withdrawn, TypeOK, Records, Outcomes
    <2>2. CallStep(c) /\ call'[c] = Idle
      BY <1>1, <2>1, Ends
    <2>3. tree' \in [commits : Heads, dirty : BOOLEAN] /\ tree'.commits = <<>>
      BY <1>1, <1>5 DEF TypeOK, Pristine
    <2>4. env.stops = 0 => \A d \in Calls : exec[d] = NoExec
      <3> SUFFICES ASSUME env.stops = 0, NEW d \in Calls, exec[d] # NoExec
                   PROVE  FALSE
        OBVIOUS
      <3>1. call[d].at = "applying"
        BY DEF SourceInv, WithdrawnIsStill
      <3>2. /\ call[d].at \in Inside /\ call[d].at \notin AtExecutor
            /\ call[c].at \in Inside /\ call[c].at \notin AtExecutor
        BY <1>1, <3>1 DEF Inside, AtExecutor
      <3>3. lock.session = d /\ lock.session = c
        BY <1>1, <3>2 DEF InsideHolds
      <3> QED
        BY <1>1, <3>1, <3>3
    <2>5. call[c].at # "applying" /\ record'.stopped
      BY <1>1, <1>2, <2>1
    <2> QED
      BY <1>1, <1>3, <1>5, <2>1, <2>2, <2>3, <2>4, <2>5, SourceGoes
  <1> QED
    BY <1>4, <1>5 DEF Discard

-----------------------------------------------------------------------------
(* What people do to the source is not a draft.                            *)
LEMMA HandsKeep ==
    ASSUME NamesDiffer, SourceInv,
           HandCommit \/ HandEdit \/ HandReset \/ HandPush \/ HandPull
    PROVE  SourceInv'
  <1>1. /\ TypeOK /\ UNCHANGED <<record, exec, results, lock, call>>
        /\ env' = [env EXCEPT !.hands = @ + 1]
    BY DEF SourceInv, HandCommit, HandEdit, HandReset, HandPush, HandPull, ByHand
  <1>2. env' \in [hands : Nat, stops : Nat] /\ env'.stops = env.stops
    BY <1>1 DEF TypeOK
  <1>3. /\ tree.commits \in Heads /\ tree.dirty \in BOOLEAN /\ << >> \in Heads
        /\ Hand \in Authors /\ Hand \notin ChangeSets /\ remote.branch \in Heads
    BY <1>1 DEF TypeOK, Heads, Authors, NamesDiffer
  <1>4. remote' \in Remotes
    <2>1. CASE HandPush
      <3>1. Append(remote.branch, Hand) \in Heads
        BY <1>3 DEF Heads
      <3> QED
        BY <1>1, <2>1, <3>1, PushedRemote DEF HandPush
    <2>2. CASE HandPull
      <3>1. PICK i \in Known :
                \/ \E state \in {"closed", "merged by hand"} :
                      remote' = [remote EXCEPT !.pulls[i].state = state]
                \/ remote' = [remote EXCEPT !.pulls[i].approved = remote.pulls[i].head]
        BY <2>2 DEF HandPull
      <3>2. remote.pulls[i] \in Pulls
        BY <1>1, PullParts
      <3>3. \E pull \in Pulls : remote' = [remote EXCEPT !.pulls[i] = pull]
        <4>1. /\ [remote.pulls[i] EXCEPT !.approved = remote.pulls[i].head] \in Pulls
              /\ \A state \in {"closed", "merged by hand"} :
                    [remote.pulls[i] EXCEPT !.state = state] \in Pulls
          BY <3>2 DEF Pulls
        <4> QED
          BY <3>1, <4>1
      <3> QED
        BY <1>1, <3>3, PullChanged
    <2>3. CASE UNCHANGED remote
      BY <1>1, <2>3, SameRemote
    <2> QED
      BY <2>1, <2>2, <2>3 DEF HandCommit, HandEdit, HandReset
  <1>5. \E commits \in {tree.commits, << >>, Append(tree.commits, Hand)}, dirty \in BOOLEAN :
           tree' = [commits |-> commits, dirty |-> dirty]
    <2>1. tree = [commits |-> tree.commits, dirty |-> tree.dirty]
      BY <1>1 DEF TypeOK
    <2>2. CASE HandCommit
      <3>1. tree' = [commits |-> Append(tree.commits, Hand), dirty |-> tree.dirty]
        BY <2>1, <2>2 DEF HandCommit
      <3> QED
        BY <1>3, <3>1
    <2>3. CASE HandEdit
      <3>1. tree' = [commits |-> tree.commits, dirty |-> ~tree.dirty]
        BY <2>1, <2>3 DEF HandEdit
      <3> QED
        BY <1>3, <3>1
    <2>4. CASE HandReset
      BY <2>4 DEF HandReset
    <2>5. CASE UNCHANGED tree
      BY <1>3, <2>1, <2>5
    <2> QED
      BY <2>2, <2>3, <2>4, <2>5 DEF HandPush, HandPull
  <1>6. /\ tree' \in [commits : Heads, dirty : BOOLEAN]
        /\ tree'.commits \in {tree.commits, << >>, Append(tree.commits, Hand)}
    <2>1. Append(tree.commits, Hand) \in Heads
      BY <1>3 DEF Heads
    <2>2. PICK commits \in {tree.commits, << >>, Append(tree.commits, Hand)}, dirty \in BOOLEAN :
              tree' = [commits |-> commits, dirty |-> dirty]
      BY <1>5
    <2>3. commits \in Heads
      BY <1>3, <2>1
    <2>4. tree'.commits = commits
      BY <2>2
    <2>5. tree' \in [commits : Heads, dirty : BOOLEAN]
      BY <2>2, <2>3
    <2> QED
      BY <2>4, <2>5
  <1>7. TypeOK'
    BY <1>1, <1>2, <1>4, <1>6 DEF TypeOK, Remotes
  <1>8. InsideHolds' /\ Prepared' /\ DraftsAreThere' /\ SavesReplaceWhatWasRead'
    BY <1>1 DEF SourceInv, InsideHolds, Prepared, HasRead, DraftsAreThere,
                SavesReplaceWhatWasRead, State, Draft, Current, Count
  <1>9. \A x : Accepted(x)' = Accepted(x)
    BY <1>1 DEF Accepted
  <1>10. ExecutionsAreAccepted'
    BY <1>1, <1>9 DEF SourceInv, ExecutionsAreAccepted
  <1>11. \A i \in DOMAIN tree'.commits : tree'.commits[i] \in ChangeSets =>
            i \in DOMAIN tree.commits /\ tree.commits[i] = tree'.commits[i]
    <2>1. CASE tree'.commits = Append(tree.commits, Hand)
      BY <1>3, <2>1 DEF Heads
    <2>2. CASE tree'.commits \in {tree.commits, << >>}
      BY <2>2
    <2> QED
      BY <1>6, <2>1, <2>2
  <1>12. MadeOnce'
    BY <1>9, <1>11 DEF SourceInv, MadeOnce
  <1>13. WithdrawnIsStill'
    <2>1. NoExec' = NoExec
      BY DEF NoExec
    <2>2. Made = {} => Made' = {}
      BY <1>11 DEF Made, HasCommitted
    <2> QED
      BY <1>1, <1>2, <2>1, <2>2 DEF SourceInv, WithdrawnIsStill
  <1> QED
    BY <1>7, <1>8, <1>10, <1>12, <1>13 DEF SourceInv

-----------------------------------------------------------------------------
(* The invariant holds at the start, of one draft at most, ...             *)
LEMMA SourceInit ==
    ASSUME NamesDiffer, Init
    PROVE  SourceInv
  <1>1. PICK x \in ChangeSets :
            record = [revision |-> 1, saves |-> <<>>, withdrawn |-> None, stopped |-> FALSE,
                      attempts |-> IF subject = "bootstrap"
                                   THEN <<Attempt("draft-ready", x)>> ELSE <<>>]
    BY DEF Init
  <1> DEFINE attempt == Attempt("draft-ready", x)
  <1>2. /\ attempt \in Attempts /\ attempt.state = "draft-ready" /\ attempt.draft = x
        /\ "draft-ready" \notin Live
    BY NewAttempt DEF States, MaybeDraft, Live
  <1> HIDE DEF attempt
  <1>3. /\ record.attempts \in {<< >>, <<attempt>>} /\ record.revision = 1 /\ record.saves = << >>
        /\ record.withdrawn = None /\ record.stopped = FALSE
    BY <1>1 DEF attempt
  <1>4. record.attempts \in Seq(Attempts)
    <2>1. <<attempt>> \in Seq(Attempts) /\ << >> \in Seq(Attempts)
      BY <1>2
    <2> QED
      BY <1>3, <2>1
  <1>5. record \in Records
    BY <1>1, <1>3, <1>4 DEF Records, Outcomes
  <1>6. /\ Idle \in CallStates /\ Idle.at = "idle" /\ Idle.waits /\ NoExec \in Executions
        /\ NoExec.at = None /\ << >> \in Heads
    BY DEF Idle, CallStates, Whats, MaybeDraft, Heads, NoExec, Executions
  <1>7. /\ tree = [commits |-> <<>>, dirty |-> FALSE] /\ remote = [branch |-> <<>>, pulls |-> <<>>]
        /\ exec = [c \in Calls |-> NoExec] /\ results = [y \in ChangeSets |-> <<>>]
        /\ lock = [session |-> None, lease |-> None] /\ call = [c \in Calls |-> Idle]
        /\ env = [hands |-> 0, stops |-> 0]
    BY DEF Init
  <1> HIDE DEF Idle, NoExec
  <1>8. TypeOK
    BY <1>5, <1>6, <1>7 DEF TypeOK, Holders
  <1>9. \A c \in Calls : call[c].at = "idle" /\ call[c].waits /\ exec[c] = NoExec
    BY <1>6, <1>7
  <1>10. InsideHolds /\ Prepared
    BY <1>3, <1>9 DEF InsideHolds, Inside, AtExecutor, Prepared, HasRead
  <1>11. DraftsAreThere
    <2>1. \A i \in DOMAIN record.attempts : record.attempts[i] = attempt
      BY <1>3
    <2> QED
      BY <1>2, <2>1 DEF DraftsAreThere
  <1>12. ExecutionsAreAccepted
    BY <1>6, <1>9 DEF ExecutionsAreAccepted, None
  <1>13. MadeOnce /\ Made = {}
    BY <1>7 DEF MadeOnce, Made, HasCommitted
  <1>14. WithdrawnIsStill
    BY <1>3, <1>9 DEF WithdrawnIsStill, None
  <1>15. SavesReplaceWhatWasRead
    BY <1>3 DEF SavesReplaceWhatWasRead
  <1> QED
    BY <1>8, <1>10, <1>11, <1>12, <1>13, <1>14, <1>15 DEF SourceInv

(* ... every step keeps it, ...                                            *)
LEMMA SourceStep ==
    ASSUME NamesDiffer, SourceInv, Next
    PROVE  SourceInv'
  <1>1. ASSUME NEW c \in Calls,
               \/ Quietly(c) \/ Generate(c) \/ Generated(c) \/ Save(c) \/ Cancel(c)
               \/ Continue(c) \/ Recover(c) \/ Applied(c) \/ AnswerLost(c)
               \/ Look(c) \/ CommitDraft(c) \/ PutBack(c) \/ CutShort(c) \/ Forgotten(c)
               \/ Retire(c) \/ Discard(c) \/ CallStops(c) \/ ControlLost(c)
        PROVE  SourceInv'
    BY <1>1, QuietSteps, GenerateKeeps, GeneratedKeeps, SaveKeeps, CancelKeeps, ContinueKeeps,
       RecoverKeeps, AppliedKeeps, LookKeeps, CommitKeeps, FailureKeeps, ForgottenKeeps,
       RetireKeeps, DiscardKeeps, LossKeeps
  <1> QED
    BY <1>1, HandsKeep DEF Next, Quietly

(* ... and so does a stutter.                                              *)
LEMMA SourceStutters ==
    ASSUME SourceInv, UNCHANGED vars
    PROVE  SourceInv'
  <1>1. /\ record' = record /\ tree' = tree /\ remote' = remote /\ exec' = exec
        /\ results' = results /\ lock' = lock /\ call' = call /\ env' = env
    BY DEF vars
  <1>2. TypeOK' /\ InsideHolds'
    BY <1>1 DEF SourceInv, TypeOK, InsideHolds
  <1>3. Prepared' /\ DraftsAreThere' /\ SavesReplaceWhatWasRead'
    BY <1>1 DEF SourceInv, Prepared, HasRead, DraftsAreThere, SavesReplaceWhatWasRead,
                State, Draft, Current, Count
  <1>4. ExecutionsAreAccepted' /\ MadeOnce' /\ WithdrawnIsStill'
    BY <1>1 DEF SourceInv, ExecutionsAreAccepted, MadeOnce, WithdrawnIsStill, Accepted, Made,
                HasCommitted, NoExec
  <1> QED
    BY <1>2, <1>3, <1>4 DEF SourceInv

(* What was accepted is committed, and once; nobody applies the source of  *)
(* a request that was withdrawn, because its credential is stopped.        *)
LEMMA OnlyAccepted ==
    ASSUME NamesDiffer, SourceInv
    PROVE  CommitsWereAccepted
  <1>1. ASSUME NEW x \in Made
        PROVE  /\ Accepted(x)
               /\ Cardinality({i \in DOMAIN tree.commits : tree.commits[i] = x}) = 1
    <2>1. x \in ChangeSets /\ \E j \in DOMAIN tree.commits : tree.commits[j] = x
      BY DEF Made, HasCommitted
    <2>2. PICK j \in DOMAIN tree.commits : tree.commits[j] = x
      BY <2>1
    <2>3. {i \in DOMAIN tree.commits : tree.commits[i] = x} = {j}
      BY <2>1, <2>2 DEF SourceInv, MadeOnce
    <2> QED
      BY <2>1, <2>2, <2>3, FS_Singleton DEF SourceInv, MadeOnce
  <1>2. record.withdrawn = "succeeded" => \A c \in Calls : call[c].at # "applying"
    BY DEF SourceInv, WithdrawnIsStill, InsideHolds, NamesDiffer
  <1>3. record.withdrawn = "succeeded" /\ env.stops = 0 => Made = {}
    BY DEF SourceInv, WithdrawnIsStill
  <1> QED
    BY <1>1, <1>2, <1>3 DEF CommitsWereAccepted, Accepted

(* However many calls come and whatever is lost or stops: every commit that*)
(* applySourceRealization makes is of a draft that was accepted, there is  *)
(* one of it, no call applies source once cancelUnapplied has succeeded,   *)
(* and a saved draft replaces only what its operator had read.  That       *)
(* nothing is committed after a withdrawal is of behaviours in which no    *)
(* call, answer or executor was lost before: an executor that was left     *)
(* alone may still commit.                                                 *)
THEOREM AcceptedSourceOnly ==
    ASSUME NamesDiffer
    PROVE  Spec => [](CommitsWereAccepted /\ SavesReplaceWhatWasRead)
  <1>1. Init => SourceInv
    BY SourceInit
  <1>2. SourceInv /\ [Next]_vars => SourceInv'
    BY SourceStep, SourceStutters
  <1>3. NamesDiffer /\ SourceInv => CommitsWereAccepted /\ SavesReplaceWhatWasRead
    BY OnlyAccepted DEF SourceInv
  <1> QED
    BY <1>1, <1>2, <1>3, PTL DEF Spec
=============================================================================
