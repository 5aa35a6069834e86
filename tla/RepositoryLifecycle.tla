------------------------ MODULE RepositoryLifecycle ------------------------
(***************************************************************************)
(* Requests that change a repository already in custody: its archive state *)
(* at the provider, or its workspace record.  The service keeps one        *)
(* aggregate for the repository and one record for each request, written   *)
(* one after the other, under a lock that a dead process leaves behind.    *)
(***************************************************************************)
EXTENDS Naturals, Sequences, FiniteSets

CONSTANTS Changes,
          Archiving,    \* those that archive at the provider; the others
                        \* change the workspace record
          MaxMoves,     \* bound on what others change at the provider
          MaxStops,     \* bound on the processes that stop
          MaxAttempts   \* bound on the attempts of a request

VARIABLES source,       \* the provider's repository
          record,       \* the aggregate, and the record of each request
          lock,
          call,         \* the call that holds the lock
          faults

vars == <<source, record, lock, call, faults>>

None == "none"

(* A state of the repository: its archive state and version as read from   *)
(* the provider, and the version of its workspace record.                  *)
Initial == [archived |-> FALSE, version |-> 0, custody |-> None]

NoRequest == [status |-> None, before |-> Initial, attempts |-> 0,
              retryable |-> FALSE]

Idle == [at |-> "idle", request |-> None, again |-> FALSE, outcome |-> None,
         retryable |-> FALSE, after |-> Initial]

Init == /\ source = [archived |-> FALSE, version |-> 0, moves |-> 0,
                     made |-> [r \in Changes |-> 0]]
        /\ record = [state |-> None, history |-> <<>>,
                     request |-> [r \in Changes |-> NoRequest]]
        /\ lock = None /\ call = Idle /\ faults = 0

Request(r) == record.request[r]
Mine == call.request

(* The baseline: the aggregate of the repository, once it has one.         *)
Known == record.history # <<>>
Baseline == IF Known THEN record.state ELSE Request(Mine).before

Go(at) == call' = [call EXCEPT !.at = at]
End == call' = Idle /\ lock' = None

(* The contract of a request takes an archive only for an active           *)
(* repository, as its projection shows it.                                 *)
Composable(r) ==
    r \in Archiving => ~(IF Known THEN record.state ELSE source).archived

(* What the projection shows is what an operator binds a new request to.   *)
Compose(r) ==
    /\ Request(r).status = None /\ Composable(r)
    /\ record' = [record EXCEPT !.request[r].status = "composed",
                     !.request[r].before =
                         IF Known THEN record.state
                         ELSE [Initial EXCEPT !.archived = source.archived,
                                              !.version = source.version]]
    /\ UNCHANGED <<source, lock, call, faults>>

Replayed(q) == q.status \in {"succeeded", "denied", "failed"} /\ ~q.retryable

(* transact: a request that ended is answered from its record.             *)
Begin(r) ==
    /\ lock = None /\ Request(r).status # None /\ ~Replayed(Request(r))
    /\ lock' = r
    /\ call' = [Idle EXCEPT !.at = "decide", !.request = r,
                            !.again = Request(r).status # "composed"]
    /\ UNCHANGED <<source, record, faults>>

(* The decision is bound to the state that the request was composed for;   *)
(* an answer for another one, or none, ends the call.                      *)
Undecided == /\ call.at = "decide" /\ End /\ UNCHANGED <<source, record, faults>>

Ends(outcome, retryable, after) ==
    call' = [call EXCEPT !.at = "aggregate", !.outcome = outcome,
                         !.retryable = retryable, !.after = after]

Denied ==
    /\ call.at = "decide" /\ Ends("denied", FALSE, Baseline)
    /\ UNCHANGED <<source, record, lock, faults>>

(* Mutant: an aggregate that has moved on does not stop the request.       *)
AnyBaseline == Request(Mine).status # None

BaselineIsCurrent == Baseline = Request(Mine).before

Checkpoint ==
    /\ call.at = "decide" /\ Request(Mine).attempts < MaxAttempts
    /\ IF BaselineIsCurrent
       THEN /\ record' = [record EXCEPT !.request[Mine].status = "applying",
                                        !.request[Mine].attempts = @ + 1]
            /\ Go("apply") /\ UNCHANGED lock
       ELSE End /\ UNCHANGED record
    /\ UNCHANGED <<source, faults>>

(* A workspace record is changed by the aggregate alone.                   *)
ApplyWorkspace ==
    /\ call.at = "apply" /\ Mine \notin Archiving
    /\ Ends("succeeded", FALSE, [Baseline EXCEPT !.custody = Mine])
    /\ UNCHANGED <<source, record, lock, faults>>

AsRead == [Baseline EXCEPT !.archived = source.archived, !.version = source.version]

Fails(retryable) == Ends("failed", retryable, Baseline)

(* The provider is read afresh.  What an earlier attempt has done is not   *)
(* repeated; what others have changed stops the request.                   *)
ReadProvider ==
    /\ call.at = "apply" /\ Mine \in Archiving
    /\ IF call.again /\ source.archived
       THEN Ends("succeeded", FALSE, AsRead)
       ELSE IF source.archived = Baseline.archived /\ source.version = Baseline.version
       THEN Go("archive")
       ELSE Fails(FALSE)
    /\ UNCHANGED <<source, record, lock, faults>>

Archive ==
    /\ call.at = "archive" /\ ~source.archived
    /\ source' = [source EXCEPT !.archived = TRUE, !.version = @ + 1, !.made[Mine] = @ + 1]
    /\ \/ Go("readback")
       \/ Fails(TRUE)
    /\ UNCHANGED <<record, lock, faults>>

ReadBack ==
    /\ call.at = "readback"
    /\ IF source.archived THEN Ends("succeeded", FALSE, AsRead) ELSE Fails(FALSE)
    /\ UNCHANGED <<source, record, lock, faults>>

(* The provider does not answer, or refuses.                               *)
ProviderFails ==
    /\ call.at \in {"apply", "archive", "readback"} /\ Mine \in Archiving
    /\ \E retryable \in BOOLEAN : Fails(retryable)
    /\ UNCHANGED <<source, record, lock, faults>>

(* The aggregate is written with the outcome, and then the request.        *)
PutAggregate ==
    /\ call.at = "aggregate"
    /\ record' = [record EXCEPT !.state = call.after,
                                !.history = Append(@, <<Mine, call.outcome>>)]
    /\ Go("request")
    /\ UNCHANGED <<source, lock, faults>>

PutRequest ==
    /\ call.at = "request"
    /\ record' = [record EXCEPT !.request[Mine].status = call.outcome,
                                !.request[Mine].retryable = call.retryable]
    /\ End /\ UNCHANGED <<source, faults>>

Stops == /\ call.at # "idle" /\ faults < MaxStops /\ faults' = faults + 1
         /\ End /\ UNCHANGED <<source, record>>

OthersChange ==
    /\ source.moves < MaxMoves
    /\ \E archived \in BOOLEAN :
          source' = [source EXCEPT !.moves = @ + 1, !.version = @ + 1,
                                   !.archived = archived]
    /\ UNCHANGED <<record, lock, call, faults>>

Next == \/ \E r \in Changes : Compose(r) \/ Begin(r)
        \/ Undecided \/ Denied \/ Checkpoint \/ ApplyWorkspace \/ ReadProvider
        \/ Archive \/ ReadBack \/ ProviderFails \/ PutAggregate \/ PutRequest
        \/ Stops \/ OthersChange

Spec == Init /\ [][Next]_vars

-----------------------------------------------------------------------------
Entries(r, outcome) ==
    {i \in DOMAIN record.history : record.history[i] = <<r, outcome>>}

(* The history of the repository has one success of a request that         *)
(* succeeded, and never a second one; none of a request that ended         *)
(* otherwise, unless a process stopped between the aggregate and the       *)
(* request; and a request changes the provider once, whatever was lost or  *)
(* stopped.                                                                *)
HistoryIsTrue ==
    \A r \in Changes :
        /\ Request(r).status = "succeeded" => Cardinality(Entries(r, "succeeded")) = 1
        /\ Cardinality(Entries(r, "succeeded")) <= 1
        /\ Request(r).status \in {"denied", "failed"} /\ faults = 0
              => Entries(r, "succeeded") = {}
        /\ source.made[r] <= 1

(* What a request has done at the provider is acknowledged when it is      *)
(* tried again: no request of a provider command is left that has its      *)
(* success in the history, and that every attempt refuses.                 *)
CompletedIsReconciled ==
    \A r \in Archiving :
        Request(r).status = "applying" /\ Entries(r, "succeeded") # {} /\ lock = None
            => Request(r).before = record.state
=============================================================================
