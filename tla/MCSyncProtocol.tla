--------------------------- MODULE MCSyncProtocol ---------------------------
(***************************************************************************)
(* SyncProtocol on small instances: one run that is executed again, and    *)
(* two runs that compete for the scope.                                    *)
(***************************************************************************)
EXTENDS SyncProtocol

CONSTANTS r1, r2

OwnUuids == [r \in Runs |-> r]
Setting(runs, contents, reopens, restarts) ==
    [runs |-> runs, uuid |-> OwnUuids, contents |-> contents, reopens |-> reopens, restarts |-> restarts]
\* Of two executions of a run, one has a batch more than the other, and
\* another first batch. Of two runs, each pushes the same two batches.
MCSettings ==
    {Setting({r1}, {<<1>>, <<2, 1>>}, TRUE, 2)}
    \union {Setting({r1, r2}, {<<1, 2>>}, reopens, 0) : reopens \in BOOLEAN}
\* As tasks.py has it: a run passes no uuid.
NoUuidSettings ==
    {[s EXCEPT !.uuid = [r \in Runs |-> NoUuid]] :
        s \in {Setting({r1}, {<<1, 2>>}, reopens, 1) : reopens \in BOOLEAN}}
=============================================================================
