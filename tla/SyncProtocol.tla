---------------------------- MODULE SyncProtocol ----------------------------
(***************************************************************************)
(* rwdiscovery/sync.py: SyncClient and BatchingPusher at the level of HTTP *)
(* requests, for several capability runs that push into one scope.         *)
(*                                                                         *)
(* Each call is a loop of MAX_RETRIES + 1 attempts over a network that may *)
(* lose a request, lose its answer, or deliver it (again) after the client *)
(* has given up on it -- even after the run has moved on or died. A run    *)
(* that dies may be executed again under the same capabilityRunUuid, with  *)
(* other items to push. papi, the server, is external                      *)
(* (platform-contract.md, section 3).                                      *)
(***************************************************************************)
EXTENDS Integers, Sequences

CONSTANTS
    Runs,           \* the capability runs of this scope
    NoUuid,         \* None
    Settings,       \* what the runs may find themselves in, records of
                    \*   runs: those of Runs there are;
                    \*   uuid: what each passes as capability_run_uuid;
                    \*   contents: what a run may find to push, its batches
                    \*     in order;
                    \*   reopens: papi answers a same-run open 200/201 (an
                    \*     older one: 409);
                    \*   restarts: bound, how often a run is executed again
    MaxRetries,     \* MAX_RETRIES
    MaxSyncs        \* bound: how many syncs papi opens

ASSUME SettingsAssumption ==
    \A s \in Settings :
        /\ s.runs \subseteq Runs /\ s.reopens \in BOOLEAN /\ s.restarts \in Nat
        /\ s.contents # {} /\ \A c \in s.contents : c \in Seq(Nat \ {0}) /\ c # <<>>
\* A capabilityRunUuid names one run.
ASSUME UuidsAssumption ==
    \A s \in Settings : \A q, r \in s.runs : s.uuid[q] = s.uuid[r] => q = r \/ s.uuid[r] = NoUuid
ASSUME BoundsAssumption == {MaxRetries, MaxSyncs} \subseteq Nat

VARIABLES
    setting,        \* which of Settings it is
    pc,             \* the call run r is in: "open", "items", "commit", "abort",
                    \* or "done" / "failed"
    sid,            \* sync_id (0: none yet)
    seq,            \* BatchingPusher._seq
    content,        \* the batches this execution of the run pushes
    life,           \* which execution of the run this is
    attempt,        \* how often _request has sent the current request
    net,            \* every request ever sent: papi may see it at any later
                    \* time, once, more than once or never
    syncs,          \* papi: every sync ever opened, by id
    conflict        \* history: the sync named by r's last SyncConflictError

client == <<pc, sid, seq, content, life, attempt, conflict>>
vars == <<setting, client, net, syncs>>

Calls == {"open", "items", "commit", "abort"}
Final == {"done", "failed"}
Uuid(r) == setting.uuid[r]

-----------------------------------------------------------------------------
Init ==
    /\ setting \in Settings
    /\ pc = [r \in setting.runs |-> "open"]
    /\ sid = [r \in setting.runs |-> 0]
    /\ seq = [r \in setting.runs |-> 1]
    /\ content \in [setting.runs -> setting.contents]
    /\ life = [r \in setting.runs |-> 0]
    /\ attempt = [r \in setting.runs |-> 0]
    /\ net = {}
    /\ syncs = <<>>
    /\ conflict = [r \in setting.runs |-> 0]

\* What a run sends now.
Request(r) ==
    [run |-> r, op |-> pc[r], sid |-> sid[r],
     seq |-> IF pc[r] = "items" THEN seq[r] ELSE 0,
     items |-> IF pc[r] = "items" THEN content[r][seq[r]] ELSE 0]

\* Mutant: one attempt too many.
Send_OneMore(r) ==
    /\ pc[r] \in Calls /\ attempt[r] <= MaxRetries + 1
    /\ net' = net \union {Request(r)}
    /\ attempt' = [attempt EXCEPT ![r] = @ + 1]
    /\ UNCHANGED <<pc, sid, seq, content, life, conflict, syncs, setting>>

\* The first attempt, or the next one after a connection error, a timeout or
\* a 5xx: the same request.
Send(r) ==
    /\ pc[r] \in Calls /\ attempt[r] <= MaxRetries
    /\ net' = net \union {Request(r)}
    /\ attempt' = [attempt EXCEPT ![r] = @ + 1]
    /\ UNCHANGED <<pc, sid, seq, content, life, conflict, syncs, setting>>

\* The call is over: the run goes on with `next`.
Enter(r, next) ==
    /\ pc' = [pc EXCEPT ![r] = next]
    /\ attempt' = [attempt EXCEPT ![r] = 0]

\* Mutant: a push that failed is passed over.
Raise_Commits(r) ==
    Enter(r, CASE pc[r] = "items" -> "commit" [] pc[r] = "commit" -> "abort" [] OTHER -> "failed")

\* SyncClientError, in open_sync outside the try block of run_discover, in a
\* push or a commit inside it; an error of abort itself is swallowed.
Raise(r) == Enter(r, IF pc[r] \in {"items", "commit"} THEN "abort" ELSE "failed")

\* Mutant: retries without end.
GiveUp_StartsOver(r) ==
    /\ attempt[r] = MaxRetries + 1
    /\ attempt' = [attempt EXCEPT ![r] = 0]
    /\ UNCHANGED <<pc, sid, seq, content, life, conflict, net, syncs, setting>>

\* The last attempt went unanswered, or met a 5xx.
GiveUp(r) ==
    /\ attempt[r] = MaxRetries + 1
    /\ Raise(r)
    /\ UNCHANGED <<sid, seq, content, life, conflict, net, syncs, setting>>

-----------------------------------------------------------------------------
(* papi (external): Reply(m, answer) holds when request m may be answered  *)
(* so, with what it does to the syncs.                                     *)
Ok(s) == [status |-> 200, sid |-> s, uuid |-> NoUuid]
Conflict(s) == [status |-> 409, sid |-> s, uuid |-> syncs[s].uuid]
Refused == [status |-> 400, sid |-> 0, uuid |-> NoUuid]

IsOpen(s) == s \in DOMAIN syncs /\ syncs[s].state = "open"
NewSync(m) == [run |-> m.run, uuid |-> Uuid(m.run), state |-> "open", batches |-> <<>>]
Close(s, state) == [syncs EXCEPT ![s].state = state]
SameRun(s, m) == setting.reopens /\ Uuid(m.run) # NoUuid /\ syncs[s].uuid = Uuid(m.run)

ReplyOpen(m, answer) ==
    \/ /\ \A s \in DOMAIN syncs : ~IsOpen(s)
       /\ Len(syncs) < MaxSyncs
       /\ syncs' = Append(syncs, NewSync(m))
       /\ answer = Ok(Len(syncs'))
    \/ \E s \in DOMAIN syncs :
          /\ IsOpen(s)
          /\ \/ SameRun(s, m) /\ syncs[s].batches = <<>> /\ UNCHANGED syncs /\ answer = Ok(s)
             \/ /\ SameRun(s, m) /\ syncs[s].batches # <<>>
                /\ Len(syncs) < MaxSyncs
                /\ syncs' = Append(Close(s, "aborted"), NewSync(m))
                /\ answer = Ok(Len(syncs'))
             \/ ~SameRun(s, m) /\ UNCHANGED syncs /\ answer = Conflict(s)

ReplyItems(m, answer) ==
    LET known == syncs[m.sid].batches
    IN  \/ /\ IsOpen(m.sid) /\ m.seq = Len(known) + 1
           /\ syncs' = [syncs EXCEPT ![m.sid].batches = Append(known, m.items)]
           /\ answer = Ok(m.sid)
        \/ /\ IsOpen(m.sid) /\ m.seq \in DOMAIN known /\ known[m.seq] = m.items
           /\ UNCHANGED syncs /\ answer = Ok(m.sid)
        \/ /\ ~IsOpen(m.sid) \/ (m.seq \in DOMAIN known /\ known[m.seq] # m.items)
           /\ UNCHANGED syncs /\ answer = Refused

\* commit and abort: done once, answered alike ever after, otherwise refused.
ReplyEnd(m, answer, state) ==
    \/ IsOpen(m.sid) /\ syncs' = Close(m.sid, state) /\ answer = Ok(m.sid)
    \/ syncs[m.sid].state = state /\ UNCHANGED syncs /\ answer = Ok(m.sid)
    \/ syncs[m.sid].state \notin {"open", state} /\ UNCHANGED syncs /\ answer = Refused

\* Any request may be refused for another reason: an expired credential.
Reply(m, answer) ==
    \/ m.op = "open" /\ ReplyOpen(m, answer)
    \/ m.op = "items" /\ ReplyItems(m, answer)
    \/ m.op = "commit" /\ ReplyEnd(m, answer, "committed")
    \/ m.op = "abort" /\ ReplyEnd(m, answer, "aborted")
    \/ UNCHANGED syncs /\ answer = Refused

Answers ==
    {Ok(s) : s \in 1..MaxSyncs} \union {Conflict(s) : s \in DOMAIN syncs} \union {Refused}

\* A sync nobody ends expires with its lease, or goes with its failed run.
LeaseExpires ==
    /\ \E s \in DOMAIN syncs : IsOpen(s) /\ syncs' = Close(s, "expired")
    /\ UNCHANGED <<client, net, setting>>

-----------------------------------------------------------------------------
\* Mutants: any open sync is adopted, or none.
Adopts_Any(r, answer) == TRUE
Adopts_None(r, answer) == FALSE

\* open_sync: a syncId, or a 409 -- which is adopted if the sync it names was
\* opened by this same capability run.
Adopts(r, answer) == Uuid(r) # NoUuid /\ answer.uuid = Uuid(r)
Opened(r, answer) ==
    IF answer.status = 200 \/ (answer.status = 409 /\ Adopts(r, answer))
    THEN /\ sid' = [sid EXCEPT ![r] = answer.sid]
         /\ Enter(r, "items")
         /\ UNCHANGED <<seq, conflict>>
    ELSE /\ Raise(r)
         /\ conflict' = [conflict EXCEPT ![r] = answer.sid]
         /\ UNCHANGED <<sid, seq>>

\* BatchingPusher.flush, once per batch; the last one is followed by commit.
Pushed(r, answer) ==
    IF answer.status = 200
    THEN /\ seq' = [seq EXCEPT ![r] = @ + 1]
         /\ Enter(r, IF seq[r] = Len(content[r]) THEN "commit" ELSE "items")
         /\ UNCHANGED <<sid, conflict>>
    ELSE Raise(r) /\ UNCHANGED <<sid, seq, conflict>>

\* Mutant: the answer to commit is not looked at.
Ended_Anyhow(r, answer) ==
    /\ IF pc[r] = "commit" THEN Enter(r, "done") ELSE Raise(r)
    /\ UNCHANGED <<sid, seq, conflict>>

\* commit, whose answer ends the run, and abort, after which it re-raises.
Ended(r, answer) ==
    /\ IF answer.status = 200 /\ pc[r] = "commit" THEN Enter(r, "done") ELSE Raise(r)
    /\ UNCHANGED <<sid, seq, conflict>>

\* Request m reaches papi. Its answer reaches the run if that is waiting for
\* one to this very request, and nothing loses it on the way.
Serve(m) ==
    /\ \E answer \in Answers :
          /\ Reply(m, answer)
          /\ \/ /\ attempt[m.run] > 0 /\ m = Request(m.run)
                /\ \/ m.op = "open" /\ Opened(m.run, answer)
                   \/ m.op = "items" /\ Pushed(m.run, answer)
                   \/ m.op \in {"commit", "abort"} /\ Ended(m.run, answer)
                /\ UNCHANGED <<content, life>>
             \/ UNCHANGED client
    /\ UNCHANGED <<net, setting>>

\* The process dies, or the run failed: it is executed again, from the start.
Restart(r) ==
    /\ pc[r] # "done" /\ life[r] < setting.restarts
    /\ life' = [life EXCEPT ![r] = @ + 1]
    /\ \E c \in setting.contents : content' = [content EXCEPT ![r] = c]
    /\ Enter(r, "open")
    /\ sid' = [sid EXCEPT ![r] = 0]
    /\ seq' = [seq EXCEPT ![r] = 1]
    /\ UNCHANGED <<conflict, net, syncs, setting>>

Next ==
    \/ \E r \in setting.runs : Send(r) \/ GiveUp(r) \/ Restart(r)
    \/ \E m \in net : Serve(m)
    \/ LeaseExpires
Spec == Init /\ [][Next]_vars

\* An attempt times out (SyncClient.timeout), the next one is sent after its
\* delay, and a lease has an end. Nothing is promised of the network.
FairSpec ==
    /\ Spec
    /\ \A r \in Runs : WF_vars(r \in setting.runs /\ Send(r)) /\ WF_vars(r \in setting.runs /\ GiveUp(r))
    /\ WF_vars(LeaseExpires)

-----------------------------------------------------------------------------
SyncStates == {"open", "committed", "aborted", "expired"}
TypeOK ==
    /\ setting \in Settings /\ pc \in [setting.runs -> Calls \union Final]
    /\ sid \in [setting.runs -> 0..Len(syncs)] /\ conflict \in [setting.runs -> 0..Len(syncs)]
    /\ seq \in [setting.runs -> Nat] /\ content \in [setting.runs -> setting.contents]
    /\ life \in [setting.runs -> 0..setting.restarts] /\ attempt \in [setting.runs -> 0..MaxRetries + 1]
    /\ \A s \in DOMAIN syncs : syncs[s].state \in SyncStates /\ syncs[s].run \in setting.runs
    /\ Len(syncs) <= MaxSyncs

\* A run never pushes into, commits or aborts a sync that another run opened:
\* neither adoption nor a request that arrives late crosses from one to another.
OwnSyncOnly ==
    /\ \A r \in setting.runs : sid[r] # 0 => syncs[sid[r]].run = r
    /\ \A m \in net : m.sid # 0 => syncs[m.sid].run = m.run

\* A sync is committed only with the whole of what one execution of its run
\* had to push, batch by batch, each stored once -- whatever was retried,
\* arrived late, was left by an execution that died, or was adopted. (A sweep
\* deletes what a committed sync lacks.) And a run that reports success has
\* committed exactly what it pushed itself.
CommittedIsWhole ==
    /\ \A s \in DOMAIN syncs : syncs[s].state = "committed" => syncs[s].batches \in setting.contents
    /\ \A r \in setting.runs : pc[r] = "done" =>
          syncs[sid[r]].state = "committed" /\ syncs[sid[r]].batches = content[r]

\* "A 409 whose stored sync was opened by THIS SAME capability run (a lost
\* response, not a lost request) is adopted": a run is in conflict only with
\* a sync of another run.
OwnSyncIsAdopted ==
    \A r \in setting.runs : conflict[r] # 0 => syncs[conflict[r]].run # r

\* Every run ends, and no sync stays open: the next run is not shut out.
RunsEndAndSyncsClose ==
    <>[](/\ \A r \in setting.runs : pc[r] \in Final
         /\ \A s \in DOMAIN syncs : syncs[s].state # "open")
=============================================================================
