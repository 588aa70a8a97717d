------------------------------- MODULE CliExec -------------------------------
(***************************************************************************)
(* rwdiscovery/cli.py: run_cli() once validate() has answered.             *)
(*                                                                         *)
(* Four parties: the caller, which starts kubectl, waits for it with a     *)
(* timeout and joins two drain threads with a timeout each; the threads    *)
(* (_run_drain), which filter and cap what they read; and kubectl, which   *)
(* writes to two pipes of bounded capacity and may leave a helper behind   *)
(* (a credential plugin) that has inherited them. Lines are written whole. *)
(***************************************************************************)
EXTENDS Integers, Sequences, SequencesExt

CONSTANTS
    Outputs,        \* what kubectl may have to write: [Streams -> Seq(lines)],
                    \* a line being [bytes, match] (match: grep_re finds it)
    Cap,            \* Cap["out"]: max_bytes, Cap["err"]: _STDERR_CAP_BYTES
    PipeCap         \* lines a pipe holds

Streams == {"out", "err"}
ASSUME CapAssumption == Cap \in [Streams -> Nat] /\ PipeCap \in Nat \ {0}
ASSUME OutputsAssumption ==
    \A o \in Outputs : \A s \in Streams :
        /\ o[s] \in Seq(Range(o[s]))
        /\ \A line \in Range(o[s]) : line.bytes \in Nat \ {0} /\ line.match \in BOOLEAN

VARIABLES
    timely,         \* wait() and join() never time out on this command
    pc,             \* the caller: "start", "wait", "join_out", "join_err",
                    \* "returned", "raised"
    file,           \* whether the kubeconfig file exists
    killed,         \* killed
    result,         \* what run_cli returns
    child,          \* kubectl: "none", "running", "ended"
    helper,         \* a helper of kubectl's holds the write ends of the pipes
    output,         \* what kubectl writes, if it may finish
    written,        \* how many lines of it it has written
    pipe,           \* the lines in each pipe
    drain,          \* the threads: "reading", "discarding", "boxing", "ended"
    chunks,         \* chunks, of each thread: [line, bytes]
    total,          \* total
    truncated       \* truncated

caller == <<pc, file, killed, result>>
kubectl == <<child, helper, output, written>>
threads == <<drain, chunks, total, truncated>>
vars == <<timely, caller, kubectl, pipe, threads>>

NoResult == [status |-> "none"]
Rejected == [status |-> "rejected"]

-----------------------------------------------------------------------------
Init ==
    /\ timely \in BOOLEAN
    /\ pc = "start" /\ file = FALSE /\ killed = FALSE /\ result = NoResult
    /\ child = "none" /\ helper = FALSE
    /\ output \in Outputs
    /\ written = [s \in Streams |-> 0]
    /\ pipe = [s \in Streams |-> <<>>]
    /\ drain = [s \in Streams |-> "reading"]
    /\ chunks = [s \in Streams |-> <<>>]
    /\ total = [s \in Streams |-> 0]
    /\ truncated = [s \in Streams |-> FALSE]

\* validate() refused the command: nothing is written, nothing is run.
Reject ==
    /\ pc = "start"
    /\ pc' = "returned" /\ result' = Rejected
    /\ UNCHANGED <<timely, file, killed, kubectl, pipe, threads>>

\* kubeconfig_file, Popen, and both threads' start.
Start ==
    /\ pc = "start"
    /\ file' = TRUE
    /\ child' = "running"
    /\ helper' \in BOOLEAN
    /\ pc' = "wait"
    /\ UNCHANGED <<timely, killed, result, output, written, pipe, threads>>

\* Popen raises, or the file cannot be written; the file goes all the same.
StartFails ==
    /\ pc = "start"
    /\ pc' = "raised"
    /\ UNCHANGED <<timely, file, killed, result, kubectl, pipe, threads>>

\* proc.wait() returns ...
WaitReturns ==
    /\ pc = "wait" /\ child = "ended"
    /\ pc' = "join_out"
    /\ UNCHANGED <<timely, file, killed, result, kubectl, pipe, threads>>

\* ... or TimeoutExpired: kubectl, but not what it started, is killed.
WaitTimesOut ==
    /\ pc = "wait" /\ child = "running" /\ ~timely
    /\ child' = "ended"
    /\ killed' = TRUE
    /\ pc' = "join_out"
    /\ UNCHANGED <<timely, file, result, helper, output, written, pipe, threads>>

\* What a thread has put into its box: nothing before the end of file, then
\* the data, then the flag.
Box(s) == [data |-> IF drain[s] \in {"boxing", "ended"} THEN chunks[s] ELSE <<>>,
           truncated |-> drain[s] = "ended" /\ truncated[s]]

\* Mutant: a cut of stderr is not reported.
Truncated_StdoutOnly == killed \/ Box("out").truncated

Truncated == killed \/ \E s \in Streams : Box(s).truncated

JoinStdout ==
    /\ pc = "join_out" /\ (drain["out"] = "ended" \/ ~timely)
    /\ pc' = "join_err"
    /\ UNCHANGED <<timely, file, killed, result, kubectl, pipe, threads>>

\* The second join, and the result; the kubeconfig file goes with its block.
JoinStderr ==
    /\ pc = "join_err" /\ (drain["err"] = "ended" \/ ~timely)
    /\ result' = [status |-> "run", data |-> [s \in Streams |-> Box(s).data],
                  truncated |-> Truncated,
                  joined |-> {s \in Streams : drain[s] = "ended"}]
    /\ file' = FALSE
    /\ pc' = "returned"
    /\ UNCHANGED <<timely, killed, kubectl, pipe, threads>>

-----------------------------------------------------------------------------
(* kubectl: it blocks on a full pipe, and ends when all is written.        *)
Write(s) ==
    /\ child = "running" /\ written[s] < Len(output[s]) /\ Len(pipe[s]) < PipeCap
    /\ pipe' = [pipe EXCEPT ![s] = Append(@, output[s][written[s] + 1])]
    /\ written' = [written EXCEPT ![s] = @ + 1]
    /\ UNCHANGED <<timely, caller, child, helper, output, threads>>

Exit ==
    /\ child = "running" /\ \A s \in Streams : written[s] = Len(output[s])
    /\ child' = "ended"
    /\ UNCHANGED <<timely, caller, helper, output, written, pipe, threads>>

HelperEnds ==
    /\ helper /\ helper' = FALSE
    /\ UNCHANGED <<timely, caller, child, output, written, pipe, threads>>

-----------------------------------------------------------------------------
(* _drain_capped, one line at a time: grep first, then the cap.            *)
\* Mutants: no grep; a line may go one byte beyond the cap.
Kept_All(s, line) == TRUE
Fits_OneMore(s, line) == total[s] + line.bytes <= Cap[s] + 1

Kept(s, line) == s = "err" \/ line.match
Fits(s, line) == total[s] + line.bytes <= Cap[s]

ReadLine(s) ==
    /\ child # "none" /\ drain[s] = "reading" /\ pipe[s] # <<>>
    /\ LET line == Head(pipe[s])
           remaining == Cap[s] - total[s]
       IN  \/ /\ ~Kept(s, line)
              /\ UNCHANGED threads
           \/ /\ Kept(s, line) /\ Fits(s, line)
              /\ chunks' = [chunks EXCEPT ![s] = Append(@, [line |-> line, bytes |-> line.bytes])]
              /\ total' = [total EXCEPT ![s] = @ + line.bytes]
              /\ UNCHANGED <<drain, truncated>>
           \/ /\ Kept(s, line) /\ ~Fits(s, line)
              /\ chunks' = [chunks EXCEPT ![s] =
                    IF remaining > 0 THEN Append(@, [line |-> line, bytes |-> remaining]) ELSE @]
              /\ total' = [total EXCEPT ![s] = Cap[s]]
              /\ truncated' = [truncated EXCEPT ![s] = TRUE]
              /\ drain' = [drain EXCEPT ![s] = "discarding"]
    /\ pipe' = [pipe EXCEPT ![s] = Tail(@)]
    /\ UNCHANGED <<timely, caller, kubectl>>

\* The rest is read, and not kept.
DiscardLine(s) ==
    /\ drain[s] = "discarding" /\ pipe[s] # <<>>
    /\ pipe' = [pipe EXCEPT ![s] = Tail(@)]
    /\ UNCHANGED <<timely, caller, kubectl, threads>>

\* Mutant: a thread that has filled its cap ends, and leaves the rest unread.
EndOfFile_AtCap(s) ==
    /\ drain[s] = "discarding" \/ (drain[s] = "reading" /\ child = "ended" /\ ~helper /\ pipe[s] = <<>>)
    /\ drain' = [drain EXCEPT ![s] = "boxing"]
    /\ UNCHANGED <<timely, caller, kubectl, pipe, chunks, total, truncated>>

\* End of file: nobody can write any more, and all is read.
EndOfFile(s) ==
    /\ child = "ended" /\ ~helper
    /\ drain[s] \in {"reading", "discarding"} /\ pipe[s] = <<>>
    /\ drain' = [drain EXCEPT ![s] = "boxing"]
    /\ UNCHANGED <<timely, caller, kubectl, pipe, chunks, total, truncated>>

EndThread(s) ==
    /\ drain[s] = "boxing"
    /\ drain' = [drain EXCEPT ![s] = "ended"]
    /\ UNCHANGED <<timely, caller, kubectl, pipe, chunks, total, truncated>>

Caller == Reject \/ Start \/ StartFails \/ WaitReturns \/ WaitTimesOut \/ JoinStdout \/ JoinStderr
Kubectl == (\E s \in Streams : Write(s)) \/ Exit \/ HelperEnds
Drain(s) == ReadLine(s) \/ DiscardLine(s) \/ EndOfFile(s) \/ EndThread(s)
Next == Caller \/ Kubectl \/ \E s \in Streams : Drain(s)
Spec == Init /\ [][Next]_vars

\* The caller and the threads are scheduled, timeouts run out. Of kubectl:
\* it writes when it can and ends when it has written all.
FairSpec ==
    /\ Spec
    /\ WF_vars(Caller)
    /\ \A s \in Streams : WF_vars(Drain(s)) /\ WF_vars(Write(s))
    /\ WF_vars(Exit) /\ WF_vars(HelperEnds)

-----------------------------------------------------------------------------
(* Reference: the first Cap[s] bytes of the lines that count. `ls` are the  *)
(* lines of stream s; both are functions of how many of them are taken.    *)
Counts(s, line) == line.match \/ s = "err"
Bytes(s, ls) ==
    LET sum[n \in 0..Len(ls)] ==
            IF n = 0 THEN 0
            ELSE sum[n - 1] + IF Counts(s, ls[n]) THEN ls[n].bytes ELSE 0
    IN  sum
FirstBytes(s, ls) ==
    LET first[n \in 0..Len(ls)] ==
            IF n = 0 THEN <<>>
            ELSE IF Counts(s, ls[n]) /\ Bytes(s, ls)[n - 1] < Cap[s]
            THEN LET left == Cap[s] - Bytes(s, ls)[n - 1]
                 IN  Append(first[n - 1],
                            [line |-> ls[n], bytes |-> IF ls[n].bytes <= left THEN ls[n].bytes ELSE left])
            ELSE first[n - 1]
    IN  first
AllBytes(s) == Bytes(s, output[s])[Len(output[s])]
AllFirstBytes(s) == FirstBytes(s, output[s])[Len(output[s])]

TypeOK ==
    /\ pc \in {"start", "wait", "join_out", "join_err", "returned", "raised"}
    /\ {timely, file, killed, helper} \subseteq BOOLEAN
    /\ child \in {"none", "running", "ended"}
    /\ output \in Outputs
    /\ \A s \in Streams :
          /\ written[s] \in 0..Len(output[s])
          /\ Len(pipe[s]) <= PipeCap
          /\ drain[s] \in {"reading", "discarding", "boxing", "ended"}
          /\ total[s] \in 0..Cap[s]
          /\ truncated[s] \in BOOLEAN
    /\ result.status \in {"none", "rejected", "run"}

\* "The response is genuinely the first maxBytes of matching output": what is
\* returned is always a beginning of that, whatever was killed or timed out,
\* and all of it when the command and the stream's thread came to their end.
OutputIsFirstMatching ==
    result.status = "run" =>
        \A s \in Streams :
            /\ IsPrefix(result.data[s], AllFirstBytes(s))
            /\ s \in result.joined /\ ~killed => result.data[s] = AllFirstBytes(s)

\* A result says truncated exactly when the command was killed or there was
\* more matching output than the cap -- if both threads came to their end.
TruncatedMeansCut ==
    result.status = "run" /\ result.joined = Streams =>
        (result.truncated <=> killed \/ \E s \in Streams : AllBytes(s) > Cap[s])

\* "So the process isn't left blocked on a full pipe": a thread is there to
\* read from a pipe as long as something is, or may be, written to it.
PipesAreDrained ==
    \A s \in Streams : drain[s] \in {"boxing", "ended"} => pipe[s] = <<>> /\ child = "ended"

\* A command with more output than the cap, on either stream or both, still
\* comes to its own end without any timeout.
CommandReturns == <>(pc \in {"returned", "raised"})
=============================================================================
