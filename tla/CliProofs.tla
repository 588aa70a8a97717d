------------------------------ MODULE CliProofs ------------------------------
(***************************************************************************)
(* rwdiscovery/cli.py, both halves of it. What run_cli returns, for any    *)
(* output, caps and pipe size, and any schedule of the caller, the threads *)
(* and kubectl: module CliExec. And before that, what the walk over a      *)
(* command makes of any command of any pack: tokens that are of their      *)
(* types, a normalised argv that validates to itself and that              *)
(* _split_normalised reads as it was meant, and logs that are bounded:     *)
(* module CliArgv, whose specification is ArgvSpec. And that the task      *)
(* full_output_for names for it selects all that the command did: module   *)
(* FullOutput.                                                             *)
(***************************************************************************)
EXTENDS FullOutput, CliExec, DataTheorems

-----------------------------------------------------------------------------
(* The reference definitions.                                              *)

LEMMA BytesIs ==
    ASSUME NEW s, NEW L, NEW ls \in Seq(L), \A line \in L : line.bytes \in Nat
    PROVE  /\ Bytes(s, ls) \in [0..Len(ls) -> Nat]
           /\ Bytes(s, ls)[0] = 0
           /\ \A n \in 1..Len(ls) : Bytes(s, ls)[n] =
                 Bytes(s, ls)[n - 1] + IF Counts(s, ls[n]) THEN ls[n].bytes ELSE 0
<1> DEFINE weight(n) == IF Counts(s, ls[n]) THEN ls[n].bytes ELSE 0
           step == [p \in Nat \X Nat |-> IF p[1] \in 1..Len(ls) THEN p[2] + weight(p[1]) ELSE p[2]]
           Eq(f) == f = [n \in 0..Len(ls) |-> IF n = 0 THEN 0 ELSE f[n - 1] + weight(n)]
<1>1. \A n \in 1..Len(ls) : weight(n) \in Nat
  <2>1. \A n \in 1..Len(ls) : ls[n] \in L
    OBVIOUS
  <2> QED  BY <2>1
<1>2. step \in [Nat \X Nat -> Nat]
  BY <1>1
<1>3. \A n \in 1..Len(ls), v \in Nat : step[<<n, v>>] = v + weight(n)
  OBVIOUS
<1> HIDE DEF weight, step
<1>4. PICK f : Unfolds(f, 0, step, Nat, Len(ls))
  <2> DEFINE V == Nat
             zero == 0
             m == Len(ls)
  <2>1. zero \in V /\ m \in Nat /\ step \in Steps(V)
    BY <1>2 DEF Steps
  <2> HIDE DEF V, zero, m
  <2>2. \E f : Unfolds(f, zero, step, V, m)
    BY <2>1, RecursionExists
  <2> QED  BY <2>2 DEF V, zero, m
<1>5. Eq(f)
  <2>1. \A i \in 1..Len(ls) : f[i - 1] \in Nat
    <3>1. f \in [0..Len(ls) -> Nat] /\ \A i \in 1..Len(ls) : i - 1 \in 0..Len(ls)
      BY <1>4 DEF Unfolds
    <3> QED  BY <3>1
  <2>2. \A i \in 1..Len(ls) : f[i] = f[i - 1] + weight(i)
    BY <1>3, <1>4, <2>1 DEF Unfolds
  <2> QED  BY <1>4, <2>2 DEF Unfolds
<1>6. Bytes(s, ls) = CHOOSE g : Eq(g)
  BY DEF Bytes, weight
<1> DEFINE b == Bytes(s, ls)
<1>7. Eq(b)
  BY <1>5, <1>6
<1> HIDE DEF b
<1>8. b[0] = 0 /\ \A n \in 1..Len(ls) : b[n] = b[n - 1] + weight(n)
  BY <1>7
<1>9. b \in [0..Len(ls) -> Nat]
  <2> DEFINE S == {n \in Nat : n \in 0..Len(ls) => b[n] \in Nat}
  <2>1. 0 \in S
    BY <1>8
  <2>2. ASSUME NEW n \in Nat, n \in S PROVE n + 1 \in S
    BY <1>1, <1>8, <2>2
  <2> HIDE DEF S
  <2>3. Nat \subseteq S
    BY <2>1, <2>2, NatInductionOverSet
  <2>4. \A n \in 0..Len(ls) : b[n] \in Nat
    BY <2>3 DEF S
  <2> QED  BY <1>7, <2>4
<1> QED  BY <1>8, <1>9 DEF b, weight

Chunks(L) == Seq([line : L, bytes : Nat])

\* What the first n lines give is the beginning of what all of them give.
LEMMA FirstBytesIs ==
    ASSUME NEW s \in Streams, NEW L, NEW ls \in Seq(L), \A line \in L : line.bytes \in Nat
    PROVE  /\ FirstBytes(s, ls) \in [0..Len(ls) -> Chunks(L)]
           /\ FirstBytes(s, ls)[0] = <<>>
           /\ \A n \in 1..Len(ls) : FirstBytes(s, ls)[n] =
                 LET before == Bytes(s, ls)[n - 1]
                     left == Cap[s] - before
                 IN  IF Counts(s, ls[n]) /\ before < Cap[s]
                     THEN Append(FirstBytes(s, ls)[n - 1],
                                 [line |-> ls[n], bytes |-> IF ls[n].bytes <= left THEN ls[n].bytes ELSE left])
                     ELSE FirstBytes(s, ls)[n - 1]
<1> DEFINE V == Chunks(L)
           more(n) == Counts(s, ls[n]) /\ Bytes(s, ls)[n - 1] < Cap[s]
           left(n) == Cap[s] - Bytes(s, ls)[n - 1]
           chunk(n) == [line |-> ls[n], bytes |-> IF ls[n].bytes <= left(n) THEN ls[n].bytes ELSE left(n)]
           step == [p \in Nat \X V |-> IF p[1] \in 1..Len(ls) /\ more(p[1])
                                       THEN Append(p[2], chunk(p[1])) ELSE p[2]]
           Eq(f) == f = [n \in 0..Len(ls) |-> IF n = 0 THEN <<>> ELSE
                            IF more(n) THEN Append(f[n - 1], chunk(n)) ELSE f[n - 1]]
<1>1. \A n \in 1..Len(ls) : more(n) => chunk(n) \in [line : L, bytes : Nat]
  <2>1. \A n \in 1..Len(ls) : ls[n] \in L /\ ls[n].bytes \in Nat /\ Bytes(s, ls)[n - 1] \in Nat
    <3>1. Bytes(s, ls) \in [0..Len(ls) -> Nat]
      BY BytesIs
    <3> QED  BY <3>1
  <2>2. Cap[s] \in Nat
    BY CapAssumption
  <2>3. \A n \in 1..Len(ls) : more(n) => left(n) \in Nat
    BY <2>1, <2>2
  <2> HIDE DEF left, more
  <2> QED  BY <2>1, <2>3
<1> HIDE DEF more, chunk
<1>2. <<>> \in V /\ Len(ls) \in Nat
  BY DEF Chunks
<1>3. \A n \in 1..Len(ls), v \in V : more(n) => Append(v, chunk(n)) \in V
  BY <1>1 DEF Chunks
<1> HIDE DEF V, Eq
<1>4. step \in [Nat \X V -> V]
  BY <1>3
<1>5. \A n \in 1..Len(ls), v \in V : step[<<n, v>>] = IF more(n) THEN Append(v, chunk(n)) ELSE v
  OBVIOUS
<1> HIDE DEF step
<1>6. PICK f : Unfolds(f, <<>>, step, V, Len(ls))
  BY <1>2, <1>4, RecursionExists DEF Steps
<1>7. Eq(f)
  <2>1. \A i \in 1..Len(ls) : f[i - 1] \in V
    BY <1>2, <1>6 DEF Unfolds
  <2>2. f[0] = <<>> /\ \A i \in 1..Len(ls) : f[i] = IF more(i) THEN Append(f[i - 1], chunk(i)) ELSE f[i - 1]
    BY <1>5, <1>6, <2>1 DEF Unfolds
  <2>3. \A n \in 0..Len(ls) : f[n] = IF n = 0 THEN <<>> ELSE
                            IF more(n) THEN Append(f[n - 1], chunk(n)) ELSE f[n - 1]
    BY <1>2, <2>2
  <2>4. f = [n \in 0..Len(ls) |-> f[n]]
    BY <1>6 DEF Unfolds
  <2> QED  BY <2>3, <2>4 DEF Eq
<1> DEFINE b == FirstBytes(s, ls)
<1>8. Eq(b)
  <2>1. b = CHOOSE g : Eq(g)
    BY DEF FirstBytes, more, chunk, left, Eq
  <2> HIDE DEF b
  <2> QED  BY <1>7, <2>1
<1> HIDE DEF b
<1>9. b[0] = <<>> /\ \A n \in 1..Len(ls) : b[n] = IF more(n) THEN Append(b[n - 1], chunk(n)) ELSE b[n - 1]
  <2>1. \A n \in 0..Len(ls) : b[n] = IF n = 0 THEN <<>> ELSE
                            IF more(n) THEN Append(b[n - 1], chunk(n)) ELSE b[n - 1]
    BY <1>8 DEF Eq
  <2>2. \A n \in 1..Len(ls) : n \in 0..Len(ls) /\ n # 0
    BY <1>2
  <2>3. 0 \in 0..Len(ls)
    BY <1>2
  <2> QED  BY <2>1, <2>2, <2>3
<1>10. b \in [0..Len(ls) -> V]
  <2> DEFINE S == {n \in Nat : n \in 0..Len(ls) => b[n] \in V}
  <2>1. 0 \in S
    BY <1>2, <1>9
  <2>2. ASSUME NEW n \in Nat, n \in S PROVE n + 1 \in S
    <3> SUFFICES ASSUME n + 1 \in 0..Len(ls) PROVE b[n + 1] \in V
      OBVIOUS
    <3>1. n + 1 \in 1..Len(ls) /\ b[n] \in V /\ (n + 1) - 1 = n
      BY <1>2, <2>2
    <3> QED  BY <1>3, <1>9, <3>1
  <2> HIDE DEF S
  <2>3. Nat \subseteq S
    BY <2>1, <2>2, NatInductionOverSet
  <2>4. \A n \in 0..Len(ls) : b[n] \in V
    BY <1>2, <2>3 DEF S
  <2> QED  BY <1>8, <2>4 DEF Eq
<1> QED  BY <1>9, <1>10 DEF b, V, more, chunk, left

\* What more lines give never takes back what fewer gave.
LEMMA BytesGrow ==
    ASSUME NEW s, NEW L, NEW ls \in Seq(L), \A line \in L : line.bytes \in Nat,
           NEW i \in 0..Len(ls), NEW j \in i..Len(ls)
    PROVE  Bytes(s, ls)[i] <= Bytes(s, ls)[j]
<1> DEFINE b == Bytes(s, ls)
           S == {d \in Nat : i + d <= Len(ls) => b[i] <= b[i + d]}
<1>1. /\ b \in [0..Len(ls) -> Nat]
      /\ \A n \in 1..Len(ls) : b[n - 1] <= b[n]
  <2>1. /\ b \in [0..Len(ls) -> Nat]
        /\ \A n \in 1..Len(ls) : b[n] = b[n - 1] + IF Counts(s, ls[n]) THEN ls[n].bytes ELSE 0
    BY BytesIs
  <2> HIDE DEF b
  <2>2. ASSUME NEW n \in 1..Len(ls)
        PROVE  b[n - 1] <= b[n]
    <3>1. ls[n] \in L /\ n - 1 \in 0..Len(ls)
      OBVIOUS
    <3>2. ls[n].bytes \in Nat /\ b[n - 1] \in Nat
      BY <2>1, <3>1
    <3>3. b[n] = b[n - 1] + ls[n].bytes \/ b[n] = b[n - 1]
      <4>1. b[n] = b[n - 1] + IF Counts(s, ls[n]) THEN ls[n].bytes ELSE 0
        BY <2>1
      <4> QED  BY <3>2, <4>1
    <3> QED  BY <3>2, <3>3
  <2> QED  BY <2>1, <2>2
<1> HIDE DEF b
<1>2. 0 \in S
  BY <1>1
<1>3. ASSUME NEW d \in Nat, d \in S PROVE d + 1 \in S
  <2> SUFFICES ASSUME i + (d + 1) <= Len(ls) PROVE b[i] <= b[i + (d + 1)]
    OBVIOUS
  <2>1. b[i] <= b[i + d]
    BY <1>3
  <2>2. i + (d + 1) \in 1..Len(ls) /\ (i + (d + 1)) - 1 = i + d
    OBVIOUS
  <2>3. b[i + d] <= b[i + (d + 1)]
    BY <1>1, <2>2
  <2>4. i \in 0..Len(ls) /\ i + d \in 0..Len(ls) /\ i + (d + 1) \in 0..Len(ls)
    BY <2>2
  <2>5. b[i] \in Nat /\ b[i + d] \in Nat /\ b[i + (d + 1)] \in Nat
    BY <1>1, <2>4
  <2> QED  BY <2>1, <2>3, <2>5
<1> HIDE DEF S
<1>4. j - i \in S
  <2>1. Nat \subseteq S
    BY <1>2, <1>3, NatInductionOverSet
  <2> QED  BY <2>1
<1> QED  BY <1>4 DEF S, b

LEMMA AppendedIsPrefix ==
    ASSUME NEW V, NEW a \in Seq(V), NEW b \in Seq(V), NEW x \in V, IsPrefix(a, b)
    PROVE  IsPrefix(a, Append(b, x))
<1>1. \A n \in 1..Len(a) : a[n] = b[n]
  <2>1. \A n \in 1..Len(a) : SubSeq(a, 1, Len(a))[n] = a[n] /\ SubSeq(b, 1, Len(a))[n] = b[n]
    BY DEF IsPrefix
  <2> QED  BY <2>1 DEF IsPrefix
<1>2. Len(a) <= Len(b) /\ Len(Append(b, x)) = Len(b) + 1
  BY DEF IsPrefix
<1>3. \A n \in 1..Len(a) : Append(b, x)[n] = a[n]
  BY <1>1, <1>2
<1>4. SubSeq(a, 1, Len(a)) = SubSeq(Append(b, x), 1, Len(a))
  <2> DEFINE c == Append(b, x)
  <2>1. c \in Seq(V) /\ Len(c) = Len(b) + 1
    OBVIOUS
  <2> HIDE DEF c
  <2> QED  BY <1>2, <1>3, <2>1 DEF c
<1> QED  BY <1>2, <1>4 DEF IsPrefix

LEMMA FirstBytesGrow ==
    ASSUME NEW s \in Streams, NEW L, NEW ls \in Seq(L), \A line \in L : line.bytes \in Nat,
           NEW i \in 0..Len(ls), NEW j \in i..Len(ls)
    PROVE  IsPrefix(FirstBytes(s, ls)[i], FirstBytes(s, ls)[j])
<1> DEFINE f == FirstBytes(s, ls)
           V == [line : L, bytes : Nat]
           S == {d \in Nat : i + d <= Len(ls) => IsPrefix(f[i], f[i + d])}
<1>1. f \in [0..Len(ls) -> Seq(V)]
  BY FirstBytesIs DEF Chunks
<1>2. ASSUME NEW n \in 1..Len(ls)
      PROVE  f[n] = f[n - 1] \/ \E x \in V : f[n] = Append(f[n - 1], x)
  <2> DEFINE before == Bytes(s, ls)[n - 1]
             left == Cap[s] - before
             chunk == [line |-> ls[n], bytes |-> IF ls[n].bytes <= left THEN ls[n].bytes ELSE left]
  <2>1. f[n] = IF Counts(s, ls[n]) /\ before < Cap[s] THEN Append(f[n - 1], chunk) ELSE f[n - 1]
    BY FirstBytesIs
  <2>2. before < Cap[s] => chunk \in V
    <3>1. before \in Nat /\ Cap[s] \in Nat /\ ls[n] \in L /\ ls[n].bytes \in Nat
      <4>1. Bytes(s, ls) \in [0..Len(ls) -> Nat]
        BY BytesIs
      <4>2. n - 1 \in 0..Len(ls) /\ Cap[s] \in Nat /\ ls[n] \in L
        BY CapAssumption
      <4> HIDE DEF chunk, f
      <4> QED  BY <4>1, <4>2
    <3> QED  BY <3>1
  <2> HIDE DEF f, chunk, before
  <2> QED  BY <2>1, <2>2
<1> HIDE DEF f, V
<1>3. 0 \in S
  <2>1. f[i] \in Seq(V)
    BY <1>1
  <2>2. IsPrefix(f[i], f[i])
    BY <2>1 DEF IsPrefix
  <2> QED  BY <2>2
<1>4. ASSUME NEW d \in Nat, d \in S PROVE d + 1 \in S
  <2> SUFFICES ASSUME i + (d + 1) <= Len(ls) PROVE IsPrefix(f[i], f[i + (d + 1)])
    OBVIOUS
  <2>1. IsPrefix(f[i], f[i + d])
    BY <1>4
  <2>2. i + (d + 1) \in 1..Len(ls) /\ (i + (d + 1)) - 1 = i + d /\ i + d \in 0..Len(ls)
    OBVIOUS
  <2>3. f[i + (d + 1)] = f[i + d] \/ \E x \in V : f[i + (d + 1)] = Append(f[i + d], x)
    BY <1>2, <2>2
  <2>4. f[i] \in Seq(V) /\ f[i + d] \in Seq(V)
    BY <1>1, <2>2
  <2> QED  BY <2>1, <2>3, <2>4, AppendedIsPrefix
<1> HIDE DEF S
<1>5. j - i \in S
  <2>1. Nat \subseteq S
    BY <1>3, <1>4, NatInductionOverSet
  <2> QED  BY <2>1
<1> QED  BY <1>5 DEF S, f

-----------------------------------------------------------------------------
(* The invariant.                                                          *)

Lines(s) == Range(output[s])

Typed ==
    /\ pc \in {"start", "wait", "join_out", "join_err", "returned", "raised"}
    /\ {timely, file, killed, helper} \subseteq BOOLEAN
    /\ child \in {"none", "running", "ended"}
    /\ output \in Outputs
    /\ written \in [Streams -> Nat]
    /\ pipe = [s \in Streams |-> pipe[s]] /\ \A s \in Streams : pipe[s] \in Seq(Lines(s))
    /\ drain \in [Streams -> {"reading", "discarding", "boxing", "ended"}]
    /\ chunks = [s \in Streams |-> chunks[s]] /\ \A s \in Streams : chunks[s] \in Chunks(Lines(s))
    /\ total \in [Streams -> Nat]
    /\ truncated \in [Streams -> BOOLEAN]

\* What a thread has read of what kubectl has written; the rest is in the pipe.
Taken(s) == written[s] - Len(pipe[s])
Piped ==
    \A s \in Streams :
        /\ written[s] <= Len(output[s])
        /\ Len(pipe[s]) <= PipeCap /\ Len(pipe[s]) <= written[s]
        /\ \A i \in 1..Len(pipe[s]) : pipe[s][i] = output[s][Taken(s) + i]

\* A thread that reads has kept the first bytes of what it took, and counts
\* them right; one that does not has nothing to add.
Counted(s) ==
    LET taken == Bytes(s, output[s])[Taken(s)]
    IN  /\ chunks[s] = FirstBytes(s, output[s])[Taken(s)]
        /\ total[s] <= Cap[s]
        /\ truncated[s] => taken > Cap[s] /\ drain[s] # "reading"
        /\ ~truncated[s] => total[s] = taken /\ drain[s] # "discarding"
Collected == \A s \in Streams : Counted(s)

\* kubectl is not there before it is started, not after the wait, and a kubectl
\* that was not killed has written everything; what has ended is drained.
Ended ==
    /\ pc = "start" => child = "none"
    /\ pc \in {"join_out", "join_err"} => child = "ended"
    /\ killed => child = "ended"
    /\ child = "ended" /\ ~killed => \A s \in Streams : written[s] = Len(output[s])
    /\ PipesAreDrained

\* A result was right when it was made, and what it was made of has not changed.
Answered ==
    /\ result.status \in {"none", "rejected", "run"}
    /\ result.status = "run" =>
          /\ pc = "returned" /\ child = "ended"
          /\ \A s \in Streams :
                /\ result.data[s] = <<>> \/ (drain[s] \in {"boxing", "ended"} /\ result.data[s] = chunks[s])
                /\ s \in result.joined => drain[s] = "ended" /\ result.data[s] = chunks[s]
          /\ result.joined = Streams =>
                (result.truncated <=> killed \/ \E s \in Streams : truncated[s])

IInv == Typed /\ Piped /\ Collected /\ Ended /\ Answered

LEMMA OutputTypes ==
    ASSUME Typed, NEW s \in Streams
    PROVE  /\ output[s] \in Seq(Lines(s)) /\ Len(output[s]) \in Nat
           /\ \A line \in Lines(s) : line.bytes \in Nat /\ line.bytes > 0
           /\ Cap[s] \in Nat
<1>1. output \in Outputs
  BY DEF Typed
<1>2. output[s] \in Seq(Lines(s)) /\ \A line \in Lines(s) : line.bytes \in Nat \ {0}
  BY <1>1, OutputsAssumption DEF Lines
<1>3. Cap[s] \in Nat
  BY CapAssumption
<1> QED  BY <1>2, <1>3

LEMMA TakenIs ==
    ASSUME Typed, Piped, NEW s \in Streams
    PROVE  /\ Taken(s) \in 0..Len(output[s])
           /\ Bytes(s, output[s])[Taken(s)] \in Nat
           /\ FirstBytes(s, output[s])[Taken(s)] \in Chunks(Lines(s))
<1>1. Taken(s) \in 0..Len(output[s])
  <2>1. written[s] \in Nat /\ Len(pipe[s]) \in Nat /\ Len(output[s]) \in Nat
    BY OutputTypes DEF Typed
  <2>2. Len(pipe[s]) <= written[s] /\ written[s] <= Len(output[s])
    BY DEF Piped
  <2> QED  BY <2>1, <2>2 DEF Taken
<1>2. output[s] \in Seq(Lines(s)) /\ \A line \in Lines(s) : line.bytes \in Nat
  BY OutputTypes
<1>3. Bytes(s, output[s]) \in [0..Len(output[s]) -> Nat]
  BY <1>2, BytesIs
<1>4. FirstBytes(s, output[s]) \in [0..Len(output[s]) -> Chunks(Lines(s))]
  BY <1>2, FirstBytesIs
<1> QED  BY <1>1, <1>3, <1>4

\* The next line a thread reads, and what it adds to the reference.
LEMMA NextLine ==
    ASSUME Typed, Piped, NEW s \in Streams, pipe[s] # <<>>,
           NEW n, n = Taken(s) + 1, NEW line, line = Head(pipe[s])
    PROVE  /\ n \in 1..Len(output[s]) /\ n - 1 = Taken(s)
           /\ line \in Lines(s) /\ line = output[s][n]
           /\ Bytes(s, output[s])[n] =
                 Bytes(s, output[s])[n - 1] + IF Counts(s, line) THEN line.bytes ELSE 0
           /\ FirstBytes(s, output[s])[n] =
                 LET before == Bytes(s, output[s])[n - 1]
                     left == Cap[s] - before
                 IN  IF Counts(s, line) /\ before < Cap[s]
                     THEN Append(FirstBytes(s, output[s])[n - 1],
                                 [line |-> line, bytes |-> IF line.bytes <= left THEN line.bytes ELSE left])
                     ELSE FirstBytes(s, output[s])[n - 1]
<1>1. /\ pipe[s] \in Seq(Lines(s)) /\ written[s] \in Nat /\ Len(output[s]) \in Nat
      /\ written[s] <= Len(output[s]) /\ Len(pipe[s]) <= written[s]
      /\ \A i \in 1..Len(pipe[s]) : pipe[s][i] = output[s][Taken(s) + i]
  BY OutputTypes DEF Typed, Piped
<1>2. Len(pipe[s]) \in Nat /\ Len(pipe[s]) > 0 /\ line = pipe[s][1] /\ line \in Lines(s)
  BY <1>1
<1>3. n \in 1..Len(output[s]) /\ n - 1 = Taken(s)
  BY <1>1, <1>2 DEF Taken
<1>4. line = output[s][n]
  BY <1>1, <1>2
<1>5. output[s] \in Seq(Lines(s)) /\ \A l \in Lines(s) : l.bytes \in Nat
  BY OutputTypes
<1>6. Bytes(s, output[s])[n] =
          Bytes(s, output[s])[n - 1] + IF Counts(s, line) THEN line.bytes ELSE 0
  BY <1>3, <1>4, <1>5, BytesIs
<1>7. FirstBytes(s, output[s])[n] =
          LET before == Bytes(s, output[s])[n - 1]
              left == Cap[s] - before
          IN  IF Counts(s, line) /\ before < Cap[s]
              THEN Append(FirstBytes(s, output[s])[n - 1],
                          [line |-> line, bytes |-> IF line.bytes <= left THEN line.bytes ELSE left])
              ELSE FirstBytes(s, output[s])[n - 1]
  BY <1>3, <1>4, <1>5, FirstBytesIs
<1> QED  BY <1>2, <1>3, <1>4, <1>6, <1>7

-----------------------------------------------------------------------------
(* The initial states, and the steps.                                      *)

LEMMA InitInvariant == Init => IInv
<1> SUFFICES ASSUME Init PROVE IInv
  OBVIOUS
<1>1. Typed
  <2>1. written \in [Streams -> Nat] /\ total \in [Streams -> Nat]
        /\ drain \in [Streams -> {"reading", "discarding", "boxing", "ended"}]
        /\ truncated \in [Streams -> BOOLEAN]
    BY DEF Init
  <2>2. pipe = [s \in Streams |-> pipe[s]] /\ \A s \in Streams : pipe[s] \in Seq(Lines(s))
    BY DEF Init
  <2>3. chunks = [s \in Streams |-> chunks[s]] /\ \A s \in Streams : chunks[s] \in Chunks(Lines(s))
    BY DEF Init, Chunks
  <2> QED  BY <2>1, <2>2, <2>3 DEF Init, Typed
<1>2. \A s \in Streams : Len(output[s]) \in Nat /\ Cap[s] \in Nat
  BY <1>1, OutputTypes
<1>3. \A s \in Streams : pipe[s] = <<>> /\ written[s] = 0
  BY DEF Init
<1>4. Piped
  BY <1>2, <1>3, CapAssumption DEF Piped
<1>5. Collected
  <2> SUFFICES ASSUME NEW s \in Streams PROVE Counted(s)
    BY DEF Collected
  <2>1. Taken(s) = 0
    BY <1>3 DEF Taken
  <2>2. output[s] \in Seq(Lines(s)) /\ \A line \in Lines(s) : line.bytes \in Nat
    BY <1>1, OutputTypes
  <2>3. Bytes(s, output[s])[0] = 0
    BY <2>2, BytesIs
  <2>4. FirstBytes(s, output[s])[0] = <<>>
    BY <2>2, FirstBytesIs
  <2>5. chunks[s] = <<>> /\ total[s] = 0 /\ truncated[s] = FALSE /\ drain[s] = "reading"
    BY DEF Init
  <2> QED  BY <1>2, <2>1, <2>3, <2>4, <2>5 DEF Counted
<1>6. Ended
  BY DEF Init, Ended, PipesAreDrained
<1>7. Answered
  BY DEF Init, Answered, NoResult
<1> QED  BY <1>1, <1>4, <1>5, <1>6, <1>7 DEF IInv

\* ReadLine, in its three cases.
Skips(s) == ~Kept(s, Head(pipe[s])) /\ UNCHANGED threads
Keeps(s) ==
    LET line == Head(pipe[s])
    IN  /\ Kept(s, line) /\ Fits(s, line)
        /\ chunks' = [chunks EXCEPT ![s] = Append(@, [line |-> line, bytes |-> line.bytes])]
        /\ total' = [total EXCEPT ![s] = @ + line.bytes]
        /\ UNCHANGED <<drain, truncated>>
Cuts(s) ==
    LET line == Head(pipe[s])
        remaining == Cap[s] - total[s]
    IN  /\ Kept(s, line) /\ ~Fits(s, line)
        /\ chunks' = [chunks EXCEPT ![s] =
              IF remaining > 0 THEN Append(@, [line |-> line, bytes |-> remaining]) ELSE @]
        /\ total' = [total EXCEPT ![s] = Cap[s]]
        /\ truncated' = [truncated EXCEPT ![s] = TRUE]
        /\ drain' = [drain EXCEPT ![s] = "discarding"]
LEMMA ReadLineIs ==
    ASSUME NEW s \in Streams, ReadLine(s)
    PROVE  /\ child # "none" /\ drain[s] = "reading" /\ pipe[s] # <<>>
           /\ Skips(s) \/ Keeps(s) \/ Cuts(s)
           /\ pipe' = [pipe EXCEPT ![s] = Tail(@)]
           /\ UNCHANGED <<timely, caller, kubectl>>
BY DEF ReadLine, Skips, Keeps, Cuts

LEMMA TailIs ==
    ASSUME NEW V, NEW q \in Seq(V), q # <<>>
    PROVE  /\ Tail(q) \in Seq(V) /\ Len(q) \in Nat /\ Len(Tail(q)) \in Nat
           /\ Len(Tail(q)) = Len(q) - 1
           /\ \A i \in 1..Len(Tail(q)) : Tail(q)[i] = q[i + 1]
OBVIOUS

LEMMA TypedStep == Typed /\ Piped /\ [Next]_vars => Typed'
<1> SUFFICES ASSUME Typed, Piped, [Next]_vars PROVE Typed'
  OBVIOUS
<1> USE DEF Typed
<1>1. CASE UNCHANGED vars
  BY <1>1 DEF vars, caller, kubectl, threads, Lines
<1>2. CASE Caller
  BY <1>2 DEF Caller, Reject, Start, StartFails, WaitReturns, WaitTimesOut, JoinStdout, JoinStderr,
              kubectl, threads, Lines
<1>3. ASSUME NEW s \in Streams, Write(s)
      PROVE  Typed'
  <2>1. output[s] \in Seq(Lines(s)) /\ written[s] + 1 \in 1..Len(output[s])
    BY <1>3, OutputTypes DEF Write
  <2>2. output[s][written[s] + 1] \in Lines(s)
    BY <2>1
  <2>3. written' \in [Streams -> Nat]
    BY <1>3 DEF Write
  <2>4. pipe' = [r \in Streams |-> pipe'[r]] /\ \A r \in Streams : pipe'[r] \in Seq(Lines(r))
    <3>1. pipe' = [pipe EXCEPT ![s] = Append(@, output[s][written[s] + 1])]
      BY <1>3 DEF Write
    <3>2. pipe'[s] = Append(pipe[s], output[s][written[s] + 1]) /\ \A r \in Streams \ {s} : pipe'[r] = pipe[r]
      BY <3>1
    <3>3. pipe' = [r \in Streams |-> pipe'[r]]
      BY <3>1
    <3>4. pipe'[s] \in Seq(Lines(s))
      BY <2>2, <3>2
    <3>5. ASSUME NEW r \in Streams PROVE pipe'[r] \in Seq(Lines(r))
      BY <3>2, <3>4
    <3> QED  BY <3>3, <3>5
  <2>5. UNCHANGED <<timely, caller, child, helper, output, threads>>
    BY <1>3 DEF Write
  <2> QED  BY <2>3, <2>4, <2>5 DEF caller, threads, Lines
<1>4. CASE Exit \/ HelperEnds
  BY <1>4 DEF Exit, HelperEnds, caller, threads, Lines
<1>5. ASSUME NEW s \in Streams, ReadLine(s) \/ DiscardLine(s)
      PROVE  Typed'
  <2>1. /\ pipe[s] # <<>> /\ pipe' = [pipe EXCEPT ![s] = Tail(@)]
        /\ UNCHANGED <<timely, caller, kubectl>>
        /\ UNCHANGED threads \/ Skips(s) \/ Keeps(s) \/ Cuts(s)
    BY <1>5, ReadLineIs DEF DiscardLine
  <2>2. pipe' = [r \in Streams |-> pipe'[r]] /\ \A r \in Streams : pipe'[r] \in Seq(Lines(r))
    <3>1. pipe'[s] = Tail(pipe[s]) /\ \A r \in Streams \ {s} : pipe'[r] = pipe[r]
      BY <2>1
    <3>2. pipe' = [r \in Streams |-> pipe'[r]]
      BY <2>1
    <3>3. pipe'[s] \in Seq(Lines(s))
      BY <2>1, <3>1, TailIs
    <3>4. ASSUME NEW r \in Streams PROVE pipe'[r] \in Seq(Lines(r))
      BY <3>1, <3>3
    <3> QED  BY <3>2, <3>4
  <2>3. Head(pipe[s]) \in Lines(s) /\ Head(pipe[s]).bytes \in Nat /\ Cap[s] \in Nat /\ total[s] \in Nat
    BY <2>1, OutputTypes
  <2>4. /\ chunks' = [r \in Streams |-> chunks'[r]] /\ \A r \in Streams : chunks'[r] \in Chunks(Lines(r))
        /\ total' \in [Streams -> Nat] /\ truncated' \in [Streams -> BOOLEAN]
        /\ drain' \in [Streams -> {"reading", "discarding", "boxing", "ended"}]
    <3>1. CASE UNCHANGED threads \/ Skips(s)
      BY <3>1 DEF threads, Skips
    <3>2. ASSUME NEW more, more \in [line : Lines(s), bytes : Nat],
                 chunks' = [chunks EXCEPT ![s] = Append(@, more)]
          PROVE  chunks' = [r \in Streams |-> chunks'[r]] /\ \A r \in Streams : chunks'[r] \in Chunks(Lines(r))
      <4>1. chunks'[s] = Append(chunks[s], more) /\ \A r \in Streams \ {s} : chunks'[r] = chunks[r]
        BY <3>2
      <4>2. Append(chunks[s], more) \in Chunks(Lines(s))
        BY <3>2 DEF Chunks
      <4>3. chunks' = [r \in Streams |-> chunks'[r]]
        BY <3>2
      <4> QED  BY <4>1, <4>2, <4>3
    <3>3. CASE Keeps(s)
      <4>1. total' \in [Streams -> Nat] /\ UNCHANGED <<drain, truncated>>
        BY <2>3, <3>3 DEF Keeps
      <4>2. [line |-> Head(pipe[s]), bytes |-> Head(pipe[s]).bytes] \in [line : Lines(s), bytes : Nat]
        BY <2>3
      <4>3. chunks' = [chunks EXCEPT ![s] = Append(@, [line |-> Head(pipe[s]), bytes |-> Head(pipe[s]).bytes])]
        BY <3>3 DEF Keeps
      <4>4. chunks' = [r \in Streams |-> chunks'[r]] /\ \A r \in Streams : chunks'[r] \in Chunks(Lines(r))
        BY <3>2, <4>2, <4>3
      <4> QED  BY <4>1, <4>4
    <3>4. CASE Cuts(s)
      <4> DEFINE remaining == Cap[s] - total[s]
      <4>1. /\ total' \in [Streams -> Nat] /\ truncated' \in [Streams -> BOOLEAN]
            /\ drain' \in [Streams -> {"reading", "discarding", "boxing", "ended"}]
        BY <2>3, <3>4 DEF Cuts
      <4>2. CASE remaining > 0
        <5>1. [line |-> Head(pipe[s]), bytes |-> remaining] \in [line : Lines(s), bytes : Nat]
          BY <2>3, <4>2
        <5>2. chunks' = [chunks EXCEPT ![s] = Append(@, [line |-> Head(pipe[s]), bytes |-> remaining])]
          BY <3>4, <4>2 DEF Cuts
        <5> QED  BY <3>2, <4>1, <5>1, <5>2
      <4>3. CASE ~(remaining > 0)
        <5>1. chunks' = chunks
          BY <3>4, <4>3 DEF Cuts
        <5> QED  BY <4>1, <5>1
      <4> QED  BY <4>2, <4>3
    <3> QED  BY <2>1, <3>1, <3>3, <3>4
  <2> QED  BY <2>1, <2>2, <2>4 DEF caller, kubectl, Lines
<1>6. ASSUME NEW s \in Streams, EndOfFile(s) \/ EndThread(s)
      PROVE  Typed'
  BY <1>6 DEF EndOfFile, EndThread, caller, kubectl, Lines
<1> QED  BY <1>1, <1>2, <1>3, <1>4, <1>5, <1>6 DEF Next, Kubectl, Drain

\* A line written is a line in the pipe; a line taken is one less there.
LEMMA TakenOfWrite == ASSUME NEW w \in Nat, NEW l \in Nat PROVE (w + 1) - (l + 1) = w - l
OBVIOUS

LEMMA TakenOfRead == ASSUME NEW w \in Nat, NEW l \in Nat PROVE w - (l - 1) = (w - l) + 1
OBVIOUS

LEMMA PipedStep == Typed /\ Piped /\ [Next]_vars => Piped'
<1> SUFFICES ASSUME Typed, Piped, [Next]_vars PROVE Piped'
  OBVIOUS
<1>1. CASE UNCHANGED <<output, written, pipe>>
  BY <1>1 DEF Piped, Taken
<1>2. ASSUME NEW s \in Streams, Write(s)
      PROVE  Piped'
  <2>1. /\ pipe'[s] = Append(pipe[s], output[s][written[s] + 1]) /\ written'[s] = written[s] + 1
        /\ \A r \in Streams \ {s} : pipe'[r] = pipe[r] /\ written'[r] = written[r]
        /\ written[s] < Len(output[s]) /\ Len(pipe[s]) < PipeCap /\ output' = output
    BY <1>2 DEF Write, Typed
  <2>2. pipe[s] \in Seq(Lines(s)) /\ written[s] \in Nat /\ Len(output[s]) \in Nat /\ PipeCap \in Nat
    BY OutputTypes, CapAssumption DEF Typed
  <2>3. /\ Len(pipe'[s]) = Len(pipe[s]) + 1 /\ Len(pipe[s]) \in Nat
        /\ \A i \in 1..Len(pipe[s]) : pipe'[s][i] = pipe[s][i]
        /\ pipe'[s][Len(pipe[s]) + 1] = output[s][written[s] + 1]
    BY <2>1, <2>2
  <2>4. Taken(s)' = Taken(s)
    BY <2>1, <2>2, <2>3 DEF Taken
  <2>5. ASSUME NEW i \in 1..Len(pipe'[s])
        PROVE  pipe'[s][i] = output[s][Taken(s) + i]
    <3>1. CASE i \in 1..Len(pipe[s])
      BY <2>3, <3>1 DEF Piped
    <3>2. CASE i = Len(pipe[s]) + 1
      <4>1. Taken(s) + i = written[s] + 1
        BY <2>2, <2>3, <3>2 DEF Taken
      <4> QED  BY <2>3, <3>2, <4>1
    <3> QED  BY <2>3, <3>1, <3>2
  <2>6. /\ written'[s] <= Len(output[s]) /\ Len(pipe'[s]) <= PipeCap /\ Len(pipe'[s]) <= written'[s]
    BY <2>1, <2>2, <2>3 DEF Piped
  <2>7. ASSUME NEW r \in Streams \ {s}
        PROVE  /\ \A i \in 1..Len(pipe'[r]) : pipe'[r][i] = output'[r][Taken(r)' + i]
               /\ written'[r] <= Len(output'[r]) /\ Len(pipe'[r]) <= PipeCap
               /\ Len(pipe'[r]) <= written'[r]
    <3>1. Taken(r)' = Taken(r) /\ pipe'[r] = pipe[r] /\ written'[r] = written[r] /\ output' = output
      BY <2>1 DEF Taken
    <3> QED  BY <3>1 DEF Piped
  <2>8. \A i \in 1..Len(pipe'[s]) : pipe'[s][i] = output'[s][Taken(s)' + i]
    BY <2>1, <2>4, <2>5
  <2>9. /\ written'[s] <= Len(output'[s]) /\ Len(pipe'[s]) <= PipeCap
        /\ Len(pipe'[s]) <= written'[s]
    BY <2>1, <2>6
  <2> QED  BY <2>7, <2>8, <2>9 DEF Piped
<1>3. ASSUME NEW s \in Streams, ReadLine(s) \/ DiscardLine(s)
      PROVE  Piped'
  <2>1. /\ pipe[s] # <<>> /\ pipe' = [pipe EXCEPT ![s] = Tail(@)]
        /\ UNCHANGED <<written, output>>
    BY <1>3, ReadLineIs DEF DiscardLine, kubectl
  <2>2. pipe[s] \in Seq(Lines(s)) /\ written[s] \in Nat /\ PipeCap \in Nat
    BY CapAssumption DEF Typed
  <2>3. pipe'[s] = Tail(pipe[s]) /\ \A r \in Streams \ {s} : pipe'[r] = pipe[r]
    BY <2>1 DEF Typed
  <2>4. /\ Len(pipe'[s]) = Len(pipe[s]) - 1 /\ Len(pipe[s]) \in Nat /\ Len(pipe'[s]) \in Nat
        /\ \A i \in 1..Len(pipe'[s]) : pipe'[s][i] = pipe[s][i + 1]
    <3>1. /\ Len(Tail(pipe[s])) = Len(pipe[s]) - 1 /\ Len(pipe[s]) \in Nat /\ Len(Tail(pipe[s])) \in Nat
          /\ \A i \in 1..Len(Tail(pipe[s])) : Tail(pipe[s])[i] = pipe[s][i + 1]
      BY <2>1, <2>2, TailIs
    <3> QED  BY <2>3, <3>1
  <2>5. Taken(s)' = Taken(s) + 1 /\ Taken(s) \in Int
    BY <2>1, <2>2, <2>4 DEF Taken
  <2>6. ASSUME NEW i \in 1..Len(pipe'[s])
        PROVE  pipe'[s][i] = output[s][Taken(s)' + i]
    <3>1. i + 1 \in 1..Len(pipe[s])
      BY <2>4
    <3>2. pipe[s][i + 1] = output[s][Taken(s) + (i + 1)]
      BY <3>1 DEF Piped
    <3>3. Taken(s) + (i + 1) = Taken(s)' + i
      BY <2>4, <2>5
    <3> QED  BY <2>4, <3>2, <3>3
  <2>7. Len(pipe'[s]) <= PipeCap /\ Len(pipe'[s]) <= written[s]
    BY <2>2, <2>4 DEF Piped
  <2>8. \A r \in Streams \ {s} : Taken(r)' = Taken(r)
    BY <2>1, <2>3 DEF Taken
  <2> QED  BY <2>1, <2>3, <2>6, <2>7, <2>8 DEF Piped
<1>4. CASE Caller \/ Exit \/ HelperEnds \/ \E s \in Streams : EndOfFile(s) \/ EndThread(s)
  <2>1. UNCHANGED <<output, written, pipe>>
    BY <1>4 DEF Caller, Reject, Start, StartFails, WaitReturns, WaitTimesOut, JoinStdout, JoinStderr,
                Exit, HelperEnds, EndOfFile, EndThread, kubectl
  <2> QED  BY <1>1, <2>1
<1>5. CASE UNCHANGED vars
  BY <1>1, <1>5 DEF vars, kubectl
<1> QED  BY <1>2, <1>3, <1>4, <1>5 DEF Next, Kubectl, Drain

\* A step that leaves the threads and a stream's lines alone keeps its count.
LEMMA CountedStays ==
    ASSUME NEW s, Counted(s), UNCHANGED <<output, Taken(s), chunks[s], total[s], truncated[s]>>,
           drain'[s] = drain[s] \/ drain'[s] \in {"boxing", "ended"}
    PROVE  Counted(s)'
BY DEF Counted

LEMMA CollectedStep == Typed /\ Piped /\ Collected /\ [Next]_vars => Collected'
<1> SUFFICES ASSUME Typed, Piped, Collected, [Next]_vars PROVE Collected'
  OBVIOUS
<1>1. ASSUME NEW s \in Streams, ReadLine(s) \/ DiscardLine(s)
      PROVE  Collected'
  <2>1. /\ pipe[s] # <<>> /\ pipe' = [pipe EXCEPT ![s] = Tail(@)]
        /\ UNCHANGED <<written, output>>
    BY <1>1, ReadLineIs DEF DiscardLine, kubectl
  <2>2. /\ \A r \in Streams \ {s} : pipe'[r] = pipe[r] /\ Taken(r)' = Taken(r)
        /\ Taken(s)' = Taken(s) + 1
    <3>1. pipe'[s] = Tail(pipe[s]) /\ \A r \in Streams \ {s} : pipe'[r] = pipe[r]
      BY <2>1 DEF Typed
    <3>2. pipe[s] \in Seq(Lines(s)) /\ written[s] \in Nat
      BY DEF Typed
    <3>3. Len(pipe'[s]) = Len(pipe[s]) - 1 /\ Len(pipe[s]) \in Nat
      BY <2>1, <3>1, <3>2, TailIs
    <3>4. \A r \in Streams \ {s} : Taken(r)' = Taken(r)
      BY <2>1, <3>1 DEF Taken
    <3>5. written[s] - (Len(pipe[s]) - 1) = (written[s] - Len(pipe[s])) + 1
      BY <3>2, <3>3, TakenOfRead
    <3>6. Taken(s)' = Taken(s) + 1
      BY <2>1, <3>3, <3>5 DEF Taken
    <3> QED  BY <3>1, <3>4, <3>6
  <2>3. ASSUME NEW r \in Streams \ {s}
        PROVE  Counted(r)'
    <3>1. UNCHANGED <<chunks[r], total[r], truncated[r], drain[r]>>
      <4>1. CASE DiscardLine(s)
        BY <4>1 DEF DiscardLine, threads
      <4>2. CASE Skips(s)
        BY <4>2 DEF Skips, threads
      <4>3. CASE Keeps(s)
        BY <4>3 DEF Keeps, Typed
      <4>4. CASE Cuts(s)
        BY <4>4 DEF Cuts, Typed
      <4> QED  BY <1>1, <4>1, <4>2, <4>3, <4>4, ReadLineIs
    <3> QED  BY <2>1, <2>2, <3>1, CountedStays DEF Collected
  <2> DEFINE line == Head(pipe[s])
             n == Taken(s) + 1
             before == Bytes(s, output[s])[Taken(s)]
             after == Bytes(s, output[s])[n]
             best == FirstBytes(s, output[s])[Taken(s)]
             firsts == FirstBytes(s, output[s])[n]
             left == Cap[s] - before
             chunk == [line |-> line, bytes |-> IF line.bytes <= left THEN line.bytes ELSE left]
  <2>4. /\ line \in Lines(s) /\ line.bytes \in Nat /\ line.bytes > 0
        /\ before \in Nat /\ Cap[s] \in Nat
        /\ after = before + IF Counts(s, line) THEN line.bytes ELSE 0
        /\ firsts = IF Counts(s, line) /\ before < Cap[s] THEN Append(best, chunk) ELSE best
    <3>1. n - 1 = Taken(s) /\ line \in Lines(s)
      BY <2>1, NextLine
    <3>2. after = Bytes(s, output[s])[n - 1] + IF Counts(s, line) THEN line.bytes ELSE 0
      BY <2>1, NextLine
    <3>3. firsts = LET b == Bytes(s, output[s])[n - 1]
                       l == Cap[s] - b
                   IN  IF Counts(s, line) /\ b < Cap[s]
                       THEN Append(FirstBytes(s, output[s])[n - 1],
                                   [line |-> line, bytes |-> IF line.bytes <= l THEN line.bytes ELSE l])
                       ELSE FirstBytes(s, output[s])[n - 1]
      BY <2>1, NextLine
    <3>4. before \in Nat /\ Cap[s] \in Nat /\ line.bytes \in Nat /\ line.bytes > 0
      BY <3>1, TakenIs, OutputTypes
    <3> HIDE DEF n, line
    <3> QED  BY <3>1, <3>2, <3>3, <3>4
  <2>5. /\ chunks[s] = best /\ total[s] <= Cap[s] /\ total[s] \in Nat
        /\ truncated[s] => before > Cap[s] /\ drain[s] # "reading"
        /\ ~truncated[s] => total[s] = before /\ drain[s] # "discarding"
    BY DEF Collected, Counted, Typed
  <2>6. Counted(s)' <=>
            /\ chunks'[s] = firsts /\ total'[s] <= Cap[s]
            /\ truncated'[s] => after > Cap[s] /\ drain'[s] # "reading"
            /\ ~truncated'[s] => total'[s] = after /\ drain'[s] # "discarding"
    BY <2>1, <2>2 DEF Counted
  <2>7. Kept(s, line) <=> Counts(s, line)
    BY DEF Kept, Counts
  <2>8. Fits(s, line) <=> total[s] + line.bytes <= Cap[s]
    BY DEF Fits
  <2>9. CASE DiscardLine(s)
    <3>1. drain[s] = "discarding" /\ UNCHANGED <<chunks[s], total[s], truncated[s], drain[s]>>
      BY <2>9 DEF DiscardLine, threads
    <3> HIDE DEF line, before, after, best, firsts, chunk
    <3>2. after > Cap[s] /\ firsts = best
      BY <2>4, <2>5, <3>1
    <3>3. Counted(s)'
      BY <2>5, <2>6, <3>1, <3>2
    <3> QED  BY <2>3, <3>3 DEF Collected
  <2>10. CASE ReadLine(s)
    <3>1. drain[s] = "reading" /\ ~truncated[s] /\ total[s] = before
      BY <2>5, <2>10, ReadLineIs
    <3>2. Counted(s)'
      <4>1. CASE Skips(s)
        <5>1. /\ ~Counts(s, line)
              /\ chunks'[s] = chunks[s] /\ total'[s] = total[s]
              /\ truncated'[s] = truncated[s] /\ drain'[s] = drain[s]
          BY <2>7, <4>1 DEF Skips, threads
        <5> HIDE DEF line, before, after, best, firsts, chunk
        <5>2. after = before /\ firsts = best
          BY <2>4, <5>1
        <5> QED  BY <2>5, <2>6, <3>1, <5>1, <5>2
      <4>2. CASE Keeps(s)
        <5>1. /\ Counts(s, line) /\ total[s] + line.bytes <= Cap[s]
              /\ chunks'[s] = Append(chunks[s], [line |-> line, bytes |-> line.bytes])
              /\ total'[s] = total[s] + line.bytes
              /\ UNCHANGED <<truncated[s], drain[s]>>
          BY <2>7, <2>8, <4>2 DEF Keeps, Typed
        <5>2. line.bytes <= left /\ before < Cap[s] /\ chunk = [line |-> line, bytes |-> line.bytes]
          <6> HIDE DEF line, before
          <6> QED  BY <2>4, <3>1, <5>1
        <5> HIDE DEF line, before, after, best, firsts, chunk
        <5> QED  BY <2>4, <2>5, <2>6, <3>1, <5>1, <5>2
      <4>3. CASE Cuts(s)
        <5>1. /\ Counts(s, line) /\ ~(total[s] + line.bytes <= Cap[s])
              /\ chunks'[s] = IF left > 0 THEN Append(chunks[s], [line |-> line, bytes |-> left]) ELSE chunks[s]
              /\ total'[s] = Cap[s] /\ truncated'[s] /\ drain'[s] = "discarding"
          BY <2>7, <2>8, <3>1, <4>3 DEF Cuts, Typed
        <5>2. ~(line.bytes <= left) /\ chunk = [line |-> line, bytes |-> left] /\ (left > 0 <=> before < Cap[s])
          <6> HIDE DEF line, before
          <6> QED  BY <2>4, <3>1, <5>1
        <5> HIDE DEF line, before, after, best, firsts, chunk
        <5>3. after > Cap[s] /\ firsts = chunks'[s]
          BY <2>4, <2>5, <3>1, <5>1, <5>2
        <5>4. total'[s] <= Cap[s]
          BY <2>4, <5>1
        <5> QED  BY <2>6, <5>1, <5>3, <5>4
      <4> QED  BY <2>10, <4>1, <4>2, <4>3, ReadLineIs
    <3> QED  BY <2>3, <3>2 DEF Collected
  <2> QED  BY <1>1, <2>9, <2>10
<1>2. ASSUME NEW s \in Streams, Write(s)
      PROVE  Collected'
  <2>1. /\ pipe'[s] = Append(pipe[s], output[s][written[s] + 1]) /\ written'[s] = written[s] + 1
        /\ \A r \in Streams \ {s} : pipe'[r] = pipe[r] /\ written'[r] = written[r]
        /\ pipe[s] \in Seq(Lines(s)) /\ written[s] \in Nat
        /\ UNCHANGED <<output, threads>>
    BY <1>2 DEF Write, Typed
  <2>2. Len(pipe'[s]) = Len(pipe[s]) + 1 /\ Len(pipe[s]) \in Nat
    <3>1. written[s] + 1 \in 1..Len(output[s]) /\ output[s] \in Seq(Lines(s))
      BY <1>2, OutputTypes DEF Write, Typed
    <3>2. output[s][written[s] + 1] \in Lines(s)
      BY <3>1
    <3> QED  BY <2>1, <3>2
  <2>3. \A r \in Streams : Taken(r)' = Taken(r)
    <3>1. Taken(s)' = Taken(s)
      <4>1. (written[s] + 1) - (Len(pipe[s]) + 1) = written[s] - Len(pipe[s])
        BY <2>1, <2>2, TakenOfWrite
      <4> QED  BY <2>1, <2>2, <4>1 DEF Taken
    <3>2. \A r \in Streams \ {s} : Taken(r)' = Taken(r)
      BY <2>1 DEF Taken
    <3> QED  BY <3>1, <3>2
  <2> QED  BY <2>1, <2>3, CountedStays DEF Collected, threads
<1>3. CASE UNCHANGED <<output, written, pipe, threads>>
  <2>1. \A r \in Streams : Taken(r)' = Taken(r)
    BY <1>3 DEF Taken
  <2> QED  BY <1>3, <2>1, CountedStays DEF Collected, threads
<1>4. ASSUME NEW s \in Streams, EndOfFile(s) \/ EndThread(s)
      PROVE  Collected'
  <2>1. UNCHANGED <<output, written, pipe, chunks, total, truncated>>
    BY <1>4 DEF EndOfFile, EndThread, kubectl
  <2>2. \A r \in Streams : drain'[r] = drain[r] \/ drain'[r] \in {"boxing", "ended"}
    BY <1>4 DEF EndOfFile, EndThread, Typed
  <2>3. \A r \in Streams : Taken(r)' = Taken(r)
    BY <2>1 DEF Taken
  <2> QED  BY <2>1, <2>2, <2>3, CountedStays DEF Collected
<1>5. CASE Caller \/ Exit \/ HelperEnds
  <2>1. UNCHANGED <<output, written, pipe, threads>>
    BY <1>5 DEF Caller, Reject, Start, StartFails, WaitReturns, WaitTimesOut, JoinStdout, JoinStderr,
                Exit, HelperEnds, kubectl
  <2> QED  BY <1>3, <2>1
<1>6. CASE UNCHANGED vars
  BY <1>3, <1>6 DEF vars, kubectl
<1> QED  BY <1>1, <1>2, <1>4, <1>5, <1>6 DEF Next, Kubectl, Drain

LEMMA EndedStep == Typed /\ Piped /\ Collected /\ Ended /\ [Next]_vars => Ended'
<1> SUFFICES ASSUME Typed, Piped, Collected, Ended, [Next]_vars PROVE Ended'
  OBVIOUS
<1> USE DEF Ended, PipesAreDrained
<1>1. CASE Reject \/ StartFails \/ WaitReturns \/ JoinStdout \/ JoinStderr \/ HelperEnds
  BY <1>1 DEF Reject, StartFails, WaitReturns, JoinStdout, JoinStderr, HelperEnds,
              caller, kubectl, threads, Typed
<1>2. CASE Start
  BY <1>2 DEF Start, threads, Typed
<1>3. CASE WaitTimesOut
  BY <1>3 DEF WaitTimesOut, threads, Typed
<1>4. ASSUME NEW s \in Streams, Write(s)
      PROVE  Ended'
  BY <1>4 DEF Write, caller, threads
<1>5. CASE Exit
  BY <1>5 DEF Exit, caller, threads
<1>6. ASSUME NEW s \in Streams, ReadLine(s) \/ DiscardLine(s)
      PROVE  Ended'
  <2>1. /\ pipe' = [pipe EXCEPT ![s] = Tail(@)] /\ UNCHANGED <<caller, kubectl>>
        /\ drain[s] \in {"reading", "discarding"} /\ drain'[s] \in {"reading", "discarding"}
        /\ \A r \in Streams \ {s} : drain'[r] = drain[r]
    BY <1>6, ReadLineIs DEF DiscardLine, Skips, Keeps, Cuts, threads, Typed
  <2>2. \A r \in Streams \ {s} : pipe'[r] = pipe[r]
    BY <2>1 DEF Typed
  <2> QED  BY <2>1, <2>2 DEF caller, kubectl
<1>7. ASSUME NEW s \in Streams, EndOfFile(s) \/ EndThread(s)
      PROVE  Ended'
  BY <1>7 DEF EndOfFile, EndThread, caller, kubectl, Typed
<1>8. CASE UNCHANGED vars
  BY <1>8 DEF vars, caller, kubectl, threads
<1> QED  BY <1>1, <1>2, <1>3, <1>4, <1>5, <1>6, <1>7, <1>8 DEF Next, Caller, Kubectl, Drain

\* Once kubectl has ended and a thread is done, nothing touches what it kept.
LEMMA AnsweredStays ==
    ASSUME Answered, UNCHANGED <<pc, killed, result, child>>,
           \A s \in Streams : /\ drain[s] = "ended" => drain'[s] = "ended"
                              /\ drain[s] \in {"boxing", "ended"} =>
                                    /\ drain'[s] \in {"boxing", "ended"}
                                    /\ UNCHANGED <<chunks[s], truncated[s]>>
    PROVE  Answered'
<1>1. CASE result.status # "run"
  BY <1>1 DEF Answered
<1>2. CASE result.status = "run"
  <2>1. \A s \in Streams :
          /\ result.data[s] = <<>> \/ (drain'[s] \in {"boxing", "ended"} /\ result.data[s] = chunks'[s])
          /\ s \in result.joined => drain'[s] = "ended" /\ result.data[s] = chunks'[s]
    BY <1>2 DEF Answered
  <2>2. result.joined = Streams =>
            (result.truncated <=> killed \/ \E s \in Streams : truncated'[s])
    BY <1>2 DEF Answered
  <2> QED  BY <1>2, <2>1, <2>2 DEF Answered
<1> QED  BY <1>1, <1>2

LEMMA AnsweredStep == IInv /\ [Next]_vars => Answered'
<1> SUFFICES ASSUME IInv, [Next]_vars PROVE Answered'
  OBVIOUS
<1> USE DEF IInv
<1>1. CASE UNCHANGED <<pc, killed, result, child, threads>>
  BY <1>1, AnsweredStays DEF threads
<1>2. CASE Start \/ StartFails \/ WaitReturns \/ WaitTimesOut \/ JoinStdout
  <2>1. pc # "returned" /\ result' = result
    BY <1>2 DEF Start, StartFails, WaitReturns, WaitTimesOut, JoinStdout
  <2>2. result'.status # "run"
    BY <2>1 DEF Answered
  <2> QED  BY <2>1, <2>2 DEF Answered
<1>3. CASE Reject
  BY <1>3 DEF Reject, Rejected, Answered
<1>4. CASE JoinStderr
  <2>1. /\ result' = [status |-> "run", data |-> [s \in Streams |-> Box(s).data],
                      truncated |-> Truncated,
                      joined |-> {s \in Streams : drain[s] = "ended"}]
        /\ pc' = "returned" /\ child = "ended" /\ child' = "ended" /\ UNCHANGED <<killed, threads>>
    BY <1>4 DEF JoinStderr, kubectl, Ended
  <2>2. /\ result'.status = "run" /\ result'.truncated = Truncated
        /\ result'.joined = {s \in Streams : drain[s] = "ended"}
        /\ \A s \in Streams : result'.data[s] = IF drain[s] \in {"boxing", "ended"} THEN chunks[s] ELSE <<>>
    BY <2>1 DEF Box
  <2>3. \A s \in Streams :
          /\ result'.data[s] = <<>> \/ (drain[s] \in {"boxing", "ended"} /\ result'.data[s] = chunks[s])
          /\ s \in result'.joined => drain[s] = "ended" /\ result'.data[s] = chunks[s]
    BY <2>2
  <2>4. result'.joined = Streams => (result'.truncated <=> killed \/ \E s \in Streams : truncated[s])
    BY <2>2 DEF Truncated, Box
  <2> QED  BY <2>1, <2>2, <2>3, <2>4 DEF Answered, threads
<1>5. CASE Exit
  BY <1>5, AnsweredStays DEF Exit, caller, threads, Answered
<1>6. ASSUME NEW s \in Streams, Drain(s)
      PROVE  Answered'
  <2>1. UNCHANGED <<pc, killed, result, child>>
    BY <1>6 DEF Drain, ReadLine, DiscardLine, EndOfFile, EndThread, caller, kubectl
  <2>2. ASSUME NEW r \in Streams
        PROVE  /\ drain[r] = "ended" => drain'[r] = "ended"
               /\ drain[r] \in {"boxing", "ended"} =>
                     /\ drain'[r] \in {"boxing", "ended"}
                     /\ UNCHANGED <<chunks[r], truncated[r]>>
    <3>1. CASE EndOfFile(s) \/ EndThread(s)
      BY <3>1 DEF EndOfFile, EndThread, Typed
    <3>2. CASE DiscardLine(s)
      BY <3>2 DEF DiscardLine, threads
    <3>3. CASE ReadLine(s)
      BY <3>3, ReadLineIs DEF Skips, Keeps, Cuts, threads, Typed
    <3> QED  BY <1>6, <3>1, <3>2, <3>3 DEF Drain
  <2> QED  BY <2>1, <2>2, AnsweredStays
<1>7. CASE HelperEnds \/ UNCHANGED vars
  BY <1>1, <1>7 DEF HelperEnds, vars, caller, kubectl
<1>8. ASSUME NEW s \in Streams, Write(s)
      PROVE  Answered'
  BY <1>1, <1>8 DEF Write, caller
<1> QED  BY <1>2, <1>3, <1>4, <1>5, <1>6, <1>7, <1>8 DEF Next, Caller, Kubectl

\* The strengthening is kept by every run of every command.
THEOREM InvariantHolds == Spec => []IInv
<1>1. Init => IInv
  BY InitInvariant
<1>2. IInv /\ [Next]_vars => IInv'
  BY TypedStep, PipedStep, CollectedStep, EndedStep, AnsweredStep DEF IInv
<1> QED  BY <1>1, <1>2, PTL DEF Spec

-----------------------------------------------------------------------------
(* What it says of the program.                                            *)

\* The caller, the threads and kubectl keep the shape of their state: no more
\* in a pipe than it holds, no more counted than the cap.
THEOREM TypeCorrect == Spec => []TypeOK
<1>1. IInv => TypeOK
  <2> SUFFICES ASSUME IInv PROVE TypeOK
    OBVIOUS
  <2>1. ASSUME NEW s \in Streams
        PROVE  /\ written[s] \in 0..Len(output[s]) /\ Len(pipe[s]) <= PipeCap
               /\ drain[s] \in {"reading", "discarding", "boxing", "ended"}
               /\ total[s] \in 0..Cap[s] /\ truncated[s] \in BOOLEAN
    BY OutputTypes DEF IInv, Typed, Piped, Collected, Counted
  <2> QED  BY <2>1 DEF IInv, Typed, Answered, TypeOK
<1> QED  BY <1>1, InvariantHolds, PTL

\* A pipe is left only when nobody writes to it any more and all is read: no
\* kubectl, whatever it has to write, is left blocked on a full pipe.
THEOREM NoPipeIsLeft == Spec => []PipesAreDrained
<1>1. IInv => PipesAreDrained
  BY DEF IInv, Ended
<1> QED  BY <1>1, InvariantHolds, PTL

\* A command that was not killed, and whose thread came to its end, was read
\* to the last line.
LEMMA AllTaken ==
    ASSUME IInv, NEW s \in Streams, child = "ended", ~killed, drain[s] = "ended"
    PROVE  Taken(s) = Len(output[s])
<1>1. pipe[s] = <<>> /\ written[s] = Len(output[s])
  BY DEF IInv, Ended, PipesAreDrained
<1> QED  BY <1>1, OutputTypes DEF Taken, IInv

LEMMA TakenIsFirst ==
    ASSUME IInv, NEW s \in Streams
    PROVE  IsPrefix(chunks[s], AllFirstBytes(s)) /\ IsPrefix(<<>>, AllFirstBytes(s))
<1>1. output[s] \in Seq(Lines(s)) /\ \A line \in Lines(s) : line.bytes \in Nat
  BY OutputTypes DEF IInv
<1>2. Taken(s) \in 0..Len(output[s]) /\ Len(output[s]) \in Taken(s)..Len(output[s])
  BY TakenIs, OutputTypes DEF IInv
<1>3. 0 \in 0..Len(output[s]) /\ Len(output[s]) \in 0..Len(output[s])
  BY <1>2
<1>4. IsPrefix(FirstBytes(s, output[s])[Taken(s)], FirstBytes(s, output[s])[Len(output[s])])
  BY <1>1, <1>2, FirstBytesGrow
<1>5. IsPrefix(FirstBytes(s, output[s])[0], FirstBytes(s, output[s])[Len(output[s])])
  BY <1>1, <1>3, FirstBytesGrow
<1>6. FirstBytes(s, output[s])[0] = <<>>
  BY <1>1, FirstBytesIs
<1> QED  BY <1>4, <1>5, <1>6 DEF IInv, Collected, Counted, AllFirstBytes

\* What is returned is a beginning of the first Cap bytes of the output that
\* matches, and all of them when the command and the thread came to their end.
THEOREM ReturnedIsFirstMatching == Spec => []OutputIsFirstMatching
<1>1. IInv => OutputIsFirstMatching
  <2> SUFFICES ASSUME IInv, result.status = "run", NEW s \in Streams
               PROVE  /\ IsPrefix(result.data[s], AllFirstBytes(s))
                      /\ s \in result.joined /\ ~killed => result.data[s] = AllFirstBytes(s)
    BY DEF OutputIsFirstMatching
  <2>1. IsPrefix(result.data[s], AllFirstBytes(s))
    BY TakenIsFirst DEF IInv, Answered
  <2>2. ASSUME s \in result.joined, ~killed
        PROVE  result.data[s] = AllFirstBytes(s)
    <3>1. child = "ended" /\ drain[s] = "ended" /\ result.data[s] = chunks[s]
      BY <2>2 DEF IInv, Answered
    <3>2. Taken(s) = Len(output[s])
      BY <2>2, <3>1, AllTaken
    <3> QED  BY <3>1, <3>2 DEF IInv, Collected, Counted, AllFirstBytes
  <2> QED  BY <2>1, <2>2
<1> QED  BY <1>1, InvariantHolds, PTL

\* When both threads came to their end, a result says truncated exactly when
\* the command was killed or a stream had more matching output than its cap.
THEOREM TruncatedIsTrue == Spec => []TruncatedMeansCut
<1>1. IInv => TruncatedMeansCut
  <2> SUFFICES ASSUME IInv, result.status = "run", result.joined = Streams
               PROVE  result.truncated <=> killed \/ \E s \in Streams : AllBytes(s) > Cap[s]
    BY DEF TruncatedMeansCut
  <2>1. result.truncated <=> killed \/ \E s \in Streams : truncated[s]
    BY DEF IInv, Answered
  <2>2. ASSUME ~killed, NEW s \in Streams
        PROVE  truncated[s] <=> AllBytes(s) > Cap[s]
    <3>1. child = "ended" /\ drain[s] = "ended"
      BY DEF IInv, Answered
    <3>2. Taken(s) = Len(output[s])
      BY <2>2, <3>1, AllTaken
    <3>3. AllBytes(s) \in Nat /\ Cap[s] \in Nat /\ total[s] \in Nat
      BY <3>2, TakenIs, OutputTypes DEF AllBytes, IInv, Typed
    <3>4. /\ total[s] <= Cap[s]
          /\ truncated[s] => AllBytes(s) > Cap[s]
          /\ ~truncated[s] => total[s] = AllBytes(s)
      BY <3>2 DEF IInv, Collected, Counted, AllBytes
    <3> QED  BY <3>3, <3>4
  <2> QED  BY <2>1, <2>2
<1> QED  BY <1>1, InvariantHolds, PTL

-----------------------------------------------------------------------------
(* The tokens, or flags, that are in a set.                                *)

LEMMA AppendIs ==
    ASSUME NEW W, NEW q \in Seq(W), NEW x \in W
    PROVE  /\ Append(q, x) \in Seq(W) /\ Len(Append(q, x)) = Len(q) + 1
           /\ Append(q, x)[Len(q) + 1] = x
           /\ \A i \in 1..Len(q) : Append(q, x)[i] = q[i]
OBVIOUS

Take(those, x, S) == IF x \in S THEN Append(those, x) ELSE those

Takes(g, s, S, W) ==
    /\ g \in [0..Len(s) -> Seq(W)]
    /\ g[0] = <<>> /\ Those(s, S) = g[Len(s)]
    /\ \A i \in 1..Len(s) : g[i] = Take(g[i - 1], s[i], S)

LEMMA ThoseIs ==
    ASSUME NEW W, NEW s \in Seq(W), NEW S
    PROVE  \E g : Takes(g, s, S, W)
<1> DEFINE n == Len(s)
           V == Seq(W)
           step == [p \in (1..n) \X V |-> Take(p[2], s[p[1]], S)]
<1>1. n \in Nat /\ DOMAIN s = 1..n
  BY LenProperties
<1>2. \A i \in 1..n : s[i] \in W
  OBVIOUS
<1>3. <<>> \in V /\ step \in [(1..n) \X V -> V]
  <2>1. \A i \in 1..n, v \in V : Take(v, s[i], S) \in V
    BY <1>2 DEF Take
  <2>2. <<>> \in V
    OBVIOUS
  <2> HIDE DEF V
  <2>3. \A p \in (1..n) \X V : Take(p[2], s[p[1]], S) \in V
    BY <2>1
  <2> QED  BY <2>2, <2>3
<1>4. PICK f0 \in [SUBSET (1..n) -> V] : FoldsDown(f0, <<>>, step, n)
  <2> HIDE DEF V, step, n
  <2> QED  BY <1>1, <1>3, FoldExists
<1>5. f0 = [d \in SUBSET DOMAIN s |-> IF d = {} THEN <<>> ELSE Take(f0[d \ {Max(d)}], s[Max(d)], S)]
  <2>1. f0 = [d \in SUBSET (1..n) |-> FoldValue(f0, <<>>, step, d)]
    BY <1>4 DEF FoldsDown
  <2>2. ASSUME NEW d \in SUBSET (1..n)
        PROVE  FoldValue(f0, <<>>, step, d) = IF d = {} THEN <<>> ELSE Take(f0[d \ {Max(d)}], s[Max(d)], S)
    <3>1. CASE d # {}
      <4>1. Max(d) \in 1..n /\ f0[d \ {Max(d)}] \in V
        BY <1>1, <1>4, <3>1, MaxIs
      <4> QED  BY <3>1, <4>1 DEF FoldValue
    <3> QED  BY <3>1 DEF FoldValue
  <2> QED  BY <1>1, <2>1, <2>2
<1>6. PICK f : /\ f = [d \in SUBSET DOMAIN s |-> IF d = {} THEN <<>> ELSE Take(f[d \ {Max(d)}], s[Max(d)], S)]
               /\ Those(s, S) = f[DOMAIN s]
  BY <1>5 DEF Those, Take, FoldLeft, MapThenFoldSet
<1>7. Folds(f, <<>>, step, V, n)
  <2>1. f[{}] = <<>>
    BY <1>6
  <2>2. ASSUME NEW d \in SUBSET (1..n), d # {}, f[d \ {Max(d)}] \in V
        PROVE  f[d] = step[<<Max(d), f[d \ {Max(d)}]>>]
    <3>1. Max(d) \in 1..n
      BY <1>1, <2>2, MaxIs
    <3>2. f[d] = Take(f[d \ {Max(d)}], s[Max(d)], S)
      BY <1>1, <1>6, <2>2
    <3> QED  BY <2>2, <3>1, <3>2
  <2> QED  BY <2>1, <2>2 DEF Folds
<1>8. EndsChain(f[1..n], <<>>, step, V, n)
  <2> HIDE DEF V, step, n
  <2> QED  BY <1>1, <1>3, <1>7, FoldIsChain
<1>9. PICK g : Unfolds(g, <<>>, step, V, n) /\ f[1..n] = g[n]
  BY <1>8 DEF EndsChain
<1>10. /\ g \in [0..n -> V] /\ g[0] = <<>> /\ Those(s, S) = g[n]
       /\ \A i \in 1..n : g[i] = step[<<i, g[i - 1]>>]
  BY <1>1, <1>6, <1>9 DEF Unfolds
<1>11. \A i \in 1..n : g[i - 1] \in V /\ g[i] = Take(g[i - 1], s[i], S)
  <2> SUFFICES ASSUME NEW i \in 1..n PROVE g[i - 1] \in V /\ g[i] = Take(g[i - 1], s[i], S)
    OBVIOUS
  <2>1. i - 1 \in 0..n
    BY <1>1
  <2> QED  BY <1>10, <2>1
<1> QED  BY <1>10, <1>11 DEF Takes

\* They are those, and in their order.
Picks(h, u, s) ==
    /\ h \in [1..Len(u) -> 1..Len(s)]
    /\ \A i \in 1..Len(u) : u[i] = s[h[i]]
    /\ \A i, j \in 1..Len(u) : i < j => h[i] < h[j]

LEMMA ThosePick ==
    ASSUME NEW W, NEW s \in Seq(W), NEW S
    PROVE  /\ Those(s, S) \in Seq(W)
           /\ \A i \in 1..Len(Those(s, S)) : Those(s, S)[i] \in S
           /\ \E h : /\ Picks(h, Those(s, S), s)
                     /\ \A j \in 1..Len(s) : s[j] \in S => \E i \in 1..Len(Those(s, S)) : h[i] = j
<1> DEFINE n == Len(s)
<1>1. n \in Nat /\ \A i \in 1..n : s[i] \in W
  OBVIOUS
<1>g. PICK g : Takes(g, s, S, W)
  BY ThoseIs
<1>2. /\ g \in [0..n -> Seq(W)] /\ g[0] = <<>> /\ Those(s, S) = g[n]
      /\ \A i \in 1..n : g[i] = Take(g[i - 1], s[i], S)
  BY <1>g DEF Takes
<1> DEFINE In(k) == \A i \in 1..Len(g[k]) : g[k][i] \in S
           All(k, h) == \A j \in 1..k : s[j] \in S => \E i \in 1..Len(g[k]) : h[i] = j
           Up(k, h) == \A i \in 1..Len(g[k]) : h[i] <= k
           T == {k \in Nat : k <= n => In(k) /\ \E h : Picks(h, g[k], s) /\ All(k, h) /\ Up(k, h)}
<1>3. 0 \in T
  <2> DEFINE h == [i \in 1..0 |-> 1]
  <2>1. Len(g[0]) = 0
    BY <1>2
  <2>2. Picks(h, g[0], s)
    BY <2>1 DEF Picks
  <2>3. All(0, h) /\ Up(0, h) /\ In(0)
    BY <2>1
  <2> HIDE DEF h, In, All, Up
  <2>4. \E x : Picks(x, g[0], s) /\ All(0, x) /\ Up(0, x)
    BY <2>2, <2>3
  <2> QED  BY <2>3, <2>4
<1>4. ASSUME NEW k \in Nat, k \in T, k + 1 <= n
      PROVE  In(k + 1) /\ \E h : Picks(h, g[k + 1], s) /\ All(k + 1, h) /\ Up(k + 1, h)
  <2>1. PICK h : Picks(h, g[k], s) /\ All(k, h) /\ Up(k, h)
    BY <1>1, <1>4
  <2>2. k + 1 \in 1..n /\ g[k] \in Seq(W) /\ g[k + 1] = Take(g[k], s[k + 1], S) /\ In(k)
    <3>1. k + 1 \in 1..n /\ k \in 0..n /\ (k + 1) - 1 = k /\ k <= n
      BY <1>1, <1>4
    <3>2. In(k)
      BY <1>4, <3>1
    <3>3. g[k] \in Seq(W)
      BY <1>2, <3>1
    <3>4. g[k + 1] = Take(g[k], s[k + 1], S)
      BY <1>2, <3>1
    <3> QED  BY <3>1, <3>2, <3>3, <3>4
  <2> DEFINE m == Len(g[k])
  <2>3. m \in Nat
    BY <2>2
  <2>4. CASE s[k + 1] \notin S
    <3>1. g[k + 1] = g[k]
      BY <2>2, <2>4 DEF Take
    <3>2. All(k + 1, h)
      BY <2>1, <2>4, <3>1
    <3>3. Up(k + 1, h)
      <4> SUFFICES ASSUME NEW i \in 1..Len(g[k + 1]) PROVE h[i] <= k + 1
        OBVIOUS
      <4>1. h[i] <= k /\ i \in 1..Len(g[k]) /\ h[i] \in 1..n
        BY <2>1, <3>1 DEF Picks
      <4> QED  BY <1>1, <4>1
    <3>4. Picks(h, g[k + 1], s) /\ In(k + 1)
      BY <2>1, <2>2, <3>1
    <3> QED  BY <3>2, <3>3, <3>4
  <2>5. CASE s[k + 1] \in S
    <3>1. /\ g[k + 1] = Append(g[k], s[k + 1]) /\ Len(g[k + 1]) = m + 1
          /\ g[k + 1][m + 1] = s[k + 1]
          /\ \A i \in 1..m : g[k + 1][i] = g[k][i]
      BY <1>1, <2>2, <2>5 DEF Take
    <3> HIDE DEF m
    <3> DEFINE e == [i \in 1..(m + 1) |-> IF i = m + 1 THEN k + 1 ELSE h[i]]
    <3>2. /\ h \in [1..m -> 1..n] /\ \A i \in 1..m : g[k][i] = s[h[i]] /\ h[i] <= k
          /\ \A i, j \in 1..m : i < j => h[i] < h[j]
      BY <2>1 DEF Picks, m
    <3>3. /\ e \in [1..(m + 1) -> 1..n] /\ e[m + 1] = k + 1
          /\ \A i \in 1..m : e[i] = h[i] /\ i # m + 1
          /\ \A i \in 1..(m + 1) : i \in 1..m \/ i = m + 1
      BY <2>2, <2>3, <3>2
    <3> HIDE DEF e
    <3>4. Picks(e, g[k + 1], s)
      <4>1. \A i \in 1..(m + 1) : g[k + 1][i] = s[e[i]]
        BY <3>1, <3>2, <3>3
      <4>2. ASSUME NEW i \in 1..(m + 1), NEW j \in 1..(m + 1), i < j PROVE e[i] < e[j]
        <5>1. i \in 1..m
          BY <2>3, <4>2
        <5>2. e[i] = h[i] /\ h[i] \in 1..n /\ h[i] <= k
          BY <3>2, <3>3, <5>1
        <5>3. CASE j \in 1..m
          BY <3>2, <3>3, <4>2, <5>1, <5>2, <5>3
        <5>4. CASE j = m + 1
          BY <3>2, <3>3, <5>2, <5>4
        <5> QED  BY <2>3, <5>3, <5>4
      <4> QED  BY <3>1, <3>3, <4>1, <4>2 DEF Picks
    <3>5. Up(k + 1, e)
      <4> SUFFICES ASSUME NEW i \in 1..(m + 1) PROVE e[i] <= k + 1
        BY <3>1
      <4>1. CASE i \in 1..m
        <5>1. e[i] = h[i] /\ h[i] \in 1..n /\ h[i] <= k
          BY <3>2, <3>3, <4>1
        <5> QED  BY <5>1
      <4> QED  BY <3>3, <4>1
    <3>6. All(k + 1, e)
      <4> SUFFICES ASSUME NEW j \in 1..(k + 1), s[j] \in S PROVE \E i \in 1..(m + 1) : e[i] = j
        BY <3>1
      <4>1. CASE j = k + 1
        BY <2>3, <3>3, <4>1
      <4>2. CASE j \in 1..k
        <5>1. PICK i \in 1..m : h[i] = j
          BY <2>1, <4>2 DEF m
        <5> QED  BY <2>3, <3>3, <5>1
      <4> QED  BY <4>1, <4>2
    <3>7. In(k + 1)
      BY <2>2, <2>5, <3>1, <3>3 DEF m
    <3> QED  BY <3>4, <3>5, <3>6, <3>7
  <2> QED  BY <2>4, <2>5
<1>5. n \in T
  <2> HIDE DEF T, In, All, Up
  <2>1. \A k \in Nat : k \in T => k + 1 \in T
    BY <1>4 DEF T
  <2> QED  BY <1>1, <1>3, <2>1, NatInductionOverSet
<1>6. PICK h : Picks(h, g[n], s) /\ All(n, h)
  BY <1>1, <1>5
<1> QED  BY <1>1, <1>2, <1>5, <1>6

\* Of two runs of tokens, the one that is in the set.
LEMMA ThoseOfTwo ==
    ASSUME NEW W, NEW p \in Seq(W), NEW r \in Seq(W), NEW S
    PROVE  /\ (\A i \in 1..Len(p) : p[i] \in S) /\ (\A i \in 1..Len(r) : r[i] \notin S)
              => Those(p \o r, S) = p
           /\ (\A i \in 1..Len(p) : p[i] \notin S) /\ (\A i \in 1..Len(r) : r[i] \in S)
              => Those(p \o r, S) = r
<1> DEFINE s == p \o r
           n == Len(s)
<1>1. /\ s \in Seq(W) /\ Len(p) \in Nat /\ Len(r) \in Nat /\ n = Len(p) + Len(r) /\ n \in Nat
      /\ \A i \in 1..n : s[i] = IF i <= Len(p) THEN p[i] ELSE r[i - Len(p)]
  OBVIOUS
<1> HIDE DEF s
<1>g. PICK g : Takes(g, s, S, W)
  BY <1>1, ThoseIs
<1>2. /\ g \in [0..n -> Seq(W)] /\ g[0] = <<>> /\ Those(s, S) = g[n]
      /\ \A i \in 1..n : g[i] = Take(g[i - 1], s[i], S)
  BY <1>g DEF Takes
<1> HIDE DEF n
<1>3. ASSUME NEW k \in Nat, k + 1 <= n
      PROVE  /\ k \in 0..n /\ k + 1 \in 1..n /\ g[k] \in Seq(W) /\ s[k + 1] \in W
             /\ g[k + 1] = Take(g[k], s[k + 1], S)
             /\ k + 1 <= Len(p) => s[k + 1] = p[k + 1] /\ k + 1 \in 1..Len(p)
             /\ k + 1 > Len(p) => /\ s[k + 1] = r[k + 1 - Len(p)] /\ k + 1 - Len(p) \in 1..Len(r)
  <2>1. k \in 0..n /\ k + 1 \in 1..n /\ (k + 1) - 1 = k
    BY <1>1, <1>3
  <2>2. g[k] \in Seq(W) /\ g[k + 1] = Take(g[k], s[k + 1], S)
    BY <1>2, <2>1
  <2>3. s[k + 1] = IF k + 1 <= Len(p) THEN p[k + 1] ELSE r[(k + 1) - Len(p)]
    BY <1>1, <2>1
  <2>4. k + 1 > Len(p) => (k + 1) - Len(p) \in 1..Len(r)
    BY <1>1, <2>1
  <2>5. k + 1 <= Len(p) => k + 1 \in 1..Len(p)
    BY <1>1, <2>1
  <2>6. s[k + 1] \in W
    BY <2>3, <2>4, <2>5
  <2> QED  BY <1>1, <2>1, <2>2, <2>3, <2>4, <2>5, <2>6
<1>4. n \in 0..n /\ g[n] \in Seq(W)
  BY <1>1, <1>2
<1>5. ASSUME \A i \in 1..Len(p) : p[i] \in S, \A i \in 1..Len(r) : r[i] \notin S
      PROVE  Those(s, S) = p
  <2> DEFINE Is(k) == /\ Len(g[k]) = IF k <= Len(p) THEN k ELSE Len(p)
                      /\ \A i \in 1..Len(g[k]) : g[k][i] = p[i]
             T == {k \in Nat : k <= n => Is(k)}
  <2>1. 0 \in T
    BY <1>1, <1>2
  <2>2. ASSUME NEW k \in Nat, k + 1 <= n, Is(k) PROVE Is(k + 1)
    <3> DEFINE q == g[k]
               x == s[k + 1]
    <3>1. q \in Seq(W) /\ x \in W /\ g[k + 1] = Take(q, x, S) /\ Len(q) \in Nat
      BY <1>3, <2>2
    <3>2. /\ Len(q) = IF k <= Len(p) THEN k ELSE Len(p)
          /\ \A i \in 1..Len(q) : q[i] = p[i]
      BY <2>2
    <3>3. CASE k + 1 <= Len(p)
      <4>1. x = p[k + 1] /\ x \in S /\ Len(q) = k
        BY <1>1, <1>3, <1>5, <2>2, <3>2, <3>3
      <4> HIDE DEF q, x
      <4>2. g[k + 1] = Append(q, x)
        BY <3>1, <4>1 DEF Take
      <4>3. Len(g[k + 1]) = k + 1 /\ g[k + 1][k + 1] = x /\ \A i \in 1..k : g[k + 1][i] = q[i]
        <5>1. /\ Len(Append(q, x)) = Len(q) + 1 /\ Append(q, x)[Len(q) + 1] = x
              /\ \A i \in 1..Len(q) : Append(q, x)[i] = q[i]
          BY <3>1, AppendIs
        <5> QED  BY <4>1, <4>2, <5>1
      <4> QED  BY <3>2, <3>3, <4>1, <4>3
    <3>4. CASE ~(k + 1 <= Len(p))
      <4>1. x \notin S
        <5>1. k + 1 > Len(p)
          BY <1>1, <3>4
        <5>2. x = r[k + 1 - Len(p)] /\ k + 1 - Len(p) \in 1..Len(r)
          BY <1>3, <2>2, <5>1
        <5> QED  BY <1>5, <5>2
      <4> HIDE DEF q, x
      <4>2. g[k + 1] = q
        BY <3>1, <4>1 DEF Take
      <4> QED  BY <1>1, <3>2, <3>4, <4>2
    <3> QED  BY <3>3, <3>4
  <2>3. n \in T
    <3> HIDE DEF Is
    <3>1. \A k \in Nat : k \in T => k + 1 \in T
      BY <1>1, <2>2
    <3> HIDE DEF T
    <3> QED  BY <1>1, <2>1, <3>1, NatInductionOverSet
  <2>4. Len(g[n]) = Len(p) /\ \A i \in 1..Len(p) : g[n][i] = p[i]
    BY <1>1, <2>3
  <2> QED  BY <1>2, <1>4, <2>4
<1>6. ASSUME \A i \in 1..Len(p) : p[i] \notin S, \A i \in 1..Len(r) : r[i] \in S
      PROVE  Those(s, S) = r
  <2> DEFINE Is(k) == /\ Len(g[k]) = IF k <= Len(p) THEN 0 ELSE k - Len(p)
                      /\ \A i \in 1..Len(g[k]) : g[k][i] = r[i]
             T == {k \in Nat : k <= n => Is(k)}
  <2>1. 0 \in T
    BY <1>1, <1>2
  <2>2. ASSUME NEW k \in Nat, k + 1 <= n, Is(k) PROVE Is(k + 1)
    <3> DEFINE q == g[k]
               x == s[k + 1]
               j == k + 1 - Len(p)
    <3>1. q \in Seq(W) /\ x \in W /\ g[k + 1] = Take(q, x, S) /\ Len(q) \in Nat
      BY <1>3, <2>2
    <3>2. /\ Len(q) = IF k <= Len(p) THEN 0 ELSE k - Len(p)
          /\ \A i \in 1..Len(q) : q[i] = r[i]
      BY <2>2
    <3>3. CASE k + 1 <= Len(p)
      <4>1. x \notin S
        BY <1>1, <1>3, <1>6, <2>2, <3>3
      <4> HIDE DEF q, x
      <4>2. g[k + 1] = q
        BY <3>1, <4>1 DEF Take
      <4> QED  BY <1>1, <3>2, <3>3, <4>2
    <3>4. CASE ~(k + 1 <= Len(p))
      <4>1. x = r[j] /\ x \in S /\ j \in Nat /\ Len(q) + 1 = j
        BY <1>1, <1>3, <1>6, <2>2, <3>2, <3>4
      <4>2. ~(k + 1 <= Len(p)) => j = (k + 1) - Len(p)
        OBVIOUS
      <4> HIDE DEF q, x, j
      <4>3. g[k + 1] = Append(q, x)
        BY <3>1, <4>1 DEF Take
      <4>4. Len(g[k + 1]) = j /\ g[k + 1][j] = x /\ \A i \in 1..Len(q) : g[k + 1][i] = q[i]
        <5>1. /\ Len(Append(q, x)) = Len(q) + 1 /\ Append(q, x)[Len(q) + 1] = x
              /\ \A i \in 1..Len(q) : Append(q, x)[i] = q[i]
          BY <3>1, AppendIs
        <5> QED  BY <4>1, <4>3, <5>1
      <4>5. ASSUME NEW i \in 1..j PROVE g[k + 1][i] = r[i]
        <5>1. i \in 1..Len(q) \/ i = j
          BY <3>1, <4>1
        <5>2. CASE i \in 1..Len(q)
          BY <3>2, <4>4, <5>2
        <5>3. CASE i = j
          BY <4>1, <4>4, <5>3
        <5> QED  BY <5>1, <5>2, <5>3
      <4>6. Len(g[k + 1]) = (k + 1) - Len(p)
        BY <3>4, <4>2, <4>4
      <4>7. \A i \in 1..Len(g[k + 1]) : g[k + 1][i] = r[i]
        BY <4>4, <4>5
      <4> QED  BY <3>4, <4>6, <4>7
    <3> QED  BY <3>3, <3>4
  <2>3. n \in T
    <3> HIDE DEF Is
    <3>1. \A k \in Nat : k \in T => k + 1 \in T
      BY <1>1, <2>2
    <3> HIDE DEF T
    <3> QED  BY <1>1, <2>1, <3>1, NatInductionOverSet
  <2>4. Len(g[n]) = Len(r) /\ \A i \in 1..Len(r) : g[n][i] = r[i]
    BY <1>1, <2>3
  <2> QED  BY <1>2, <1>4, <2>4
<1> QED  BY <1>5, <1>6 DEF s

-----------------------------------------------------------------------------
(* How a flag is written, and how that reads.                              *)

\* What tokens, positionals and a verb's flags are.
Unquoted == {t \in Token : ~IsShell(t)}
Arguments == {t \in Unquoted : ~IsLong(t) /\ ~IsCluster(t)}
Plain(t) == t = <<>> \/ t[Len(t)] # ShellSuffix
Values(name) ==
    {t \in Token : Plain(t) /\ (Flags[name].value \/ t \in Range(Booleans))}
    \union (IF Flags[name].value THEN {} ELSE {NoValue})
FlagsOf(v) == {f \in [name : Verbs[v].flags, value : Token \union {NoValue}] : f.value \in Values(f.name)}
Rendered(fs) == [i \in DOMAIN fs |-> Render(fs[i])]

LEMMA EqualsIs ==
    ASSUME NEW t \in Token
    PROVE  /\ (\A i \in 1..Len(t) : t[i] # "=") => Equals(t) = 0
           /\ \A k \in 1..Len(t) : t[k] = "=" /\ (\A i \in 1..(k - 1) : t[i] # "=") => Equals(t) = k
<1> DEFINE I == {i \in 1..Len(t) : t[i] = "="}
<1>1. Equals(t) = IF I # {} THEN Min(I) ELSE 0
  BY DEF Equals, SelectInSeq
<1>2. ASSUME NEW k \in 1..Len(t), t[k] = "=", \A i \in 1..(k - 1) : t[i] # "="
      PROVE  Equals(t) = k
  <2>1. Len(t) \in Nat /\ I \in SUBSET (1..Len(t)) /\ k \in I
    BY <1>2 DEF Token
  <2>2. Min(I) \in I /\ Min(I) <= k
    BY <2>1, MinIs
  <2>3. Min(I) \in 1..Len(t) /\ t[Min(I)] = "="
    BY <2>2
  <2> HIDE DEF I
  <2>4. ~(Min(I) < k)
    BY <1>2, <2>1, <2>3
  <2> QED  BY <1>1, <2>1, <2>2, <2>3, <2>4
<1>3. ASSUME \A i \in 1..Len(t) : t[i] # "=" PROVE Equals(t) = 0
  BY <1>1, <1>3
<1> QED  BY <1>2, <1>3

\* A token that begins like a long flag's.
LEMMA LongIs ==
    ASSUME NEW t \in Token, Len(t) >= 3, t[1] = "-", t[2] = "-"
    PROVE  /\ IsLong(t)
           /\ Len(SubSeq(t, 3, 3)) = 1 /\ SubSeq(t, 3, 3)[1] = t[3]
           /\ t[Len(t)] # ShellSuffix => ~IsShell(t)
<1>1. t \in Seq(Atoms)
  BY DEF Token
<1>2. Len(SubSeq(t, 3, 3)) = 1 /\ SubSeq(t, 3, 3)[1] = t[3]
  BY <1>1
<1>3. t[Len(t)] # ShellSuffix => ~IsShell(t)
  BY ShellAssumption DEF IsShell
<1> QED  BY <1>1, <1>2, <1>3 DEF IsLong

LEMMA BareIs ==
    ASSUME NEW n \in Atoms, n # "=", n # ShellSuffix
    PROVE  LET t == <<"-", "-", n>>
           IN  t \in Unquoted /\ IsLong(t) /\ GivenName(t) = n /\ Equals(t) = 0
<1> DEFINE t == <<"-", "-", n>>
<1>1. t \in Seq(Atoms) /\ Len(t) = 3 /\ t[1] = "-" /\ t[2] = "-" /\ t[3] = n
  BY AtomsAssumption
<1> HIDE DEF t
<1>2. t \in Token /\ \A i \in 1..Len(t) : t[i] # "="
  BY <1>1 DEF Token
<1>3. Equals(t) = 0
  BY <1>2, EqualsIs
<1>4. /\ IsLong(t) /\ ~IsShell(t)
      /\ Len(SubSeq(t, 3, 3)) = 1 /\ SubSeq(t, 3, 3)[1] = n
  <2>1. Len(t) >= 3 /\ t[Len(t)] # ShellSuffix
    BY <1>1
  <2> QED  BY <1>1, <1>2, <2>1, LongIs
<1>5. GivenName(t) = n
  BY <1>1, <1>3, <1>4 DEF GivenName
<1> QED  BY <1>2, <1>3, <1>4, <1>5 DEF Unquoted, t

LEMMA WithValueIs ==
    ASSUME NEW n \in Atoms, n # "=", n # ShellSuffix, NEW w \in Token, Plain(w)
    PROVE  LET t == <<"-", "-", n>> \o (<<"=">> \o w)
           IN  /\ t \in Unquoted /\ IsLong(t) /\ GivenName(t) = n
               /\ Equals(t) = 4 /\ Inline(t) = w
<1> DEFINE d == <<"-", "-", n>>
           e == <<"=">> \o w
           t == d \o e
<1>1. w \in Seq(Atoms) /\ Len(w) \in Nat
  BY DEF Token
<1>2. d \in Seq(Atoms) /\ Len(d) = 3 /\ d[1] = "-" /\ d[2] = "-" /\ d[3] = n
  BY AtomsAssumption
<1>3. /\ e \in Seq(Atoms) /\ Len(e) = 1 + Len(w) /\ e[1] = "="
      /\ \A i \in 1..Len(w) : e[1 + i] = w[i]
  BY <1>1, AtomsAssumption
<1> HIDE DEF d, e
<1>4. /\ t \in Seq(Atoms) /\ Len(t) = 3 + (1 + Len(w))
      /\ \A i \in 1..3 : t[i] = d[i]
      /\ \A i \in 1..(1 + Len(w)) : t[3 + i] = e[i]
  <2>1. /\ d \o e \in Seq(Atoms) /\ Len(d \o e) = Len(d) + Len(e)
        /\ \A i \in 1..Len(d) : (d \o e)[i] = d[i]
        /\ \A i \in 1..Len(e) : (d \o e)[Len(d) + i] = e[i]
    <3>1. d \in Seq(Atoms) /\ e \in Seq(Atoms)
      BY <1>2, <1>3
    <3> QED  BY <3>1
  <2> QED  BY <1>2, <1>3, <2>1
<1> HIDE DEF t
<1>5. t[1] = "-" /\ t[2] = "-" /\ t[3] = n /\ t[4] = "="
  <2>1. t[3 + 1] = e[1] /\ 3 + 1 = 4
    BY <1>1, <1>4
  <2> QED  BY <1>2, <1>3, <1>4, <2>1
<1>6. ASSUME NEW i \in 1..Len(w) PROVE t[4 + i] = w[i]
  <2>1. 1 + i \in 1..(1 + Len(w)) /\ 3 + (1 + i) = 4 + i
    BY <1>1
  <2> QED  BY <1>3, <1>4, <2>1
<1>7. t \in Token /\ Len(t) = 4 + Len(w)
  BY <1>1, <1>4 DEF Token
<1>8. Equals(t) = 4
  <2>1. 4 \in 1..Len(t) /\ \A i \in 1..(4 - 1) : t[i] # "="
    BY <1>1, <1>5, <1>7
  <2> QED  BY <1>5, <1>7, <2>1, EqualsIs
<1>9. Inline(t) = w
  <2> DEFINE u == SubSeq(t, 5, Len(t))
  <2>1. u \in Seq(Atoms) /\ Len(u) = Len(w) /\ \A i \in 1..Len(w) : u[i] = t[4 + i]
    BY <1>1, <1>4, <1>7
  <2> HIDE DEF u
  <2>2. u = w
    BY <1>1, <1>6, <2>1
  <2> QED  BY <1>8, <2>2 DEF Inline, u
<1>10. t[Len(t)] # ShellSuffix
  <2>1. CASE Len(w) = 0
    BY <1>5, <1>7, <2>1, ShellAssumption
  <2>2. CASE Len(w) # 0
    <3>1. w # <<>> /\ Len(w) \in 1..Len(w) /\ 4 + Len(w) = Len(t)
      BY <1>1, <1>7, <2>2
    <3> QED  BY <1>6, <3>1 DEF Plain
  <2> QED  BY <2>1, <2>2
<1>11. /\ IsLong(t) /\ ~IsShell(t)
       /\ Len(SubSeq(t, 3, 3)) = 1 /\ SubSeq(t, 3, 3)[1] = n
  BY <1>1, <1>5, <1>7, <1>10, LongIs
<1>12. GivenName(t) = n
  BY <1>8, <1>11 DEF GivenName
<1> QED  BY <1>7, <1>8, <1>9, <1>11, <1>12 DEF Unquoted, t, d, e

LEMMA RenderIs ==
    ASSUME NEW v \in DOMAIN Verbs, NEW f \in FlagsOf(v)
    PROVE  /\ Render(f) \in Unquoted /\ IsLong(Render(f)) /\ GivenName(Render(f)) = f.name
           /\ f.value = NoValue => Equals(Render(f)) = 0
           /\ f.value # NoValue => Equals(Render(f)) # 0 /\ Inline(Render(f)) = f.value
<1>1. f.name \in Verbs[v].flags /\ f.value \in Token \union {NoValue} /\ f.value \in Values(f.name)
  BY DEF FlagsOf
<1>2. f.name \in Atoms /\ f.name # "=" /\ f.name # ShellSuffix
  BY <1>1, VerbsAssumption, FlagsAssumption, ShellAssumption
<1>3. CASE f.value = NoValue
  <2>1. Render(f) = <<"-", "-", f.name>>
    BY <1>3 DEF Render
  <2> QED  BY <1>2, <1>3, <2>1, BareIs
<1>4. CASE f.value # NoValue
  <2>1. Render(f) = <<"-", "-", f.name>> \o (<<"=">> \o f.value)
    BY <1>4 DEF Render
  <2>2. f.value \in Token /\ Plain(f.value)
    BY <1>1, <1>4 DEF Values
  <2> QED  BY <1>2, <1>4, <2>1, <2>2, WithValueIs
<1> QED  BY <1>3, <1>4

LEMMA RenderedIs ==
    ASSUME NEW v \in DOMAIN Verbs, NEW fs \in Seq(FlagsOf(v))
    PROVE  /\ Rendered(fs) \in Seq(Unquoted) /\ Len(Rendered(fs)) = Len(fs)
           /\ \A i \in 1..Len(fs) : Rendered(fs)[i] = Render(fs[i]) /\ IsLong(Render(fs[i]))
<1>1. DOMAIN fs = 1..Len(fs) /\ Len(fs) \in Nat /\ \A i \in 1..Len(fs) : fs[i] \in FlagsOf(v)
  OBVIOUS
<1>2. \A i \in 1..Len(fs) : Render(fs[i]) \in Unquoted /\ IsLong(Render(fs[i]))
  BY <1>1, RenderIs
<1> QED  BY <1>1, <1>2 DEF Rendered

-----------------------------------------------------------------------------
(* The flags kubectl is given: of the verb still, and nothing is left to   *)
(* normalise in them.                                                      *)

OnceOnly(fs) ==
    \A i, j \in DOMAIN fs :
        fs[i].name \in {"output", "grep"} /\ fs[i].name = fs[j].name => i = j
Own(fs) == Those(fs, {f \in Range(fs) : ~Flags[f.name].pseudo})

LEMMA OwnIs ==
    ASSUME NEW v \in DOMAIN Verbs, NEW fs \in Seq(FlagsOf(v)), OnceOnly(fs)
    PROVE  /\ Own(fs) \in Seq(FlagsOf(v)) /\ OnceOnly(Own(fs))
           /\ \A i \in 1..Len(Own(fs)) : ~Flags[Own(fs)[i].name].pseudo
           /\ Range(Own(fs)) = {f \in Range(fs) : ~Flags[f.name].pseudo}
<1> DEFINE S == {f \in Range(fs) : ~Flags[f.name].pseudo}
           u == Own(fs)
<1>1. /\ u \in Seq(FlagsOf(v)) /\ \A i \in 1..Len(u) : u[i] \in S
      /\ \E h : Picks(h, u, fs) /\ \A j \in 1..Len(fs) : fs[j] \in S => \E i \in 1..Len(u) : h[i] = j
  <2>1. u = Those(fs, S)
    BY DEF Own
  <2> HIDE DEF S, u
  <2> QED  BY <2>1, ThosePick
<1>2. PICK h : Picks(h, u, fs) /\ \A j \in 1..Len(fs) : fs[j] \in S => \E i \in 1..Len(u) : h[i] = j
  BY <1>1
<1>3. /\ DOMAIN u = 1..Len(u) /\ DOMAIN fs = 1..Len(fs) /\ Len(u) \in Nat /\ Len(fs) \in Nat
      /\ h \in [1..Len(u) -> 1..Len(fs)]
      /\ \A i \in 1..Len(u) : u[i] = fs[h[i]]
      /\ \A i, j \in 1..Len(u) : i < j => h[i] < h[j]
  BY <1>1, <1>2 DEF Picks
<1> HIDE DEF u
<1>4. OnceOnly(u)
  <2> SUFFICES ASSUME NEW i \in 1..Len(u), NEW j \in 1..Len(u),
                      u[i].name \in {"output", "grep"}, u[i].name = u[j].name, i < j
               PROVE  FALSE
    BY <1>3 DEF OnceOnly
  <2>1. h[i] \in 1..Len(fs) /\ h[j] \in 1..Len(fs) /\ h[i] < h[j]
    BY <1>3
  <2>2. h[i] = h[j]
    BY <1>3, <2>1 DEF OnceOnly
  <2> QED  BY <2>1, <2>2
<1>5. Range(u) = S
  <2>1. Range(u) \subseteq S
    BY <1>1, <1>3 DEF Range
  <2>2. ASSUME NEW f \in S PROVE f \in Range(u)
    <3>1. PICK j \in 1..Len(fs) : f = fs[j]
      BY <1>3 DEF Range
    <3>2. PICK i \in 1..Len(u) : h[i] = j
      BY <1>2, <3>1
    <3> QED  BY <1>3, <3>1, <3>2 DEF Range
  <2> QED  BY <2>1, <2>2
<1> QED  BY <1>1, <1>4, <1>5 DEF u

\* Flags of which none is a pseudo flag are all kept.
LEMMA OwnOfOwn ==
    ASSUME NEW v \in DOMAIN Verbs, NEW fs \in Seq(FlagsOf(v)),
           \A i \in 1..Len(fs) : ~Flags[fs[i].name].pseudo
    PROVE  Own(fs) = fs
<1> DEFINE S == {f \in Range(fs) : ~Flags[f.name].pseudo}
           none == <<>>
<1>1. DOMAIN fs = 1..Len(fs) /\ \A i \in 1..Len(fs) : fs[i] \in S
  BY DEF Range
<1>2. none \in Seq(FlagsOf(v)) /\ Len(none) = 0 /\ fs \o none = fs
  OBVIOUS
<1> HIDE DEF S, none
<1>3. \A i \in 1..Len(none) : none[i] \notin S
  BY <1>2
<1>4. Those(fs \o none, S) = fs
  <2>1. fs \in Seq(FlagsOf(v)) /\ none \in Seq(FlagsOf(v))
    BY <1>2
  <2>2. /\ \A i \in 1..Len(fs) : fs[i] \in S
        /\ \A i \in 1..Len(none) : none[i] \notin S
    BY <1>1, <1>3
  <2> QED  BY ONLY <2>1, <2>2, ThoseOfTwo
<1> QED  BY <1>2, <1>4 DEF Own, S

Windows == {"tail", "since", "since-time"}
Limit == "limit-bytes"

LEMMA LogsFlag ==
    ASSUME NEW f \in FlagsOf(<<"logs">>), <<"logs">> \in DOMAIN Verbs,
           f.name \in Windows \union {Limit}
    PROVE  Flags[f.name].value /\ ~Flags[f.name].pseudo
<1>1. f.name \in DOMAIN Flags
  BY VerbsAssumption DEF FlagsOf
<1> QED  BY <1>1, LogsAssumption DEF Windows, Limit

DefaultTail == [name |-> "tail", value |-> <<"200">>]
DefaultLimit == [name |-> Limit, value |-> <<"limit">>]
Logs == <<"logs">>

LEMMA DefaultsTyped ==
    ASSUME Logs \in DOMAIN Verbs
    PROVE  DefaultTail \in FlagsOf(Logs) /\ DefaultLimit \in FlagsOf(Logs)
<1>1. /\ "tail" \in Verbs[Logs].flags /\ "limit-bytes" \in Verbs[Logs].flags
      /\ "tail" \in DOMAIN Flags /\ "limit-bytes" \in DOMAIN Flags
      /\ Flags["tail"].value /\ Flags["limit-bytes"].value
  BY LogsAssumption, VerbsAssumption DEF Logs
<1>2. <<"200">> \in Token /\ <<"limit">> \in Token /\ Plain(<<"200">>) /\ Plain(<<"limit">>)
  BY AtomsAssumption, ShellAssumption DEF Token, Plain
<1>3. <<"200">> \in Values("tail") /\ <<"limit">> \in Values("limit-bytes")
  BY <1>1, <1>2 DEF Values
<1>4. DefaultTail \in [name : Verbs[Logs].flags, value : Token \union {NoValue}]
  BY <1>1, <1>2 DEF DefaultTail
<1>5. DefaultLimit \in [name : Verbs[Logs].flags, value : Token \union {NoValue}]
  BY <1>1, <1>2 DEF DefaultLimit, Limit
<1> QED  BY <1>3, <1>4, <1>5 DEF FlagsOf, DefaultTail, DefaultLimit, Limit

LEMMA ClampedIs ==
    ASSUME Logs \in DOMAIN Verbs, NEW fs \in Seq(FlagsOf(Logs))
    PROVE  /\ Clamped(fs) \in Seq(FlagsOf(Logs)) /\ Len(Clamped(fs)) = Len(fs)
           /\ \A i \in 1..Len(fs) :
                 /\ Clamped(fs)[i] = fs[i] \/ (fs[i].name = Limit /\ Clamped(fs)[i] = DefaultLimit)
                 /\ Clamped(fs)[i].name = fs[i].name
                 /\ Clamped(fs)[i].name = Limit => Clamped(fs)[i].value # <<"large">>
           /\ (\A i \in 1..Len(fs) : fs[i].name = Limit => fs[i].value # <<"large">>) => Clamped(fs) = fs
<1> DEFINE c == Clamped(fs)
<1>1. /\ DOMAIN fs = 1..Len(fs) /\ Len(fs) \in Nat
      /\ \A i \in 1..Len(fs) : fs[i] \in FlagsOf(Logs)
  OBVIOUS
<1>2. ASSUME NEW i \in 1..Len(fs)
      PROVE  c[i] = IF fs[i].name = Limit /\ fs[i].value = <<"large">>
                    THEN [fs[i] EXCEPT !.value = <<"limit">>] ELSE fs[i]
  BY <1>1 DEF Clamped, Limit
<1>3. c = [i \in 1..Len(fs) |-> c[i]]
  BY <1>1 DEF Clamped
<1> HIDE DEF c
<1>4. <<"limit">> # <<"large">>
  OBVIOUS
<1>5. ASSUME NEW i \in 1..Len(fs)
      PROVE  /\ c[i] \in FlagsOf(Logs)
             /\ c[i] = fs[i] \/ (fs[i].name = Limit /\ c[i] = DefaultLimit)
             /\ c[i].name = fs[i].name
             /\ c[i].name = Limit => c[i].value # <<"large">>
  <2>1. CASE fs[i].name = Limit /\ fs[i].value = <<"large">>
    <3>1. c[i] = [fs[i] EXCEPT !.value = <<"limit">>]
      BY <1>2, <2>1
    <3>2. fs[i] \in [name : Verbs[Logs].flags, value : Token \union {NoValue}]
      BY <1>1 DEF FlagsOf
    <3>3. c[i] = DefaultLimit
      BY <2>1, <3>1, <3>2 DEF DefaultLimit
    <3>4. c[i].name = Limit /\ c[i].value = <<"limit">>
      BY <3>3 DEF DefaultLimit
    <3> QED  BY <1>4, <2>1, <3>3, <3>4, DefaultsTyped
  <2>2. CASE ~(fs[i].name = Limit /\ fs[i].value = <<"large">>)
    BY <1>1, <1>2, <2>2
  <2> QED  BY <2>1, <2>2
<1>6. c \in Seq(FlagsOf(Logs)) /\ Len(c) = Len(fs)
  BY <1>1, <1>3, <1>5
<1>7. ASSUME \A i \in 1..Len(fs) : fs[i].name = Limit => fs[i].value # <<"large">>
      PROVE  c = fs
  <2>1. \A i \in 1..Len(fs) : c[i] = fs[i]
    BY <1>2, <1>7
  <2> QED  BY <1>1, <1>6, <2>1
<1> QED  BY <1>5, <1>6, <1>7 DEF c

LEMMA DefaultsIs ==
    ASSUME Logs \in DOMAIN Verbs, NEW fs
    PROVE  /\ Defaults(fs) \in Seq({DefaultTail, DefaultLimit})
           /\ Defaults(fs) \in Seq(FlagsOf(Logs))
           /\ Named(fs, Windows) = {} => DefaultTail \in Range(Defaults(fs))
           /\ Named(fs, {Limit}) = {} => DefaultLimit \in Range(Defaults(fs))
           /\ Named(fs, Windows) # {} /\ Named(fs, {Limit}) # {} => Defaults(fs) = <<>>
<1> DEFINE a == IF Named(fs, Windows) = {} THEN <<DefaultTail>> ELSE <<>>
           b == IF Named(fs, {Limit}) = {} THEN <<DefaultLimit>> ELSE <<>>
           D == {DefaultTail, DefaultLimit}
<1>1. Defaults(fs) = a \o b
  BY DEF Defaults, Windows, Limit, DefaultTail, DefaultLimit
<1>2. a \in Seq(D) /\ b \in Seq(D)
  <2>1. DefaultTail \in D /\ DefaultLimit \in D
    OBVIOUS
  <2> HIDE DEF D
  <2>2. <<DefaultTail>> \in Seq(D) /\ <<DefaultLimit>> \in Seq(D) /\ <<>> \in Seq(D)
    BY <2>1
  <2> QED  BY <2>2
<1>3. /\ Named(fs, Windows) = {} => DefaultTail \in Range(a)
      /\ Named(fs, {Limit}) = {} => DefaultLimit \in Range(b)
  <2>1. \A x : x \in Range(<<x>>)
    <3> TAKE x
    <3>1. DOMAIN <<x>> = 1..1 /\ <<x>>[1] = x
      OBVIOUS
    <3> QED  BY <3>1 DEF Range
  <2> QED  BY <2>1
<1>4. Range(a \o b) = Range(a) \union Range(b) /\ a \o b \in Seq(D)
  <2> HIDE DEF a, b
  <2> QED  BY <1>2, RangeConcat
<1>5. D \subseteq FlagsOf(Logs)
  BY DefaultsTyped
<1>6. Named(fs, Windows) # {} /\ Named(fs, {Limit}) # {} => a \o b = <<>>
  OBVIOUS
<1>7. a \o b \in Seq(FlagsOf(Logs))
  <2> HIDE DEF a, b, D
  <2> QED  BY <1>4, <1>5
<1> QED  BY <1>1, <1>3, <1>4, <1>6, <1>7

\* Of logs: each is one of the command's, clamped if it is a limit, or a
\* default; and there are a window and a limit.
LEMMA LogsGiven ==
    ASSUME Logs \in DOMAIN Verbs, NEW fs \in Seq(FlagsOf(Logs)), OnceOnly(fs)
    PROVE  LET G == GivenTo(Logs, fs)
           IN  /\ G \in Seq(FlagsOf(Logs)) /\ OnceOnly(G)
               /\ \A i \in 1..Len(G) : ~Flags[G[i].name].pseudo
               /\ \A f \in Range(G) : f \in Range(fs) \union {DefaultTail, DefaultLimit}
               /\ \A f \in Range(G) : f.name = Limit => f.value # <<"large">>
               /\ Named(G, {Limit}) # {} /\ Named(G, Windows) # {}
<1> DEFINE own == Own(fs)
           c == Clamped(own)
           d == Defaults(fs)
           G == GivenTo(Logs, fs)
<1>1. G = c \o d
  BY DEF GivenTo, Own, Logs
<1>2. /\ own \in Seq(FlagsOf(Logs)) /\ OnceOnly(own)
      /\ \A i \in 1..Len(own) : ~Flags[own[i].name].pseudo
      /\ Range(own) = {f \in Range(fs) : ~Flags[f.name].pseudo}
  BY OwnIs
<1>3. /\ c \in Seq(FlagsOf(Logs)) /\ Len(c) = Len(own)
      /\ \A i \in 1..Len(own) :
            /\ c[i] = own[i] \/ (own[i].name = Limit /\ c[i] = DefaultLimit)
            /\ c[i].name = own[i].name
            /\ c[i].name = Limit => c[i].value # <<"large">>
  <2> HIDE DEF own
  <2> QED  BY <1>2, ClampedIs
<1>4. /\ d \in Seq({DefaultTail, DefaultLimit}) /\ d \in Seq(FlagsOf(Logs))
      /\ Named(fs, Windows) = {} => DefaultTail \in Range(d)
      /\ Named(fs, {Limit}) = {} => DefaultLimit \in Range(d)
  BY DefaultsIs
<1> HIDE DEF own, c, d, G
<1>5. /\ DOMAIN own = 1..Len(own) /\ DOMAIN c = 1..Len(own) /\ Len(own) \in Nat
      /\ DOMAIN d = 1..Len(d) /\ Len(d) \in Nat
  BY <1>2, <1>3, <1>4
<1>6. G \in Seq(FlagsOf(Logs)) /\ Range(G) = Range(c) \union Range(d)
  BY <1>1, <1>3, <1>4, RangeConcat
<1>7. /\ DOMAIN G = 1..(Len(own) + Len(d)) /\ Len(G) = Len(own) + Len(d)
      /\ \A i \in 1..(Len(own) + Len(d)) : G[i] = IF i <= Len(own) THEN c[i] ELSE d[i - Len(own)]
  <2>1. c \in Seq(FlagsOf(Logs)) /\ d \in Seq(FlagsOf(Logs))
    BY <1>3, <1>4
  <2>2. /\ DOMAIN (c \o d) = 1..(Len(c) + Len(d)) /\ Len(c \o d) = Len(c) + Len(d)
        /\ \A i \in 1..(Len(c) + Len(d)) : (c \o d)[i] = IF i <= Len(c) THEN c[i] ELSE d[i - Len(c)]
    BY <2>1
  <2> QED  BY <1>1, <1>3, <2>2
<1>8. \A i \in 1..Len(d) : d[i] = DefaultTail \/ d[i] = DefaultLimit
  BY <1>4
<1>9. /\ DefaultTail.name = "tail" /\ DefaultLimit.name = Limit /\ Limit = "limit-bytes"
      /\ "tail" \in Windows /\ DefaultLimit.value = <<"limit">>
  BY DEF DefaultTail, DefaultLimit, Limit, Windows
<1>10. OnceOnly(G)
  <2> SUFFICES ASSUME NEW i \in 1..Len(G), NEW j \in 1..Len(G),
                      G[i].name \in {"output", "grep"}, G[i].name = G[j].name
               PROVE  i = j
    BY <1>7 DEF OnceOnly
  <2>1. ASSUME NEW k \in 1..Len(G), G[k].name \in {"output", "grep"}
        PROVE  k \in 1..Len(own) /\ G[k].name = own[k].name
    <3>1. CASE k <= Len(own)
      BY <1>3, <1>5, <1>7, <3>1
    <3>2. CASE ~(k <= Len(own))
      <4>1. k - Len(own) \in 1..Len(d) /\ G[k] = d[k - Len(own)]
        BY <1>5, <1>7, <3>2
      <4> QED  BY <1>8, <1>9, <2>1, <4>1
    <3> QED  BY <3>1, <3>2
  <2>2. i \in 1..Len(own) /\ j \in 1..Len(own) /\ own[i].name = own[j].name /\ own[i].name \in {"output", "grep"}
    BY <2>1
  <2> QED  BY <1>2, <1>5, <2>2 DEF OnceOnly
<1>11. \A f \in Range(d) : f = DefaultTail \/ f = DefaultLimit
  BY <1>5, <1>8 DEF Range
<1>12. \A f \in Range(c) : \E i \in 1..Len(own) : f = c[i]
  BY <1>5 DEF Range
<1>13. \A i \in 1..Len(own) : own[i] \in Range(own) /\ c[i] \in Range(c) /\ own[i] \in FlagsOf(Logs)
  <2>1. \A i \in 1..Len(own) : own[i] \in FlagsOf(Logs)
    BY <1>2
  <2> QED  BY <1>5, <2>1 DEF Range
<1>14. ASSUME NEW f \in Range(G)
       PROVE  /\ f \in Range(fs) \union {DefaultTail, DefaultLimit}
              /\ f.name = Limit => f.value # <<"large">>
              /\ ~Flags[f.name].pseudo
  <2>1. CASE f \in Range(c)
    <3>1. PICK i \in 1..Len(own) : f = c[i]
      BY <1>12, <2>1
    <3>2. ~Flags[f.name].pseudo /\ (f.name = Limit => f.value # <<"large">>)
      BY <1>2, <1>3, <3>1
    <3> QED  BY <1>2, <1>3, <1>13, <3>1, <3>2
  <2>2. CASE f \in Range(d)
    <3>1. f = DefaultTail \/ f = DefaultLimit
      BY <1>11, <2>2
    <3>2. f \in FlagsOf(Logs) /\ f.name \in Windows \union {Limit}
      BY <1>9, <3>1, DefaultsTyped
    <3>3. ~Flags[f.name].pseudo
      BY <3>2, LogsFlag DEF Logs
    <3>4. <<"limit">> # <<"large">> /\ "tail" # "limit-bytes"
      OBVIOUS
    <3> QED  BY <1>9, <3>1, <3>3, <3>4
  <2> QED  BY <1>6, <2>1, <2>2
<1>15. \A i \in 1..Len(G) : ~Flags[G[i].name].pseudo
  <2>1. \A i \in 1..Len(G) : G[i] \in Range(G)
    BY <1>7 DEF Range
  <2> QED  BY <1>14, <2>1
\* One that the command gives is kept, and its name with it.
<1>16. ASSUME NEW N, N \subseteq Windows \union {Limit}, Named(fs, N) # {} PROVE Named(G, N) # {}
  <2>1. PICK f \in Range(fs) : f.name \in N
    BY <1>16 DEF Named
  <2>2. f \in FlagsOf(Logs)
    BY <2>1, RangeType
  <2>3. ~Flags[f.name].pseudo
    BY <1>16, <2>1, <2>2, LogsFlag DEF Logs
  <2>4. f \in Range(own)
    BY <1>2, <2>1, <2>3
  <2>5. PICK i \in 1..Len(own) : f = own[i]
    BY <1>5, <2>4 DEF Range
  <2>6. c[i] \in Range(G) /\ c[i].name = f.name
    BY <1>3, <1>6, <1>13, <2>5
  <2> QED  BY <2>1, <2>6 DEF Named
<1>17. Named(G, {Limit}) # {}
  <2>1. CASE Named(fs, {Limit}) # {}
    BY <1>16, <2>1
  <2>2. CASE Named(fs, {Limit}) = {}
    BY <1>4, <1>6, <1>9, <2>2 DEF Named
  <2> QED  BY <2>1, <2>2
<1>18. Named(G, Windows) # {}
  <2>1. CASE Named(fs, Windows) # {}
    BY <1>16, <2>1
  <2>2. CASE Named(fs, Windows) = {}
    BY <1>4, <1>6, <1>9, <2>2 DEF Named
  <2> QED  BY <2>1, <2>2
<1> QED  BY <1>6, <1>10, <1>14, <1>15, <1>17, <1>18 DEF G

\* Flags that are so already are given as they are.
LEMMA LogsGivenAgain ==
    ASSUME Logs \in DOMAIN Verbs, NEW fs \in Seq(FlagsOf(Logs)),
           \A i \in 1..Len(fs) : ~Flags[fs[i].name].pseudo,
           \A f \in Range(fs) : f.name = Limit => f.value # <<"large">>,
           Named(fs, {Limit}) # {}, Named(fs, Windows) # {}
    PROVE  GivenTo(Logs, fs) = fs
<1>1. Own(fs) = fs
  BY OwnOfOwn
<1>2. Defaults(fs) = <<>>
  BY DefaultsIs
<1>3. Clamped(fs) = fs
  <2>1. \A i \in 1..Len(fs) : fs[i].name = Limit => fs[i].value # <<"large">>
    BY DEF Range
  <2> QED  BY <2>1, ClampedIs
<1>4. GivenTo(Logs, fs) = Clamped(Own(fs)) \o Defaults(fs)
  BY DEF GivenTo, Own, Logs
<1> QED  BY <1>1, <1>2, <1>3, <1>4

LEMMA GivenIs ==
    ASSUME NEW v \in DOMAIN Verbs, NEW fs \in Seq(FlagsOf(v)), OnceOnly(fs)
    PROVE  LET G == GivenTo(v, fs)
           IN  /\ G \in Seq(FlagsOf(v)) /\ OnceOnly(G) /\ GivenTo(v, G) = G
               /\ \A f \in Range(G) : f \in Range(fs) \/ (v = Logs /\ f \in {DefaultTail, DefaultLimit})
<1> DEFINE G == GivenTo(v, fs)
<1>1. CASE v = Logs
  <2>1. /\ G \in Seq(FlagsOf(Logs)) /\ OnceOnly(G)
        /\ \A i \in 1..Len(G) : ~Flags[G[i].name].pseudo
        /\ \A f \in Range(G) : f \in Range(fs) \union {DefaultTail, DefaultLimit}
        /\ \A f \in Range(G) : f.name = Limit => f.value # <<"large">>
        /\ Named(G, {Limit}) # {} /\ Named(G, Windows) # {}
    BY <1>1, LogsGiven
  <2> HIDE DEF G
  <2>2. GivenTo(Logs, G) = G
    BY <1>1, <2>1, LogsGivenAgain
  <2> QED  BY <1>1, <2>1, <2>2 DEF G
<1>2. CASE v # Logs
  <2>1. G = Own(fs)
    BY <1>2 DEF GivenTo, Own, Logs
  <2>2. /\ Own(fs) \in Seq(FlagsOf(v)) /\ OnceOnly(Own(fs))
        /\ \A i \in 1..Len(Own(fs)) : ~Flags[Own(fs)[i].name].pseudo
        /\ Range(Own(fs)) = {f \in Range(fs) : ~Flags[f.name].pseudo}
    BY OwnIs
  <2> HIDE DEF G
  <2>3. Own(G) = G
    BY <2>1, <2>2, OwnOfOwn
  <2>4. GivenTo(v, G) = Own(G)
    BY <1>2 DEF GivenTo, Own, Logs
  <2> QED  BY <2>1, <2>2, <2>3, <2>4 DEF G
<1> QED  BY <1>1, <1>2

-----------------------------------------------------------------------------
(* The verb that a command begins with.                                    *)

LEMMA WordsIs ==
    ASSUME NEW v \in DOMAIN Verbs
    PROVE  /\ Words(v) \in Seq(Token) /\ Len(Words(v)) = Len(v) /\ Len(v) \in {1, 2}
           /\ \A i \in 1..Len(v) : Words(v)[i] = <<v[i]>>
<1>1. v \in Seq(Atoms) /\ Len(v) \in {1, 2} /\ DOMAIN v = 1..Len(v)
  BY VerbsAssumption DEF Token
<1>2. \A i \in 1..Len(v) : <<v[i]>> \in Token
  BY <1>1 DEF Token
<1> QED  BY <1>1, <1>2 DEF Words

\* Two that a command begins with are one.
LEMMA OneVerb ==
    ASSUME NEW tokens \in Seq(Token), NEW v \in DOMAIN Verbs, NEW w \in DOMAIN Verbs,
           IsPrefix(Words(v), tokens), IsPrefix(Words(w), tokens)
    PROVE  v = w
<1>1. /\ Words(v) \in Seq(Token) /\ Len(Words(v)) = Len(v) /\ Len(v) \in {1, 2}
      /\ \A i \in 1..Len(v) : Words(v)[i] = <<v[i]>>
  BY WordsIs
<1>2. /\ Words(w) \in Seq(Token) /\ Len(Words(w)) = Len(w) /\ Len(w) \in {1, 2}
      /\ \A i \in 1..Len(w) : Words(w)[i] = <<w[i]>>
  BY WordsIs
<1>3. \A i \in 1..Len(v) : tokens[i] = <<v[i]>>
  BY <1>1, PrefixIs
<1>4. \A i \in 1..Len(w) : tokens[i] = <<w[i]>>
  BY <1>2, PrefixIs
<1>5. v[1] = w[1]
  <2>1. 1 \in 1..Len(v) /\ 1 \in 1..Len(w)
    BY <1>1, <1>2
  <2>2. <<v[1]>> = <<w[1]>>
    BY <1>3, <1>4, <2>1
  <2> QED  BY <2>2
<1>6. Len(v) = Len(w)
  BY <1>5, VerbsAssumption
<1>7. \A i \in 1..Len(v) : v[i] = w[i]
  <2> TAKE i \in 1..Len(v)
  <2>1. <<v[i]>> = <<w[i]>>
    BY <1>3, <1>4, <1>6
  <2> QED  BY <2>1
<1>8. v \in Seq(Atoms) /\ w \in Seq(Atoms)
  BY VerbsAssumption DEF Token
<1> QED  BY <1>6, <1>7, <1>8

LEMMA VerbIs ==
    ASSUME NEW tokens \in Seq(Token)
    PROVE  \/ VerbOf(tokens) = <<>>
           \/ VerbOf(tokens) \in DOMAIN Verbs /\ IsPrefix(Words(VerbOf(tokens)), tokens)
<1> DEFINE leading == {v \in DOMAIN Verbs : IsPrefix(Words(v), tokens)}
<1>1. CASE leading = {}
  BY <1>1 DEF VerbOf
<1>2. CASE leading # {}
  <2>1. PICK v \in leading : TRUE
    BY <1>2
  <2>2. \A w \in leading : w = v
    BY OneVerb
  <2>3. VerbsAssumption /\ Len(v) \in {1, 2}
    BY VerbsAssumption
  <2>4. \E u \in leading : \A w \in leading : Len(w) <= Len(u)
    BY <2>1, <2>2, <2>3
  <2>5. VerbOf(tokens) = CHOOSE u \in leading : \A w \in leading : Len(w) <= Len(u)
    BY <1>2 DEF VerbOf
  <2> HIDE DEF leading
  <2>6. VerbOf(tokens) \in leading
    BY <2>4, <2>5
  <2> QED  BY <2>6 DEF leading
<1> QED  BY <1>1, <1>2

LEMMA VerbOfNormal ==
    ASSUME NEW v \in DOMAIN Verbs, NEW q \in Seq(Token)
    PROVE  VerbOf(Words(v) \o q) = v
<1> DEFINE a == Words(v) \o q
           leading == {w \in DOMAIN Verbs : IsPrefix(Words(w), a)}
<1>1. Words(v) \in Seq(Token)
  BY WordsIs
<1>2. /\ a \in Seq(Token) /\ Len(Words(v)) <= Len(a)
      /\ \A i \in 1..Len(Words(v)) : Words(v)[i] = a[i]
  BY <1>1
<1> HIDE DEF a
<1>3. IsPrefix(Words(v), a)
  BY <1>1, <1>2, PrefixIs
<1>4. VerbOf(a) # <<>>
  <2>1. leading # {} /\ \A w \in leading : w = v
    BY <1>2, <1>3, OneVerb
  <2>2. leading = {v}
    BY <2>1
  <2>3. VerbOf(a) = CHOOSE u \in leading : \A w \in leading : Len(w) <= Len(u)
    BY <2>1 DEF VerbOf
  <2>4. Len(v) \in {1, 2} /\ v # <<>>
    BY VerbsAssumption
  <2> HIDE DEF leading
  <2>5. VerbOf(a) = v
    BY <2>2, <2>3, <2>4
  <2> QED  BY <2>4, <2>5
<1> QED  BY <1>2, <1>3, <1>4, VerbIs, OneVerb DEF a

-----------------------------------------------------------------------------
(* The invariant. What is walked is of its types; a command is accepted as *)
(* it should be; and when its normalised argv is walked in its turn, the   *)
(* positionals and then the flags come back one by one.                    *)

ArgvOf(v, ps, fs) == Words(v) \o (ps \o Rendered(fs))
Accept(v, ps, fs) ==
    /\ \A f \in Named(fs, {"output"}) : f.value \in Verbs[v].outputs
    /\ ~(/\ ps # <<>> /\ TypesIn(ps[1]) \intersect Sensitive # {}
         /\ \E f \in Named(fs, {"output"}) : f.value \notin SensitiveOutputs)
    /\ \A f \in Named(fs, {"grep"}) : f.value \notin BadPatterns
    /\ v = Logs => \A f \in Named(fs, {Limit}) : f.value \in GoodLimits

ArgvTyped ==
    /\ Words(verb) \in Seq(Unquoted) /\ rest \in Seq(Unquoted)
    /\ cluster \in Token /\ Plain(cluster)
    /\ positionals \in Seq(Arguments)
    /\ flags \in Seq(FlagsOf(verb)) /\ OnceOnly(flags)

Blank == rest = <<>> /\ cluster = <<>> /\ positionals = <<>> /\ flags = <<>>

\* The first validation was right to accept the command.
Sound(v, ps, fs) ==
    /\ v \in DOMAIN Verbs /\ Words(v) \in Seq(Unquoted)
    /\ ps \in Seq(Arguments)
    /\ fs \in Seq(FlagsOf(v)) /\ OnceOnly(fs) /\ GivenTo(v, fs) = fs
    /\ Accept(v, ps, fs)

\* The second walk has come so far.
AmongArguments(ps, fs) ==
    LET left == Len(ps) - Len(positionals)
    IN  /\ flags = <<>> /\ left >= 0
        /\ \A i \in 1..Len(positionals) : positionals[i] = ps[i]
        /\ Len(rest) = left + Len(fs)
        /\ \A i \in 1..left : rest[i] = ps[Len(positionals) + i]
        /\ \A i \in 1..Len(fs) : rest[left + i] = Render(fs[i])
AmongFlags(ps, fs) ==
    /\ positionals = ps /\ Len(rest) = Len(fs) - Len(flags)
    /\ \A i \in 1..Len(flags) : flags[i] = fs[i]
    /\ \A i \in 1..Len(rest) : rest[i] = Render(fs[Len(flags) + i])
Second(v, ps, fs) ==
    /\ Sound(v, ps, fs)
    /\ first.argv = ArgvOf(v, ps, fs)
    /\ stage # "rejected" /\ cluster = <<>>
    /\ stage = "start" => command = first.argv
    /\ stage # "start" => verb = v /\ (AmongArguments(ps, fs) \/ AmongFlags(ps, fs))

Base ==
    /\ stage \in {"start", "walk", "accepted", "rejected"}
    /\ command \in Seq(Token)
    /\ verb \in DOMAIN Verbs \union {<<>>}
    /\ IF verb = <<>> THEN Blank ELSE ArgvTyped
    /\ stage = "start" => verb = <<>>
    /\ stage \in {"walk", "accepted"} => verb # <<>>
    /\ IF stage = "accepted"
       THEN /\ rest = <<>> /\ cluster = <<>> /\ Accept(verb, positionals, flags)
            /\ argv = ArgvOf(verb, positionals, Given)
       ELSE argv = <<>>
Again == first # Nothing => Second(VerbOf(first.argv), first.positionals, first.flags)
Inv == Base /\ Again

-----------------------------------------------------------------------------
(* Of such an argv.                                                        *)

LEMMA Tokens ==
    /\ Unquoted \subseteq Token /\ Arguments \subseteq Unquoted
    /\ \A t \in Unquoted : Plain(t)
<1>1. \A t \in Unquoted : Plain(t)
  BY DEF Unquoted, IsShell, Plain
<1> QED  BY <1>1 DEF Unquoted, Arguments

LEMMA ArgvIs ==
    ASSUME NEW v \in DOMAIN Verbs, NEW ps \in Seq(Arguments), NEW fs \in Seq(FlagsOf(v))
    PROVE  LET a == ArgvOf(v, ps, fs)
               n == Len(v)
           IN  /\ a \in Seq(Token) /\ a # <<>>
               /\ ps \o Rendered(fs) \in Seq(Unquoted)
               /\ SubSeq(a, n + 1, Len(a)) = ps \o Rendered(fs)
               /\ VerbOf(a) = v
               /\ Words(v) \in Seq(Unquoted) => a \in Seq(Unquoted)
<1> DEFINE r == Rendered(fs)
           q == ps \o r
           w == Words(v)
           a == w \o q
           n == Len(v)
<1>1. /\ w \in Seq(Token) /\ Len(w) = n /\ n \in Nat /\ n > 0
      /\ r \in Seq(Unquoted)
  BY WordsIs, RenderedIs
<1>2. ps \in Seq(Unquoted) /\ Unquoted \subseteq Token
  BY Tokens
<1> HIDE DEF r, w
<1>3. q \in Seq(Unquoted) /\ q \in Seq(Token)
  BY <1>1, <1>2
<1>4. VerbOf(a) = v
  <2> HIDE DEF q
  <2> QED  BY <1>3, VerbOfNormal DEF w
<1> HIDE DEF q, n
<1>5. /\ a \in Seq(Token) /\ Len(a) = n + Len(q) /\ Len(q) \in Nat
      /\ \A i \in 1..Len(q) : a[n + i] = q[i]
      /\ w \in Seq(Unquoted) => a \in Seq(Unquoted)
  <2>1. Len(w) = n /\ w \in Seq(Token) /\ q \in Seq(Token) /\ Len(q) \in Nat
    BY <1>1, <1>3
  <2>2. a \in Seq(Token) /\ Len(a) = Len(w) + Len(q) /\ \A i \in 1..Len(q) : a[Len(w) + i] = q[i]
    <3>1. w \in Seq(Token) /\ q \in Seq(Token)
      BY <2>1
    <3> QED  BY <3>1
  <2>3. w \in Seq(Unquoted) => a \in Seq(Unquoted)
    BY <1>3
  <2> QED  BY <2>1, <2>2, <2>3
<1> HIDE DEF a
<1>6. SubSeq(a, n + 1, Len(a)) = q
  <2> DEFINE u == SubSeq(a, n + 1, Len(a))
  <2>1. u \in Seq(Token) /\ Len(u) = Len(q) /\ \A i \in 1..Len(q) : u[i] = a[n + i]
    <3>1. \A i \in (n + 1)..Len(a) : a[i] \in Token
      BY <1>1, <1>5
    <3>2. /\ SubSeq(a, n + 1, Len(a)) \in Seq(Token)
          /\ Len(u) = IF n + 1 <= Len(a) THEN Len(a) - (n + 1) + 1 ELSE 0
          /\ \A i \in 1..(Len(a) - (n + 1) + 1) : u[i] = a[(n + 1) + i - 1]
      BY <1>1, <1>5, <3>1, SubSeqProperties
    <3>3. \A i \in 1..Len(q) : (n + 1) + i - 1 = n + i
      BY <1>1
    <3> QED  BY <1>1, <1>5, <3>2, <3>3
  <2> HIDE DEF u
  <2>2. \A i \in 1..Len(q) : u[i] = q[i]
    BY <1>5, <2>1
  <2>3. u = q
    BY <1>3, <2>1, <2>2
  <2> QED  BY <2>3 DEF u
<1>7. a # <<>>
  BY <1>1, <1>5
<1> QED  BY <1>3, <1>4, <1>5, <1>6, <1>7 DEF ArgvOf, a, q, r, w, n

\* Of the flags written, those are read again that were written.
LEMMA FlagsRead ==
    ASSUME NEW v \in DOMAIN Verbs, NEW fs \in Seq(FlagsOf(v))
    PROVE  LET r == Rendered(fs)
           IN  [i \in DOMAIN r |-> [name |-> GivenName(r[i]),
                                    value |-> IF Equals(r[i]) = 0 THEN NoValue ELSE Inline(r[i])]] = fs
<1> DEFINE r == Rendered(fs)
<1>1. /\ r \in Seq(Unquoted) /\ Len(r) = Len(fs)
      /\ \A i \in 1..Len(fs) : r[i] = Render(fs[i]) /\ IsLong(r[i])
  BY RenderedIs
<1> HIDE DEF r
<1>2. ASSUME NEW i \in 1..Len(fs)
      PROVE  [name |-> GivenName(r[i]),
              value |-> IF Equals(r[i]) = 0 THEN NoValue ELSE Inline(r[i])] = fs[i]
  <2>1. fs[i] \in FlagsOf(v) /\ r[i] = Render(fs[i])
    BY <1>1
  <2>2. /\ GivenName(r[i]) = fs[i].name
        /\ (IF Equals(r[i]) = 0 THEN NoValue ELSE Inline(r[i])) = fs[i].value
    BY <2>1, RenderIs
  <2>3. fs[i] = [name |-> fs[i].name, value |-> fs[i].value]
    BY <2>1 DEF FlagsOf
  <2> QED  BY <2>2, <2>3
<1>3. DOMAIN r = 1..Len(fs) /\ fs = [i \in 1..Len(fs) |-> fs[i]]
  BY <1>1
<1> QED  BY <1>2, <1>3 DEF r

\* _split_normalised finds the positionals and the flags it was given.
LEMMA Splits ==
    ASSUME NEW v \in DOMAIN Verbs, NEW fs \in Seq(FlagsOf(v)),
           NEW ps \in Seq(Token), \A i \in 1..Len(ps) : ~IsLong(ps[i])
    PROVE  /\ SplitPositionals(ps \o Rendered(fs)) = ps
           /\ SplitFlags(ps \o Rendered(fs)) = fs
<1> DEFINE r == Rendered(fs)
           q == ps \o r
           L == {t \in Range(q) : IsLong(t)}
           N == {t \in Range(q) : ~IsLong(t)}
<1>1. /\ r \in Seq(Token) /\ Len(r) = Len(fs)
      /\ \A i \in 1..Len(fs) : r[i] = Render(fs[i]) /\ IsLong(r[i])
  BY RenderedIs, Tokens
<1>2. [i \in DOMAIN r |-> [name |-> GivenName(r[i]),
                           value |-> IF Equals(r[i]) = 0 THEN NoValue ELSE Inline(r[i])]] = fs
  BY FlagsRead
<1> HIDE DEF r
<1>3. Range(q) = Range(ps) \union Range(r)
  BY <1>1, RangeConcat
<1>4. /\ \A i \in 1..Len(ps) : ps[i] \in Range(ps)
      /\ \A i \in 1..Len(r) : r[i] \in Range(r)
  <2>1. DOMAIN ps = 1..Len(ps) /\ DOMAIN r = 1..Len(r)
    BY <1>1
  <2> QED  BY <2>1 DEF Range
<1>5. /\ \A i \in 1..Len(ps) : ps[i] \in N /\ ps[i] \notin L
      /\ \A i \in 1..Len(r) : r[i] \in L /\ r[i] \notin N
  BY <1>1, <1>3, <1>4
<1>6. Those(q, N) = ps /\ Those(q, L) = r
  <2> HIDE DEF L, N
  <2>1. r \in Seq(Token)
    BY <1>1
  <2>2. (\A i \in 1..Len(ps) : ps[i] \in N) /\ (\A i \in 1..Len(r) : r[i] \notin N) => Those(ps \o r, N) = ps
    BY ONLY <2>1, ps \in Seq(Token), ThoseOfTwo
  <2>3. (\A i \in 1..Len(ps) : ps[i] \notin L) /\ (\A i \in 1..Len(r) : r[i] \in L) => Those(ps \o r, L) = r
    BY ONLY <2>1, ps \in Seq(Token), ThoseOfTwo
  <2> QED  BY <1>5, <2>2, <2>3
<1>7. SplitPositionals(q) = ps
  BY <1>6 DEF SplitPositionals
<1>8. SplitFlags(q) = fs
  BY <1>2, <1>6 DEF SplitFlags
<1> QED  BY <1>7, <1>8 DEF r

LEMMA ReadsBack ==
    ASSUME NEW v \in DOMAIN Verbs, NEW ps \in Seq(Arguments), NEW fs \in Seq(FlagsOf(v))
    PROVE  /\ SplitPositionals(ps \o Rendered(fs)) = ps
           /\ SplitFlags(ps \o Rendered(fs)) = fs
<1>1. ps \in Seq(Token) /\ \A i \in 1..Len(ps) : ~IsLong(ps[i])
  <2>1. Arguments \subseteq Token /\ \A t \in Arguments : ~IsLong(t)
    BY Tokens DEF Arguments
  <2> QED  BY <2>1
<1> QED  BY <1>1, Splits

LEMMA AcceptableIs == Acceptable <=> Accept(verb, positionals, flags)
BY DEF Acceptable, Accept, IsSensitive, Logs, Limit

\* What is given to kubectl is as acceptable as what the command said.
LEMMA AcceptGiven ==
    ASSUME NEW v \in DOMAIN Verbs, NEW ps, NEW fs \in Seq(FlagsOf(v)), OnceOnly(fs),
           Accept(v, ps, fs)
    PROVE  Accept(v, ps, GivenTo(v, fs))
<1> DEFINE G == GivenTo(v, fs)
<1>1. \A f \in Range(G) : f \in Range(fs) \/ (v = Logs /\ f \in {DefaultTail, DefaultLimit})
  BY GivenIs
<1> HIDE DEF G
<1>2. /\ DefaultTail.name = "tail" /\ DefaultLimit.name = "limit-bytes" /\ Limit = "limit-bytes"
      /\ DefaultLimit.value = <<"limit">> /\ <<"limit">> \in GoodLimits
  BY DEF DefaultTail, DefaultLimit, Limit, GoodLimits
<1>3. /\ Named(G, {"output"}) \subseteq Named(fs, {"output"})
      /\ Named(G, {"grep"}) \subseteq Named(fs, {"grep"})
  BY <1>1, <1>2 DEF Named
<1>4. ASSUME NEW f \in Named(G, {Limit}), v = Logs PROVE f.value \in GoodLimits
  <2>1. f \in Named(fs, {Limit}) \/ f = DefaultLimit
    BY <1>1, <1>2 DEF Named
  <2> QED  BY <1>2, <1>4, <2>1 DEF Accept
<1> QED  BY <1>3, <1>4 DEF Accept, G

-----------------------------------------------------------------------------
(* Every step keeps it: what is walked stays of its types, ...             *)

LEMMA InitInv == ArgvInit => Inv
<1> SUFFICES ASSUME ArgvInit PROVE Inv
  OBVIOUS
<1>1. command \in Seq(Token)
  BY CommandsAssumption DEF ArgvInit
<1> QED  BY <1>1 DEF ArgvInit, Inv, Base, Again, Blank

LEMMA SuffixIs ==
    ASSUME NEW t \in Token, Plain(t), NEW k \in 0..Len(t)
    PROVE  SubSeq(t, k + 1, Len(t)) \in Token /\ Plain(SubSeq(t, k + 1, Len(t)))
<1> DEFINE u == SubSeq(t, k + 1, Len(t))
<1>1. t \in Seq(Atoms) /\ Len(t) \in Nat /\ \A i \in (k + 1)..Len(t) : t[i] \in Atoms
  BY DEF Token
<1>2. /\ u \in Seq(Atoms)
      /\ Len(u) = IF k + 1 <= Len(t) THEN Len(t) - (k + 1) + 1 ELSE 0
      /\ \A i \in 1..(Len(t) - (k + 1) + 1) : u[i] = t[(k + 1) + i - 1]
  BY <1>1, SubSeqProperties
<1> HIDE DEF u
<1>3. CASE k = Len(t)
  <2>1. u = <<>>
    BY <1>1, <1>2, <1>3
  <2> QED  BY <1>2, <2>1 DEF u, Token, Plain
<1>4. CASE k < Len(t)
  <2>1. Len(u) = Len(t) - k /\ Len(t) - k \in 1..(Len(t) - (k + 1) + 1) /\ (k + 1) + (Len(t) - k) - 1 = Len(t)
    BY <1>1, <1>2, <1>4
  <2>2. u[Len(u)] = t[Len(t)]
    BY <1>2, <2>1
  <2>3. t # <<>>
    BY <1>1, <1>4
  <2> QED  BY <1>2, <2>2, <2>3 DEF u, Token, Plain
<1> QED  BY <1>3, <1>4

LEMMA TailPlain ==
    ASSUME NEW t \in Token, Plain(t), t # <<>>
    PROVE  Tail(t) \in Token /\ Plain(Tail(t))
<1>1. t \in Seq(Atoms) /\ Len(t) \in Nat /\ 1 \in 0..Len(t)
  BY DEF Token
<1>2. Tail(t) = SubSeq(t, 1 + 1, Len(t))
  BY <1>1, TailIsSubSeq
<1> QED  BY <1>1, <1>2, SuffixIs

LEMMA MatchVerbBase == Inv /\ MatchVerb => Base'
<1> SUFFICES ASSUME Inv, MatchVerb PROVE Base'
  OBVIOUS
<1> DEFINE v == VerbOf(command)
<1>1. /\ stage = "start" /\ verb = <<>> /\ Blank /\ argv = <<>> /\ command \in Seq(Token)
      /\ UNCHANGED <<command, cluster, positionals, flags, argv, first>>
  BY DEF Inv, Base, MatchVerb
<1>2. CASE stage' = "rejected" /\ UNCHANGED <<verb, rest>>
  BY <1>1, <1>2 DEF Base, Blank
<1>3. CASE /\ v # <<>> /\ \A i \in DOMAIN command : ~IsShell(command[i])
           /\ stage' = "walk" /\ verb' = v /\ rest' = SubSeq(command, Len(v) + 1, Len(command))
  <2>1. v \in DOMAIN Verbs /\ IsPrefix(Words(v), command)
    BY <1>1, <1>3, VerbIs
  <2>2. Words(v) \in Seq(Token) /\ Len(Words(v)) = Len(v) /\ Len(v) \in {1, 2}
    BY <2>1, WordsIs
  <2>3. Len(v) <= Len(command) /\ \A i \in 1..Len(v) : Words(v)[i] = command[i]
    BY <1>1, <2>1, <2>2, PrefixIs
  <2>4. Len(command) \in Nat /\ \A i \in 1..Len(command) : command[i] \in Unquoted
    BY <1>1, <1>3 DEF Unquoted
  <2>5. Words(v) \in Seq(Unquoted)
    <3>1. \A i \in 1..Len(v) : Words(v)[i] \in Unquoted
      BY <2>2, <2>3, <2>4
    <3> HIDE DEF v
    <3> QED  BY <2>2, <3>1
  <2>6. SubSeq(command, Len(v) + 1, Len(command)) \in Seq(Unquoted)
    <3> HIDE DEF v
    <3>1. \A i \in (Len(v) + 1)..Len(command) : command[i] \in Unquoted
      BY <2>2, <2>4
    <3> QED  BY <2>2, <2>4, <3>1, SubSeqProperties
  <2>7. cluster' = <<>> /\ positionals' = <<>> /\ flags' = <<>>
    BY <1>1 DEF Blank
  <2>8. <<>> \in Token /\ Plain(<<>>) /\ OnceOnly(<<>>)
    BY DEF Token, Plain, OnceOnly
  <2> HIDE DEF v
  <2>9. ArgvTyped'
    BY <1>3, <2>5, <2>6, <2>7, <2>8 DEF ArgvTyped
  <2> QED  BY <1>1, <1>3, <2>1, <2>9 DEF Base
<1> QED  BY <1>2, <1>3 DEF MatchVerb

LEMMA RefuseBase == Base /\ stage = "walk" /\ Refuse => Base'
BY DEF Base, Refuse, walker, Blank, ArgvTyped

LEMMA AddBase ==
    ASSUME Base, stage = "walk", NEW name, Allowed(name), NEW value \in Values(name), Add(name, value), GoOn,
           rest' \in Seq(Unquoted), cluster' \in Token, Plain(cluster)'
    PROVE  Base'
<1>1. /\ verb \in DOMAIN Verbs /\ verb # <<>> /\ ArgvTyped /\ argv = <<>>
      /\ stage' = "walk" /\ UNCHANGED <<command, verb, positionals, argv, first>>
  BY DEF Base, GoOn
<1> DEFINE f == [name |-> name, value |-> value]
           n == Len(flags)
<1>2. value \in Token \union {NoValue}
  BY DEF Values
<1>3. f \in FlagsOf(verb)
  BY <1>2 DEF FlagsOf, Allowed
<1>4. flags' = Append(flags, f) /\ flags \in Seq(FlagsOf(verb)) /\ OnceOnly(flags)
  BY <1>1 DEF Add, ArgvTyped
<1>5. f.name = name
  OBVIOUS
<1> HIDE DEF f
<1>6. /\ flags' \in Seq(FlagsOf(verb)) /\ DOMAIN flags' = 1..(n + 1) /\ n \in Nat /\ DOMAIN flags = 1..n
      /\ flags'[n + 1] = f /\ \A i \in 1..n : flags'[i] = flags[i]
  BY <1>3, <1>4
<1>7. OnceOnly(flags')
  <2> SUFFICES ASSUME NEW i \in 1..(n + 1), NEW j \in 1..(n + 1),
                      flags'[i].name \in {"output", "grep"}, flags'[i].name = flags'[j].name, i < j
               PROVE  FALSE
    BY <1>6 DEF OnceOnly
  <2>1. i \in 1..n
    BY <1>6
  <2>2. CASE j \in 1..n
    <3>1. i = j
      BY <1>4, <1>6, <2>1, <2>2 DEF OnceOnly
    <3> QED  BY <2>1, <3>1
  <2>3. CASE j = n + 1
    BY <1>5, <1>6, <2>1, <2>3 DEF Allowed
  <2> QED  BY <1>6, <2>2, <2>3
<1>8. ArgvTyped'
  BY <1>1, <1>6, <1>7 DEF ArgvTyped
<1> QED  BY <1>1, <1>8 DEF Base

\* What an inline value is.
LEMMA InlineIs ==
    ASSUME NEW t \in Unquoted, Equals(t) # 0
    PROVE  Inline(t) \in Token /\ Plain(Inline(t))
<1> DEFINE I == {i \in 1..Len(t) : t[i] = "="}
<1>1. t \in Token /\ Plain(t) /\ Len(t) \in Nat
  BY Tokens DEF Token
<1>2. Equals(t) = IF I # {} THEN Min(I) ELSE 0
  BY DEF Equals, SelectInSeq
<1>3. Equals(t) \in 1..Len(t)
  <2>1. I # {} /\ I \in SUBSET (1..Len(t))
    BY <1>2
  <2> HIDE DEF I
  <2> QED  BY <1>1, <1>2, <2>1, MinIs
<1> QED  BY <1>1, <1>3, SuffixIs DEF Inline

LEMMA BooleansTyped ==
    ASSUME NEW v \in DOMAIN Booleans
    PROVE  /\ Booleans[v] \in Token /\ Plain(Booleans[v]) /\ Booleans[v] \in Range(Booleans)
<1>1. Booleans[v] \in {<<"true">>, <<"false">>}
  BY BooleansAssumption
<1>2. /\ <<"true">> \in Token /\ Plain(<<"true">>)
      /\ <<"false">> \in Token /\ Plain(<<"false">>)
  BY AtomsAssumption, ShellAssumption DEF Token, Plain
<1> QED  BY <1>1, <1>2 DEF Range

LEMMA LongFlagBase == Base /\ LongFlag => Base'
<1> SUFFICES ASSUME Base, LongFlag PROVE Base'
  OBVIOUS
<1> DEFINE token == Head(rest)
           name == GivenName(token)
           inline == Equals(token) # 0
<1>1. stage = "walk" /\ cluster = <<>> /\ rest # <<>> /\ IsLong(token)
  BY DEF LongFlag, Walking
<1>2. ArgvTyped
  BY <1>1 DEF Base
<1>3. /\ rest \in Seq(Unquoted) /\ token \in Unquoted /\ Tail(rest) \in Seq(Unquoted)
      /\ Len(rest) > 1 => rest[2] \in Unquoted /\ Tail(Tail(rest)) \in Seq(Unquoted)
  <2>1. rest \in Seq(Unquoted) /\ rest # <<>>
    BY <1>1, <1>2 DEF ArgvTyped
  <2>2. token \in Unquoted /\ Tail(rest) \in Seq(Unquoted) /\ Len(Tail(rest)) = Len(rest) - 1
    BY <2>1, HeadTailProperties
  <2>3. ASSUME Len(rest) > 1 PROVE rest[2] \in Unquoted /\ Tail(Tail(rest)) \in Seq(Unquoted)
    <3>1. 2 \in 1..Len(rest) /\ Len(Tail(rest)) > 0
      BY <2>1, <2>2, <2>3
    <3>2. rest[2] \in Unquoted
      BY <2>1, <3>1
    <3>3. Tail(rest) # <<>>
      <4>1. \A t \in Seq(Unquoted) : Len(t) > 0 => t # <<>>
        OBVIOUS
      <4> QED  BY <2>2, <3>1, <4>1
    <3> QED  BY <2>2, <3>2, <3>3, HeadTailProperties
  <2> QED  BY <2>1, <2>2, <2>3
<1>4. <<>> \in Token /\ Plain(<<>>)
  BY DEF Token, Plain
<1>5. Unquoted \subseteq Token /\ \A t \in Unquoted : Plain(t)
  BY Tokens
<1>6. CASE ~Allowed(name) /\ Refuse
  BY <1>1, <1>6, RefuseBase
<1>7. CASE Allowed(name) /\ Flags[name].value
  <2>1. \A t \in Token : Plain(t) => t \in Values(name)
    BY <1>7 DEF Values
  <2>2. CASE inline /\ Add(name, Inline(token)) /\ rest' = Tail(rest) /\ UNCHANGED cluster /\ GoOn
    <3>1. Inline(token) \in Values(name)
      BY <1>3, <2>1, <2>2, InlineIs
    <3> HIDE DEF token, name
    <3> QED  BY <1>1, <1>3, <1>4, <1>7, <2>2, <3>1, AddBase
  <2>3. CASE ~inline /\ Len(rest) > 1 /\ Add(name, rest[2]) /\ rest' = Tail(Tail(rest)) /\ UNCHANGED cluster /\ GoOn
    <3>1. rest[2] \in Values(name)
      BY <1>3, <1>5, <2>1, <2>3
    <3> HIDE DEF token, name
    <3> QED  BY <1>1, <1>3, <1>4, <1>7, <2>3, <3>1, AddBase
  <2>4. CASE Refuse
    BY <1>1, <2>4, RefuseBase
  <2> QED  BY <1>7, <2>2, <2>3, <2>4 DEF LongFlag
<1>8. CASE Allowed(name) /\ ~Flags[name].value
  <2>1. /\ NoValue \in Values(name)
        /\ \A t \in Token \intersect Range(Booleans) : Plain(t) => t \in Values(name)
    BY <1>8 DEF Values
  <2>2. CASE ~inline /\ Add(name, NoValue) /\ rest' = Tail(rest) /\ UNCHANGED cluster /\ GoOn
    <3> HIDE DEF token, name
    <3> QED  BY <1>1, <1>3, <1>4, <1>8, <2>1, <2>2, AddBase
  <2>3. CASE /\ inline /\ Inline(token) \in DOMAIN Booleans
             /\ Add(name, Booleans[Inline(token)]) /\ rest' = Tail(rest) /\ UNCHANGED cluster /\ GoOn
    <3>1. Booleans[Inline(token)] \in Values(name)
      BY <2>1, <2>3, BooleansTyped
    <3> HIDE DEF token, name
    <3> QED  BY <1>1, <1>3, <1>4, <1>8, <2>3, <3>1, AddBase
  <2>4. CASE Refuse
    BY <1>1, <2>4, RefuseBase
  <2> QED  BY <1>8, <2>2, <2>3, <2>4 DEF LongFlag
<1> QED  BY <1>6, <1>7, <1>8 DEF LongFlag

LEMMA ShortClusterBase == Base /\ ShortCluster => Base'
<1> SUFFICES ASSUME Base, ShortCluster PROVE Base'
  OBVIOUS
<1>1. stage = "walk" /\ rest # <<>> /\ ArgvTyped /\ verb # <<>> /\ IsCluster(Head(rest))
  BY DEF Base, ShortCluster, Walking
<1>2. /\ cluster' = Tail(Head(rest)) /\ rest' = Tail(rest)
      /\ UNCHANGED <<stage, command, verb, positionals, flags, argv, first>>
  BY DEF ShortCluster, GoOn
<1>3. Head(rest) \in Unquoted /\ Tail(rest) \in Seq(Unquoted)
  BY <1>1 DEF ArgvTyped
<1>4. Head(rest) \in Token /\ Plain(Head(rest)) /\ Head(rest) # <<>>
  BY <1>1, <1>3, Tokens DEF IsCluster
<1>5. Tail(Head(rest)) \in Token /\ Plain(Tail(Head(rest)))
  BY <1>4, TailPlain
<1>6. ArgvTyped'
  BY <1>1, <1>2, <1>3, <1>5 DEF ArgvTyped
<1> QED  BY <1>1, <1>2, <1>6 DEF Base

LEMMA ShortFlagBase == Base /\ ShortFlag => Base'
<1> SUFFICES ASSUME Base, ShortFlag PROVE Base'
  OBVIOUS
<1> DEFINE name == OfShort(Head(cluster))
           after == Tail(cluster)
           value == IF after # <<>> /\ Head(after) = "=" THEN Tail(after) ELSE after
<1>1. stage = "walk" /\ cluster # <<>>
  BY DEF ShortFlag
<1>2. cluster \in Token /\ Plain(cluster) /\ rest \in Seq(Unquoted)
  BY <1>1 DEF Base, ArgvTyped
<1>3. after \in Token /\ Plain(after)
  BY <1>1, <1>2, TailPlain
<1>4. value \in Token /\ Plain(value)
  <2> HIDE DEF after
  <2> QED  BY <1>3, TailPlain
<1>5. <<>> \in Token /\ Plain(<<>>) /\ Unquoted \subseteq Token /\ \A t \in Unquoted : Plain(t)
  BY Tokens DEF Token, Plain
<1>6. CASE Refuse
  BY <1>1, <1>6, RefuseBase
<1>7. CASE Allowed(name) /\ ~Flags[name].value /\ Add(name, NoValue) /\ cluster' = after /\ UNCHANGED rest /\ GoOn
  <2>1. NoValue \in Values(name)
    BY <1>7 DEF Values
  <2> HIDE DEF name, after
  <2> QED  BY <1>1, <1>2, <1>3, <1>7, <2>1, AddBase
<1>8. ASSUME Allowed(name), Flags[name].value PROVE \A t \in Token : Plain(t) => t \in Values(name)
  BY <1>8 DEF Values
<1>9. CASE Allowed(name) /\ Flags[name].value /\ Add(name, value) /\ cluster' = <<>> /\ UNCHANGED rest /\ GoOn
  <2>1. value \in Values(name)
    BY <1>4, <1>8, <1>9
  <2> HIDE DEF name, value, after
  <2> QED  BY <1>1, <1>2, <1>5, <1>9, <2>1, AddBase
<1>10. CASE /\ Allowed(name) /\ Flags[name].value /\ rest # <<>>
            /\ Add(name, Head(rest)) /\ cluster' = <<>> /\ rest' = Tail(rest) /\ GoOn
  <2>1. Head(rest) \in Unquoted /\ Tail(rest) \in Seq(Unquoted)
    BY <1>2, <1>10
  <2>2. Head(rest) \in Values(name)
    BY <1>5, <1>8, <1>10, <2>1
  <2> HIDE DEF name, value, after
  <2> QED  BY <1>1, <1>2, <1>5, <1>10, <2>1, <2>2, AddBase
<1> QED  BY <1>6, <1>7, <1>9, <1>10 DEF ShortFlag

LEMMA PositionalBase == Base /\ Positional => Base'
<1> SUFFICES ASSUME Base, Positional PROVE Base'
  OBVIOUS
<1>1. stage = "walk" /\ rest # <<>> /\ ArgvTyped /\ verb # <<>> /\ ~IsLong(Head(rest)) /\ ~IsCluster(Head(rest))
  BY DEF Base, Positional, Walking
<1>2. /\ positionals' = Append(positionals, Head(rest)) /\ rest' = Tail(rest)
      /\ UNCHANGED <<stage, command, verb, cluster, flags, argv, first>>
  BY DEF Positional
<1>3. Head(rest) \in Unquoted /\ Tail(rest) \in Seq(Unquoted)
  BY <1>1 DEF ArgvTyped
<1>4. Head(rest) \in Arguments
  BY <1>1, <1>3 DEF Arguments
<1>5. positionals' \in Seq(Arguments)
  BY <1>1, <1>2, <1>4 DEF ArgvTyped
<1>6. ArgvTyped'
  BY <1>1, <1>2, <1>3, <1>5 DEF ArgvTyped
<1> QED  BY <1>1, <1>2, <1>6 DEF Base

\* The normalised argv, written in the other order.
LEMMA ArgvGiven ==
    ASSUME ArgvTyped, verb \in DOMAIN Verbs
    PROVE  /\ Given \in Seq(FlagsOf(verb)) /\ OnceOnly(Given) /\ GivenTo(verb, Given) = Given
           /\ Words(verb) \o positionals \o [i \in DOMAIN Given |-> Render(Given[i])]
              = ArgvOf(verb, positionals, Given)
<1>1. Given \in Seq(FlagsOf(verb)) /\ OnceOnly(Given) /\ GivenTo(verb, Given) = Given
  BY GivenIs DEF ArgvTyped, Given
<1>2. Rendered(Given) \in Seq(Unquoted)
  BY <1>1, RenderedIs
<1>3. Words(verb) \in Seq(Unquoted) /\ positionals \in Seq(Unquoted)
  BY Tokens DEF ArgvTyped
<1>4. Words(verb) \o positionals \o Rendered(Given) = Words(verb) \o (positionals \o Rendered(Given))
  BY <1>2, <1>3, ConcatAssociative
<1> QED  BY <1>1, <1>4 DEF ArgvOf, Rendered

LEMMA ConcludeBase == Base /\ Conclude => Base'
<1> SUFFICES ASSUME Base, Conclude PROVE Base'
  OBVIOUS
<1>1. /\ stage = "walk" /\ rest = <<>> /\ cluster = <<>> /\ ArgvTyped /\ verb # <<>> /\ verb \in DOMAIN Verbs
      /\ UNCHANGED <<command, verb, rest, cluster, positionals, flags, first>>
  BY DEF Base, Conclude, walker
<1>2. ArgvTyped' /\ Given' = Given
  BY <1>1 DEF ArgvTyped, Given
<1>3. CASE /\ Acceptable /\ stage' = "accepted"
           /\ argv' = Words(verb) \o positionals \o [i \in DOMAIN Given |-> Render(Given[i])]
  <2>1. argv' = ArgvOf(verb, positionals, Given)
    BY <1>1, <1>3, ArgvGiven
  <2>2. argv' = ArgvOf(verb, positionals, Given)'
    BY <1>1, <1>2, <2>1
  <2>3. Accept(verb, positionals, flags)
    BY <1>3, AcceptableIs
  <2>4. Accept(verb, positionals, flags)'
    BY <1>1, <2>3
  <2> QED  BY <1>1, <1>2, <1>3, <2>2, <2>4 DEF Base
<1>4. CASE stage' = "rejected" /\ UNCHANGED argv
  BY <1>1, <1>2, <1>4 DEF Base
<1> QED  BY <1>3, <1>4 DEF Conclude

LEMMA ValidateAgainBase == Base /\ ValidateAgain => Base'
<1> SUFFICES ASSUME Base, ValidateAgain PROVE Base'
  OBVIOUS
<1>1. /\ stage = "accepted" /\ verb \in DOMAIN Verbs /\ ArgvTyped /\ argv = ArgvOf(verb, positionals, Given)
      /\ command' = argv /\ stage' = "start" /\ verb' = <<>> /\ argv' = <<>>
      /\ rest' = <<>> /\ cluster' = <<>> /\ positionals' = <<>> /\ flags' = <<>>
  BY DEF Base, ValidateAgain
<1>2. argv \in Seq(Token)
  BY <1>1, ArgvGiven, ArgvIs DEF ArgvTyped
<1> QED  BY <1>1, <1>2 DEF Base, Blank

-----------------------------------------------------------------------------
(* ... and the second walk goes on as it should.                           *)

\* Of what it was given, the next token is a positional or a flag.
LEMMA NextToken ==
    ASSUME Base, stage = "walk", rest # <<>>, NEW v, NEW ps, NEW fs, Second(v, ps, fs)
    PROVE  \/ /\ AmongFlags(ps, fs) /\ Len(flags) + 1 \in 1..Len(fs)
              /\ Head(rest) = Render(fs[Len(flags) + 1]) /\ IsLong(Head(rest))
           \/ /\ AmongArguments(ps, fs) /\ Len(positionals) + 1 \in 1..Len(ps)
              /\ Head(rest) = ps[Len(positionals) + 1]
              /\ ~IsLong(Head(rest)) /\ ~IsCluster(Head(rest))
<1> DEFINE m == Len(positionals)
           n == Len(flags)
<1>1. /\ v \in DOMAIN Verbs /\ ps \in Seq(Arguments) /\ fs \in Seq(FlagsOf(v))
      /\ AmongArguments(ps, fs) \/ AmongFlags(ps, fs)
  BY DEF Second, Sound
<1>2. ArgvTyped /\ verb # <<>>
  BY DEF Base
<1>3. /\ rest \in Seq(Unquoted) /\ positionals \in Seq(Arguments) /\ flags \in Seq(FlagsOf(verb))
  BY <1>2 DEF ArgvTyped
<1>4. /\ m \in Nat /\ n \in Nat /\ Len(ps) \in Nat /\ Len(fs) \in Nat /\ Len(rest) \in Nat /\ Len(rest) >= 1
      /\ Head(rest) = rest[1]
  BY <1>1, <1>3
<1>5. \A i \in 1..Len(fs) : IsLong(Render(fs[i]))
  BY <1>1, RenderedIs
<1>6. \A i \in 1..Len(ps) : ~IsLong(ps[i]) /\ ~IsCluster(ps[i])
  <2>1. \A i \in 1..Len(ps) : ps[i] \in Arguments
    BY <1>1
  <2> QED  BY <2>1 DEF Arguments
<1>7. CASE AmongFlags(ps, fs)
  <2>1. Len(rest) = Len(fs) - n /\ \A i \in 1..Len(rest) : rest[i] = Render(fs[n + i])
    BY <1>7 DEF AmongFlags
  <2>2. n + 1 \in 1..Len(fs) /\ 1 \in 1..Len(rest)
    BY <1>4, <2>1
  <2>3. rest[1] = Render(fs[n + 1])
    BY <2>1, <2>2
  <2> QED  BY <1>4, <1>5, <1>7, <2>2, <2>3
<1>8. CASE AmongArguments(ps, fs) /\ m < Len(ps)
  <2>1. m + 1 \in 1..Len(ps) /\ 1 \in 1..(Len(ps) - m)
    BY <1>4, <1>8
  <2>2. rest[1] = ps[m + 1]
    BY <1>8, <2>1 DEF AmongArguments
  <2> QED  BY <1>4, <1>6, <1>8, <2>1, <2>2
<1>9. CASE AmongArguments(ps, fs) /\ ~(m < Len(ps))
  <2>1. /\ flags = <<>> /\ m = Len(ps) /\ Len(ps) - m = 0
        /\ \A i \in 1..m : positionals[i] = ps[i]
        /\ Len(rest) = 0 + Len(fs)
        /\ \A i \in 1..Len(fs) : rest[0 + i] = Render(fs[i])
    <3>1. m = Len(ps) /\ Len(ps) - m = 0
      BY <1>4, <1>9 DEF AmongArguments
    <3> QED  BY <1>9, <3>1 DEF AmongArguments
  <2>2. positionals = ps
    <3>1. Len(positionals) = Len(ps) /\ \A i \in 1..Len(ps) : positionals[i] = ps[i]
      BY <2>1
    <3> QED  BY <1>1, <1>3, <3>1
  <2>3. n = 0 /\ Len(rest) = Len(fs)
    BY <1>4, <2>1
  <2>4. \A i \in 1..Len(rest) : rest[i] = Render(fs[n + i])
    <3> TAKE i \in 1..Len(rest)
    <3>1. 0 + i = i /\ n + i = i
      BY <2>3
    <3> QED  BY <2>1, <2>3, <3>1
  <2>5. AmongFlags(ps, fs)
    BY <1>4, <2>1, <2>2, <2>3, <2>4 DEF AmongFlags
  <2> QED  BY <1>7, <2>5
<1> QED  BY <1>1, <1>7, <1>8, <1>9

\* One more flag has come back.
LEMMA FlagComesBack ==
    ASSUME Base, stage = "walk", NEW v, NEW ps, NEW fs, Second(v, ps, fs),
           AmongFlags(ps, fs), Len(flags) + 1 \in 1..Len(fs), rest # <<>>,
           rest' = Tail(rest), flags' = Append(flags, fs[Len(flags) + 1]),
           UNCHANGED <<stage, verb, cluster, positionals, first>>
    PROVE  Second(v, ps, fs)'
<1> DEFINE n == Len(flags)
<1>1. /\ v \in DOMAIN Verbs /\ fs \in Seq(FlagsOf(v)) /\ verb = v
      /\ rest \in Seq(Unquoted) /\ flags \in Seq(FlagsOf(v))
  BY DEF Second, Sound, Base, ArgvTyped
<1>2. /\ n \in Nat /\ Len(fs) \in Nat /\ Len(rest) \in Nat
      /\ Len(rest) = Len(fs) - n
      /\ \A i \in 1..n : flags[i] = fs[i]
      /\ \A i \in 1..Len(rest) : rest[i] = Render(fs[n + i])
  BY <1>1 DEF AmongFlags
<1>3. Len(rest') = Len(rest) - 1 /\ \A i \in 1..(Len(rest) - 1) : rest'[i] = rest[i + 1]
  BY <1>1, HeadTailProperties
<1>4. /\ Len(flags') = n + 1 /\ flags'[n + 1] = fs[n + 1]
      /\ \A i \in 1..n : flags'[i] = flags[i]
  BY <1>1
<1>5. \A i \in 1..Len(rest') : rest'[i] = Render(fs[(n + 1) + i])
  <2> TAKE i \in 1..Len(rest')
  <2>1. i \in 1..(Len(rest) - 1) /\ i + 1 \in 1..Len(rest) /\ n + (i + 1) = (n + 1) + i
    BY <1>2, <1>3
  <2> QED  BY <1>2, <1>3, <2>1
<1>6. \A i \in 1..(n + 1) : flags'[i] = fs[i]
  BY <1>2, <1>4
<1>7. positionals' = ps /\ Len(rest') = Len(fs) - Len(flags')
  BY <1>2, <1>3, <1>4 DEF AmongFlags
<1>8. AmongFlags(ps, fs)'
  BY <1>4, <1>5, <1>6, <1>7 DEF AmongFlags
<1> QED  BY <1>8 DEF Second, Sound

LEMMA LongFlagAgain == Inv /\ LongFlag => Again'
<1> SUFFICES ASSUME Inv, LongFlag, first' # Nothing PROVE Again'
  BY DEF Again
<1>0. PICK v, ps, fs : v = VerbOf(first.argv) /\ ps = first.positionals /\ fs = first.flags
  OBVIOUS
<1> DEFINE token == Head(rest)
           name == GivenName(token)
           inline == Equals(token) # 0
           n == Len(flags)
           f == fs[n + 1]
<1>1. /\ stage = "walk" /\ cluster = <<>> /\ rest # <<>> /\ IsLong(token) /\ Base
      /\ first' = first
  BY DEF LongFlag, Walking, Inv, Refuse, GoOn
<1>2. Second(v, ps, fs)
  BY <1>0, <1>1 DEF Inv, Again
<1>3. AmongFlags(ps, fs) /\ n + 1 \in 1..Len(fs) /\ token = Render(f)
  BY <1>1, <1>2, NextToken
<1>4. /\ v \in DOMAIN Verbs /\ fs \in Seq(FlagsOf(v)) /\ OnceOnly(fs) /\ verb = v
      /\ \A i \in 1..n : flags[i] = fs[i]
      /\ flags \in Seq(FlagsOf(v))
  BY <1>1, <1>2, <1>3 DEF Second, Sound, AmongFlags, Base, ArgvTyped
<1>5. f \in FlagsOf(v)
  BY <1>3, <1>4
<1>6. /\ name = f.name /\ (f.value = NoValue => ~inline)
      /\ (f.value # NoValue => inline /\ Inline(token) = f.value)
  BY <1>3, <1>4, <1>5, RenderIs
<1>7. f = [name |-> name, value |-> f.value] /\ f.name \in Verbs[verb].flags /\ f.value \in Values(f.name)
  BY <1>4, <1>5, <1>6 DEF FlagsOf
<1>8. Allowed(name)
  <2> SUFFICES ASSUME name \in {"output", "grep"}, NEW i \in DOMAIN flags, flags[i].name = name PROVE FALSE
    BY <1>6, <1>7 DEF Allowed
  <2>1. i \in 1..n /\ n \in Nat /\ i \in DOMAIN fs /\ n + 1 \in DOMAIN fs /\ flags[i] = fs[i]
    <3>1. DOMAIN flags = 1..n /\ DOMAIN fs = 1..Len(fs) /\ Len(fs) \in Nat /\ n \in Nat
      BY <1>4
    <3> QED  BY <1>3, <1>4, <3>1
  <2>2. i = n + 1
    BY <1>4, <1>6, <2>1 DEF OnceOnly
  <2> QED  BY <2>1, <2>2
<1>9. flags' = Append(flags, f) /\ rest' = Tail(rest) /\ UNCHANGED <<stage, verb, cluster, positionals, first>>
  <2>1. CASE Flags[name].value
    <3>1. f.value # NoValue
      BY <1>6, <1>7, <2>1, FlagsAssumption DEF Values
    <3>2. inline /\ Add(name, Inline(token)) /\ rest' = Tail(rest) /\ UNCHANGED cluster /\ GoOn
      BY <1>6, <1>8, <2>1, <3>1 DEF LongFlag
    <3> QED  BY <1>6, <1>7, <3>1, <3>2 DEF Add, GoOn
  <2>2. CASE ~Flags[name].value /\ f.value = NoValue
    <3>1. Add(name, NoValue) /\ rest' = Tail(rest) /\ UNCHANGED cluster /\ GoOn
      BY <1>6, <1>8, <2>2 DEF LongFlag
    <3> QED  BY <1>7, <2>2, <3>1 DEF Add, GoOn
  <2>3. CASE ~Flags[name].value /\ f.value # NoValue
    <3>1. f.value \in Range(Booleans)
      BY <1>6, <1>7, <2>3 DEF Values
    <3>2. PICK b \in DOMAIN Booleans : f.value = Booleans[b]
      BY <3>1 DEF Range
    <3>3. f.value \in DOMAIN Booleans /\ Booleans[f.value] = f.value
      BY <3>2, BooleansAssumption
    <3>4. Add(name, Booleans[Inline(token)]) /\ rest' = Tail(rest) /\ UNCHANGED cluster /\ GoOn
      BY <1>6, <1>8, <2>3, <3>3 DEF LongFlag
    <3> QED  BY <1>6, <1>7, <2>3, <3>3, <3>4 DEF Add, GoOn
  <2> QED  BY <2>1, <2>2, <2>3
<1>10. Second(v, ps, fs)'
  <2> HIDE DEF token, name, inline, f
  <2>1. flags' = Append(flags, fs[n + 1])
    BY <1>9 DEF f
  <2> QED  BY <1>1, <1>2, <1>3, <1>9, <2>1, FlagComesBack
<1> QED  BY <1>0, <1>1, <1>10 DEF Again

LEMMA ShortClusterAgain == Inv /\ ShortCluster => Again'
<1> SUFFICES ASSUME Inv, ShortCluster, first' # Nothing PROVE FALSE
  BY DEF Again
<1>1. stage = "walk" /\ rest # <<>> /\ IsCluster(Head(rest)) /\ Base /\ first # Nothing
  BY DEF ShortCluster, Walking, Inv, GoOn
<1>2. Second(VerbOf(first.argv), first.positionals, first.flags)
  BY <1>1 DEF Inv, Again
<1>3. IsLong(Head(rest))
  BY <1>1, <1>2, NextToken
<1> QED  BY <1>1, <1>3, LettersAssumption DEF IsLong, IsCluster

LEMMA ShortFlagAgain == Inv /\ ShortFlag => Again'
<1> SUFFICES ASSUME Inv, ShortFlag, first' # Nothing PROVE FALSE
  BY DEF Again
<1>1. cluster # <<>> /\ first # Nothing
  BY DEF ShortFlag, Refuse, GoOn
<1> QED  BY <1>1 DEF Inv, Again, Second

LEMMA PositionalAgain == Inv /\ Positional => Again'
<1> SUFFICES ASSUME Inv, Positional, first' # Nothing PROVE Again'
  BY DEF Again
<1>1. /\ stage = "walk" /\ rest # <<>> /\ Base /\ ~IsLong(Head(rest))
      /\ positionals' = Append(positionals, Head(rest)) /\ rest' = Tail(rest)
      /\ UNCHANGED <<stage, verb, cluster, flags, first>>
  BY DEF Positional, Walking, Inv
<1>2. PICK v, ps, fs : v = VerbOf(first.argv) /\ ps = first.positionals /\ fs = first.flags
  OBVIOUS
<1>3. Second(v, ps, fs)
  BY <1>1, <1>2 DEF Inv, Again
<1> DEFINE m == Len(positionals)
           left == Len(ps) - m
<1>4. AmongArguments(ps, fs) /\ m + 1 \in 1..Len(ps) /\ Head(rest) = ps[m + 1]
  BY <1>1, <1>3, NextToken
<1>5. /\ ps \in Seq(Arguments) /\ rest \in Seq(Unquoted) /\ positionals \in Seq(Arguments)
      /\ fs \in Seq(FlagsOf(v))
  BY <1>1, <1>3 DEF Second, Sound, Base, ArgvTyped
<1>6. m \in Nat /\ Len(ps) \in Nat /\ Len(fs) \in Nat /\ Len(rest) \in Nat
  BY <1>5
<1>7. /\ flags = <<>> /\ left >= 0 /\ Len(rest) = left + Len(fs)
      /\ \A i \in 1..m : positionals[i] = ps[i]
      /\ \A i \in 1..left : rest[i] = ps[m + i]
      /\ \A i \in 1..Len(fs) : rest[left + i] = Render(fs[i])
  BY <1>4 DEF AmongArguments
<1>8. /\ Len(positionals') = m + 1 /\ positionals'[m + 1] = ps[m + 1]
      /\ \A i \in 1..m : positionals'[i] = positionals[i]
  BY <1>1, <1>4, <1>5
<1>9. Len(rest') = Len(rest) - 1 /\ \A i \in 1..(Len(rest) - 1) : rest'[i] = rest[i + 1]
  BY <1>1, <1>5, HeadTailProperties
<1>10. left \in Nat /\ left - 1 \in Nat /\ left - 1 = Len(ps) - (m + 1)
  BY <1>4, <1>6
<1> HIDE DEF left
<1>l. left \in Nat /\ left >= 1 /\ Len(fs) \in Nat /\ m \in Nat /\ Len(rest) = left + Len(fs)
  BY <1>6, <1>7, <1>10
<1>11. \A i \in 1..(m + 1) : positionals'[i] = ps[i]
  BY <1>6, <1>7, <1>8
<1>12. \A i \in 1..(left - 1) : rest'[i] = ps[(m + 1) + i]
  <2> TAKE i \in 1..(left - 1)
  <2>1. i \in 1..(Len(rest) - 1) /\ i + 1 \in 1..left /\ m + (i + 1) = (m + 1) + i
    BY <1>l
  <2> QED  BY <1>7, <1>9, <2>1
<1>13. \A i \in 1..Len(fs) : rest'[(left - 1) + i] = Render(fs[i])
  <2> TAKE i \in 1..Len(fs)
  <2>1. (left - 1) + i \in 1..(Len(rest) - 1) /\ ((left - 1) + i) + 1 = left + i
    BY <1>l
  <2> QED  BY <1>7, <1>9, <2>1
<1>14. AmongArguments(ps, fs)'
  <2>1. Len(ps) - Len(positionals') = left - 1 /\ Len(rest') = (left - 1) + Len(fs)
    BY <1>6, <1>7, <1>8, <1>9, <1>10
  <2>2. Len(ps) - Len(positionals') >= 0 /\ flags' = <<>>
    BY <1>1, <1>7, <1>10, <2>1
  <2>3. \A i \in 1..Len(positionals') : positionals'[i] = ps[i]
    BY <1>8, <1>11
  <2>4. /\ \A i \in 1..(left - 1) : rest'[i] = ps[Len(positionals') + i]
        /\ \A i \in 1..Len(fs) : rest'[(left - 1) + i] = Render(fs[i])
    BY <1>8, <1>12, <1>13
  <2> QED  BY <2>1, <2>2, <2>3, <2>4 DEF AmongArguments
<1>15. Second(v, ps, fs)'
  BY <1>1, <1>3, <1>14 DEF Second, Sound
<1> QED  BY <1>1, <1>2, <1>15 DEF Again

\* When all has been walked, all has come back.
LEMMA AllCameBack ==
    ASSUME Base, stage # "start", rest = <<>>, NEW v, NEW ps, NEW fs, Second(v, ps, fs)
    PROVE  verb = v /\ positionals = ps /\ flags = fs
<1>1. /\ verb = v /\ v \in DOMAIN Verbs /\ v # <<>> /\ ps \in Seq(Arguments) /\ fs \in Seq(FlagsOf(v))
      /\ AmongArguments(ps, fs) \/ AmongFlags(ps, fs)
  <2>1. \A w \in DOMAIN Verbs : w # <<>>
    BY VerbsAssumption
  <2> QED  BY <2>1 DEF Second, Sound
<1>2. positionals \in Seq(Arguments) /\ flags \in Seq(FlagsOf(v))
  BY <1>1 DEF Base, ArgvTyped
<1>3. /\ Len(rest) = 0 /\ Len(ps) \in Nat /\ Len(fs) \in Nat
      /\ Len(positionals) \in Nat /\ Len(flags) \in Nat
  BY <1>1, <1>2
<1>4. CASE AmongArguments(ps, fs)
  <2>1. /\ flags = <<>> /\ Len(positionals) = Len(ps) /\ Len(fs) = 0
        /\ \A i \in 1..Len(positionals) : positionals[i] = ps[i]
    BY <1>3, <1>4 DEF AmongArguments
  <2>2. positionals = ps /\ fs = <<>>
    BY <1>1, <1>2, <2>1
  <2> QED  BY <1>1, <2>1, <2>2
<1>5. CASE AmongFlags(ps, fs)
  <2>1. /\ positionals = ps /\ Len(flags) = Len(fs)
        /\ \A i \in 1..Len(flags) : flags[i] = fs[i]
    BY <1>3, <1>5 DEF AmongFlags
  <2>2. flags = fs
    BY <1>1, <1>2, <2>1
  <2> QED  BY <1>1, <2>1, <2>2
<1> QED  BY <1>1, <1>4, <1>5

LEMMA ConcludeAgain == Inv /\ Conclude => Again'
<1> SUFFICES ASSUME Inv, Conclude, first' # Nothing PROVE Again'
  BY DEF Again
<1>1. /\ stage = "walk" /\ rest = <<>> /\ Base
      /\ UNCHANGED <<verb, rest, cluster, positionals, flags, first>>
  BY DEF Conclude, Inv, walker
<1>2. PICK v, ps, fs : v = VerbOf(first.argv) /\ ps = first.positionals /\ fs = first.flags
  OBVIOUS
<1>3. Second(v, ps, fs)
  BY <1>1, <1>2 DEF Inv, Again
<1>4. verb = v /\ positionals = ps /\ flags = fs
  BY <1>1, <1>3, AllCameBack
<1>5. Acceptable
  BY <1>3, <1>4, AcceptableIs DEF Second, Sound
<1>6. stage' = "accepted"
  BY <1>5 DEF Conclude
<1>7. Second(v, ps, fs)'
  BY <1>1, <1>3, <1>6 DEF Second, Sound, AmongArguments, AmongFlags
<1> QED  BY <1>1, <1>2, <1>7 DEF Again

LEMMA MatchVerbAgain == Inv /\ MatchVerb => Again'
<1> SUFFICES ASSUME Inv, MatchVerb, first' # Nothing PROVE Again'
  BY DEF Again
<1>1. /\ stage = "start" /\ Base /\ UNCHANGED <<cluster, positionals, flags, first>>
      /\ positionals = <<>> /\ flags = <<>> /\ cluster = <<>>
  BY DEF MatchVerb, Inv, Base, Blank
<1>2. PICK v, ps, fs : v = VerbOf(first.argv) /\ ps = first.positionals /\ fs = first.flags
  OBVIOUS
<1>3. Second(v, ps, fs)
  BY <1>1, <1>2 DEF Inv, Again
<1>4. Sound(v, ps, fs) /\ command = ArgvOf(v, ps, fs)
  BY <1>1, <1>3 DEF Second
<1>5. /\ v \in DOMAIN Verbs /\ ps \in Seq(Arguments) /\ fs \in Seq(FlagsOf(v))
      /\ Words(v) \in Seq(Unquoted)
  BY <1>4 DEF Sound
<1> DEFINE r == Rendered(fs)
           q == ps \o r
<1>6. /\ VerbOf(command) = v /\ command \in Seq(Unquoted) /\ command # <<>>
      /\ SubSeq(command, Len(v) + 1, Len(command)) = q
  BY <1>4, <1>5, ArgvIs
<1>7. v # <<>> /\ \A i \in DOMAIN command : ~IsShell(command[i])
  <2>1. v # <<>>
    BY <1>5, VerbsAssumption
  <2>2. \A i \in DOMAIN command : command[i] \in Unquoted
    BY <1>6
  <2> QED  BY <2>1, <2>2 DEF Unquoted
<1>8. stage' = "walk" /\ verb' = v /\ rest' = q
  BY <1>6, <1>7 DEF MatchVerb
<1>9. /\ r \in Seq(Unquoted) /\ Len(r) = Len(fs) /\ ps \in Seq(Unquoted)
      /\ \A i \in 1..Len(fs) : r[i] = Render(fs[i])
  BY <1>5, RenderedIs, Tokens
<1> HIDE DEF r
<1>10. /\ Len(q) = Len(ps) + Len(r)
       /\ \A i \in 1..Len(ps) : q[i] = ps[i]
       /\ \A i \in 1..Len(r) : q[Len(ps) + i] = r[i]
  <2>1. r \in Seq(Unquoted) /\ ps \in Seq(Unquoted)
    BY <1>9
  <2> QED  BY <2>1
<1> HIDE DEF q
<1>11. AmongArguments(ps, fs)'
  <2>1. /\ Len(positionals') = 0 /\ Len(ps) - 0 = Len(ps) /\ Len(ps) >= 0 /\ flags' = <<>>
        /\ \A i \in 1..Len(ps) : 0 + i = i
    BY <1>1, <1>5
  <2>2. \A i \in 1..Len(ps) : rest'[i] = ps[0 + i]
    BY <1>8, <1>10, <2>1
  <2>3. \A i \in 1..Len(fs) : rest'[Len(ps) + i] = Render(fs[i])
    BY <1>8, <1>9, <1>10
  <2>4. Len(rest') = Len(ps) + Len(fs)
    BY <1>8, <1>9, <1>10
  <2>5. \A i \in 1..0 : positionals'[i] = ps[i]
    OBVIOUS
  <2> QED  BY <2>1, <2>2, <2>3, <2>4, <2>5 DEF AmongArguments
<1>12. Second(v, ps, fs)'
  BY <1>1, <1>3, <1>8, <1>11 DEF Second, Sound
<1> QED  BY <1>1, <1>2, <1>12 DEF Again

LEMMA ValidateAgainAgain == Inv /\ ValidateAgain => Again'
<1> SUFFICES ASSUME Inv, ValidateAgain PROVE Again'
  OBVIOUS
<1>1. /\ stage = "accepted" /\ verb \in DOMAIN Verbs /\ ArgvTyped /\ argv = ArgvOf(verb, positionals, Given)
      /\ Accept(verb, positionals, flags)
      /\ first' = [argv |-> argv, positionals |-> positionals, flags |-> Given]
      /\ command' = argv /\ stage' = "start" /\ cluster' = <<>>
  BY DEF Inv, Base, ValidateAgain
<1>2. PICK v, ps, fs : v = verb /\ ps = positionals /\ fs = Given
  OBVIOUS
<1>3. /\ fs \in Seq(FlagsOf(v)) /\ OnceOnly(fs) /\ GivenTo(v, fs) = fs
      /\ ps \in Seq(Arguments) /\ Words(v) \in Seq(Unquoted) /\ v \in DOMAIN Verbs
  BY <1>1, <1>2, ArgvGiven DEF ArgvTyped
<1>4. Accept(v, ps, fs)
  <2>1. flags \in Seq(FlagsOf(verb)) /\ OnceOnly(flags)
    BY <1>1 DEF ArgvTyped
  <2>2. Accept(verb, positionals, GivenTo(verb, flags))
    BY <1>1, <2>1, AcceptGiven
  <2> QED  BY <1>2, <2>2 DEF Given
<1>5. Sound(v, ps, fs)
  BY <1>3, <1>4 DEF Sound
<1>6. first'.argv = ArgvOf(v, ps, fs) /\ first'.positionals = ps /\ first'.flags = fs
  BY <1>1, <1>2
<1>7. VerbOf(first'.argv) = v
  BY <1>3, <1>6, ArgvIs
<1>8. Second(v, ps, fs)'
  BY <1>1, <1>5, <1>6 DEF Second, Sound
<1> QED  BY <1>6, <1>7, <1>8 DEF Again

LEMMA StepInv == Inv /\ [ArgvNext]_argvVars => Inv'
<1> SUFFICES ASSUME Inv, [ArgvNext]_argvVars PROVE Inv'
  OBVIOUS
<1> USE DEF Inv
<1>1. CASE MatchVerb
  BY <1>1, MatchVerbBase, MatchVerbAgain
<1>2. CASE LongFlag
  BY <1>2, LongFlagBase, LongFlagAgain
<1>3. CASE ShortCluster
  BY <1>3, ShortClusterBase, ShortClusterAgain
<1>4. CASE ShortFlag
  BY <1>4, ShortFlagBase, ShortFlagAgain
<1>5. CASE Positional
  BY <1>5, PositionalBase, PositionalAgain
<1>6. CASE Conclude
  BY <1>6, ConcludeBase, ConcludeAgain
<1>7. CASE ValidateAgain
  BY <1>7, ValidateAgainBase, ValidateAgainAgain
<1>8. CASE UNCHANGED argvVars
  BY <1>8 DEF argvVars, walker, Base, Again, Blank, ArgvTyped, Second, Sound, AmongArguments, AmongFlags, Given
<1> QED  BY <1>1, <1>2, <1>3, <1>4, <1>5, <1>6, <1>7, <1>8 DEF ArgvNext

\* The strengthening is kept by every validation of every command, and by the
\* one of its normalised argv.
THEOREM ArgvInvariant == ArgvSpec => []Inv
<1>1. ArgvInit => Inv
  BY InitInv
<1>2. Inv /\ [ArgvNext]_argvVars => Inv'
  BY StepInv
<1> QED  BY <1>1, <1>2, PTL DEF ArgvSpec
-----------------------------------------------------------------------------
(* What the invariant says of an accepted command.                         *)

LEMMA InvTyped == Inv => ArgvTypeOK
<1> SUFFICES ASSUME Base PROVE ArgvTypeOK
  BY DEF Inv
<1>1. /\ stage \in {"start", "walk", "accepted", "rejected"} /\ verb \in DOMAIN Verbs \union {<<>>}
      /\ stage # "accepted" => argv = <<>>
  BY DEF Base
<1>2. CASE verb = <<>>
  <2>1. DOMAIN flags = {} /\ DOMAIN positionals = {}
    BY <1>2 DEF Base, Blank
  <2> QED  BY <1>1, <2>1 DEF ArgvTypeOK
<1>3. CASE verb # <<>>
  <2>1. positionals \in Seq(Arguments) /\ flags \in Seq(FlagsOf(verb))
    BY <1>3 DEF Base, ArgvTyped
  <2>2. ASSUME NEW i \in DOMAIN flags
        PROVE  /\ flags[i].name \in Verbs[verb].flags
               /\ IF Flags[flags[i].name].value THEN flags[i].value # NoValue
                  ELSE flags[i].value \in Range(Booleans) \union {NoValue}
    <3>1. flags[i] \in FlagsOf(verb)
      BY <2>1
    <3>2. flags[i].name \in Verbs[verb].flags /\ flags[i].value \in Values(flags[i].name)
      BY <3>1 DEF FlagsOf
    <3> QED  BY <3>2, FlagsAssumption DEF Values
  <2>3. \A i \in DOMAIN positionals : ~IsLong(positionals[i])
    <3>1. \A t \in Arguments : ~IsLong(t)
      BY DEF Arguments
    <3> QED  BY <2>1, <3>1
  <2> QED  BY <1>1, <2>2, <2>3 DEF ArgvTypeOK
<1> QED  BY <1>2, <1>3

LEMMA AcceptedIs ==
    ASSUME Inv, stage = "accepted"
    PROVE  /\ verb \in DOMAIN Verbs /\ ArgvTyped /\ argv = ArgvOf(verb, positionals, Given)
           /\ SplitPositionals(AfterVerb) = positionals /\ SplitFlags(AfterVerb) = Given
<1>1. verb \in DOMAIN Verbs /\ ArgvTyped /\ argv = ArgvOf(verb, positionals, Given)
  BY DEF Inv, Base
<1>2. positionals \in Seq(Arguments) /\ Given \in Seq(FlagsOf(verb))
  BY <1>1, ArgvGiven DEF ArgvTyped
<1>3. AfterVerb = positionals \o Rendered(Given)
  BY <1>1, <1>2, ArgvIs DEF AfterVerb
<1> QED  BY <1>1, <1>2, <1>3, ReadsBack

LEMMA InvReadsBack == Inv => NormalisedReadsBack
<1> SUFFICES ASSUME Inv, first # Nothing
             PROVE  /\ stage # "rejected"
                    /\ stage = "accepted" =>
                          /\ argv = first.argv
                          /\ positionals = first.positionals /\ flags = first.flags
                          /\ SplitPositionals(AfterVerb) = positionals
                          /\ SplitFlags(AfterVerb) = flags
  BY DEF NormalisedReadsBack
<1>1. PICK v, ps, fs : v = VerbOf(first.argv) /\ ps = first.positionals /\ fs = first.flags
  OBVIOUS
<1>2. Second(v, ps, fs) /\ Base
  BY <1>1 DEF Inv, Again
<1>3. stage # "rejected" /\ first.argv = ArgvOf(v, ps, fs) /\ GivenTo(v, fs) = fs
  BY <1>2 DEF Second, Sound
<1>4. ASSUME stage = "accepted"
      PROVE  /\ argv = first.argv /\ positionals = ps /\ flags = fs
             /\ SplitPositionals(AfterVerb) = positionals
             /\ SplitFlags(AfterVerb) = flags
  <2>1. stage # "start" /\ rest = <<>>
    BY <1>2, <1>4 DEF Base
  <2>2. verb = v /\ positionals = ps /\ flags = fs
    BY <1>2, <2>1, AllCameBack
  <2>3. Given = fs
    BY <1>3, <2>2 DEF Given
  <2> QED  BY <1>3, <1>4, <2>2, <2>3, AcceptedIs
<1> QED  BY <1>1, <1>3, <1>4

LEMMA InvBounded == Inv => LogsAreBounded
<1> SUFFICES ASSUME Inv, stage = "accepted", verb = Logs
             PROVE  LET limits == Named(SplitFlags(AfterVerb), {"limit-bytes"})
                    IN  /\ limits # {}
                        /\ \A f \in limits : f.value \in {<<"small">>, <<"limit">>}
                        /\ Named(SplitFlags(AfterVerb), {"tail", "since", "since-time"}) # {}
  BY DEF LogsAreBounded, Logs
<1> DEFINE G == GivenTo(Logs, flags)
<1>1. /\ Logs \in DOMAIN Verbs /\ SplitFlags(AfterVerb) = G
      /\ flags \in Seq(FlagsOf(Logs)) /\ OnceOnly(flags)
  BY AcceptedIs DEF ArgvTyped, Given
<1>2. /\ \A f \in Range(G) : f.name = Limit => f.value # <<"large">>
      /\ Named(G, {Limit}) # {} /\ Named(G, Windows) # {}
  BY <1>1, LogsGiven
<1>3. Accept(Logs, positionals, G)
  <2>1. Accept(Logs, positionals, flags)
    BY DEF Inv, Base
  <2> QED  BY <1>1, <2>1, AcceptGiven
<1> HIDE DEF G
<1>4. ASSUME NEW f \in Named(G, {Limit}) PROVE f.value \in {<<"small">>, <<"limit">>}
  <2>1. f \in Range(G) /\ f.name = Limit
    BY DEF Named
  <2>2. f.value \in GoodLimits /\ f.value # <<"large">>
    BY <1>2, <1>3, <2>1 DEF Accept
  <2> QED  BY <2>2 DEF GoodLimits
<1> QED  BY <1>1, <1>2, <1>4 DEF Limit, Windows

\* ArgvTypeOK of CliArgv: every flag validate() has taken is one of its verb's and
\* has a value as its kind asks, and no positional looks like a long flag.
THEOREM ArgvTypeCorrect == ArgvSpec => []ArgvTypeOK
BY ArgvInvariant, InvTyped, PTL

\* validate() accepts the argv it has made of a command and makes the same of
\* it again; _split_normalised reads the same positionals and flags out of it.
THEOREM NormalisingKeeps == ArgvSpec => []NormalisedReadsBack
BY ArgvInvariant, InvReadsBack, PTL

\* _apply_logs_defaults: an accepted kubectl logs has a window, and a limit,
\* and each of its limits holds.
THEOREM LogsStayBounded == ArgvSpec => []LogsAreBounded
BY ArgvInvariant, InvBounded, PTL

-----------------------------------------------------------------------------
(* The flag that is heeded: the last of its name.                          *)

LEMMA LastOf ==
    ASSUME NEW v \in DOMAIN Verbs, NEW fs \in Seq(FlagsOf(v)), NEW n, At(fs, n) # {}
    PROVE  LET f == fs[Max(At(fs, n))]
           IN  f \in FlagsOf(v) /\ f.name = n /\ Heeded(fs, n) = f.value
<1>1. DOMAIN fs = 1..Len(fs) /\ Len(fs) \in Nat
  OBVIOUS
<1>2. At(fs, n) \in SUBSET (1..Len(fs)) /\ \A i \in At(fs, n) : fs[i].name = n
  BY <1>1 DEF At
<1>3. Max(At(fs, n)) \in At(fs, n)
  BY <1>1, <1>2, MaxIs
<1> QED  BY <1>2, <1>3 DEF Heeded

LEMMA NotHeeded ==
    ASSUME NEW fs, NEW n, \A i \in DOMAIN fs : fs[i].name # n
    PROVE  At(fs, n) = {} /\ Heeded(fs, n) = <<>>
BY DEF At, Heeded

LEMMA HeededOnce ==
    ASSUME NEW v \in DOMAIN Verbs, NEW fs \in Seq(FlagsOf(v)), NEW i \in DOMAIN fs,
           \A j \in DOMAIN fs : fs[j].name = fs[i].name => j = i
    PROVE  Heeded(fs, fs[i].name) = fs[i].value
<1>1. At(fs, fs[i].name) = {i}
  BY DEF At
<1>2. At(fs, fs[i].name) \in SUBSET (1..Len(fs)) /\ Len(fs) \in Nat
  BY DEF At
<1>3. Max(At(fs, fs[i].name)) \in At(fs, fs[i].name)
  BY <1>1, <1>2, MaxIs
<1> QED  BY <1>1, <1>3 DEF Heeded

LEMMA NoValueIs == NoValue # <<>> /\ NoValue # <<"false">> /\ <<>> \in Token /\ <<"false">> \in Token
<1>1. <<>> \in Seq(Atoms) /\ <<"false">> \in Seq(Atoms)
  BY AtomsAssumption
<1> QED  BY <1>1, FlagsAssumption DEF Token

\* _last_value, of a flag that takes a value.
LEMMA ValueIs ==
    ASSUME NEW v \in DOMAIN Verbs, NEW fs \in Seq(FlagsOf(v)), NEW n, n \in DOMAIN Flags => Flags[n].value
    PROVE  /\ LastValue(fs, n) = NoValue <=> Heeded(fs, n) = <<>>
           /\ LastValue(fs, n) # NoValue =>
                 /\ LastValue(fs, n) = Heeded(fs, n) /\ Heeded(fs, n) \in Token
                 /\ [name |-> n, value |-> Heeded(fs, n)] \in FlagsOf(v)
<1>1. CASE At(fs, n) = {}
  BY <1>1 DEF LastValue, Heeded
<1>2. CASE At(fs, n) # {}
  <2>1. PICK f : f = fs[Max(At(fs, n))]
    OBVIOUS
  <2>2. f \in FlagsOf(v) /\ f.name = n /\ Heeded(fs, n) = f.value
    BY <1>2, <2>1, LastOf
  <2>3. n \in Verbs[v].flags /\ f.value \in Values(n) /\ f = [name |-> n, value |-> f.value]
    BY <2>2 DEF FlagsOf
  <2>4. f.value \in Token
    BY <2>3, VerbsAssumption DEF Values
  <2>5. LastValue(fs, n) = IF f.value = <<>> THEN NoValue ELSE f.value
    BY <1>2, <2>1 DEF LastValue
  <2>6. f.value # NoValue
    BY <2>4, FlagsAssumption
  <2> QED  BY <2>2, <2>3, <2>4, <2>5, <2>6, NoValueIs
<1> QED  BY <1>1, <1>2

\* _is_set, of one that takes none.
LEMMA SetIs ==
    ASSUME NEW v \in DOMAIN Verbs, NEW fs \in Seq(FlagsOf(v)), NEW n, n \in DOMAIN Flags => ~Flags[n].value
    PROVE  IsSet(fs, n) <=> Turned(fs, n)
<1>1. CASE At(fs, n) = {}
  BY <1>1 DEF IsSet, Turned, Heeded
<1>2. CASE At(fs, n) # {}
  <2>1. PICK f : f = fs[Max(At(fs, n))]
    OBVIOUS
  <2>2. f \in FlagsOf(v) /\ f.name = n /\ Heeded(fs, n) = f.value
    BY <1>2, <2>1, LastOf
  <2>3. n \in Verbs[v].flags /\ f.value \in Values(n)
    BY <2>2 DEF FlagsOf
  <2>4. f.value \in Range(Booleans) \union {NoValue}
    BY <2>3, VerbsAssumption DEF Values
  <2>5. f.value # <<>>
    <3>1. \A w \in Range(Booleans) : w \in {<<"true">>, <<"false">>}
      BY BooleansAssumption DEF Range
    <3>2. <<"true">> # <<>> /\ <<"false">> # <<>>
      OBVIOUS
    <3> QED  BY <2>4, <3>1, <3>2, NoValueIs
  <2> QED  BY <1>2, <2>1, <2>2, <2>5 DEF IsSet, Turned
<1> QED  BY <1>1, <1>2

-----------------------------------------------------------------------------
(* get: the resources that are exported.                                   *)

\* Every type is among the kinds, and they are nothing else.
LEMMA KindsAre ==
    ASSUME NEW ps \in Seq(Token), \A i \in 1..Len(ps) : ps[i] # <<>>
    PROVE  /\ Kinds(ps) \in Seq(Atoms)
           /\ \A i \in 1..Len(ps) : \E k \in 1..Len(Kinds(ps)) : Kinds(ps)[k] = ps[i][1]
           /\ \A k \in 1..Len(Kinds(ps)) : \E i \in 1..Len(ps) : Kinds(ps)[k] = ps[i][1]
<1> DEFINE n == Len(ps)
           is == [i \in DOMAIN ps |-> i]
           S == {i \in DOMAIN ps : \A j \in 1..(i - 1) : ps[j][1] # ps[i][1]}
           u == Those(is, S)
<1>1. n \in Nat /\ DOMAIN ps = 1..n /\ \A i \in 1..n : ps[i][1] \in Atoms
  BY DEF Token
<1>2. is \in Seq(1..n) /\ Len(is) = n /\ \A i \in 1..n : is[i] = i
  BY <1>1
<1> HIDE DEF is
<1>3. /\ u \in Seq(1..n)
      /\ \E h : /\ Picks(h, u, is)
                /\ \A j \in 1..Len(is) : is[j] \in S => \E i \in 1..Len(u) : h[i] = j
  <2> HIDE DEF S
  <2> QED  BY <1>2, ThosePick
<1> HIDE DEF u
<1>4. \A j \in S : \E k \in 1..Len(u) : u[k] = j
  <2>1. PICK h : /\ Picks(h, u, is)
                 /\ \A j \in 1..Len(is) : is[j] \in S => \E i \in 1..Len(u) : h[i] = j
    BY <1>3
  <2> SUFFICES ASSUME NEW j \in S PROVE \E k \in 1..Len(u) : u[k] = j
    OBVIOUS
  <2>2. PICK k \in 1..Len(u) : h[k] = j
    <3>1. j \in 1..Len(is) /\ is[j] = j
      BY <1>1, <1>2
    <3> QED  BY <2>1, <3>1
  <2>3. u[k] = is[h[k]] /\ h[k] \in 1..n
    BY <1>2, <2>1, <2>2 DEF Picks
  <2> QED  BY <1>2, <2>2, <2>3
<1>5. /\ Kinds(ps) = [k \in 1..Len(u) |-> ps[u[k]][1]]
      /\ \A k \in 1..Len(u) : u[k] \in 1..n
  <2>1. DOMAIN u = 1..Len(u) /\ \A k \in 1..Len(u) : u[k] \in 1..n
    BY <1>3
  <2> QED  BY <2>1 DEF Kinds, u, S, is
<1>6. Kinds(ps) \in Seq(Atoms) /\ Len(Kinds(ps)) = Len(u)
  BY <1>1, <1>3, <1>5
<1>7. ASSUME NEW i \in 1..n PROVE \E k \in 1..Len(u) : ps[u[k]][1] = ps[i][1]
  <2> DEFINE I == {j \in 1..n : ps[j][1] = ps[i][1]}
             m == Min(I)
  <2>1. I \in SUBSET (1..n) /\ I # {}
    OBVIOUS
  <2>2. m \in I /\ \A j \in I : m <= j
    <3> HIDE DEF I
    <3> QED  BY <1>1, <2>1, MinIs
  <2> HIDE DEF m
  <2>3. m \in S
    BY <1>1, <2>2
  <2>4. PICK k \in 1..Len(u) : u[k] = m
    BY <1>4, <2>3
  <2> QED  BY <2>2, <2>4
<1>8. \A k \in 1..Len(u) : Kinds(ps)[k] = ps[u[k]][1] /\ u[k] \in 1..n
  BY <1>5
<1> HIDE DEF S
<1>9. \A i \in 1..n : \E k \in 1..Len(Kinds(ps)) : Kinds(ps)[k] = ps[i][1]
  <2> SUFFICES ASSUME NEW i \in 1..n PROVE \E k \in 1..Len(Kinds(ps)) : Kinds(ps)[k] = ps[i][1]
    OBVIOUS
  <2>1. PICK k \in 1..Len(u) : ps[u[k]][1] = ps[i][1]
    BY <1>7
  <2> QED  BY <1>6, <1>8, <2>1
<1>10. \A k \in 1..Len(Kinds(ps)) : \E i \in 1..n : Kinds(ps)[k] = ps[i][1]
  BY <1>6, <1>8
<1> QED  BY <1>6, <1>9, <1>10

LEMMA CommaListIs ==
    ASSUME NEW ks \in Seq(Atoms), ks # <<>>, Comma \in Atoms
    PROVE  /\ CommaList(ks) \in Token
           /\ \A k \in 1..Len(ks) : ks[k] \in TypesIn(CommaList(ks))
           /\ \A i \in 1..Len(CommaList(ks)) :
                 CommaList(ks)[i] = Comma \/ \E k \in 1..Len(ks) : CommaList(ks)[i] = ks[k]
<1> DEFINE n == Len(ks)
           c == CommaList(ks)
<1>1. n \in Nat /\ n > 0 /\ \A k \in 1..n : ks[k] \in Atoms
  OBVIOUS
<1>2. ASSUME NEW i \in 1..(2 * n - 1)
      PROVE  (IF i % 2 = 1 THEN ks[(i + 1) \div 2] ELSE Comma) = Comma \/ (i % 2 = 1 /\ (i + 1) \div 2 \in 1..n)
  <2>1. i % 2 = 1 => (i + 1) \div 2 \in 1..n
    BY <1>1
  <2> QED  BY <2>1
<1>3. c = [i \in 1..(2 * n - 1) |-> IF i % 2 = 1 THEN ks[(i + 1) \div 2] ELSE Comma]
  BY DEF CommaList
<1>4. c \in Seq(Atoms) /\ Len(c) = 2 * n - 1 /\ DOMAIN c = 1..(2 * n - 1)
  <2>1. 2 * n - 1 \in Nat
    BY <1>1
  <2>2. \A i \in 1..(2 * n - 1) : c[i] \in Atoms
    BY <1>1, <1>2, <1>3
  <2> QED  BY <1>3, <2>1, <2>2
<1> HIDE DEF c
<1>5. \A i \in 1..Len(c) : c[i] = Comma \/ \E k \in 1..n : c[i] = ks[k]
  BY <1>2, <1>3, <1>4
<1>6. ASSUME NEW k \in 1..n PROVE ks[k] \in TypesIn(c)
  <2> DEFINE i == 2 * k - 1
  <2>1. i \in 1..(2 * n - 1) /\ i % 2 = 1 /\ (i + 1) \div 2 = k
    BY <1>1
  <2>2. c[i] = ks[k]
    BY <1>3, <2>1
  <2>3. i = 1 \/ c[i - 1] = Comma
    <3>1. i = 1 \/ (i - 1 \in 1..(2 * n - 1) /\ (i - 1) % 2 = 0)
      BY <1>1
    <3> QED  BY <1>3, <3>1
  <2> HIDE DEF i
  <2> QED  BY <1>4, <2>1, <2>2, <2>3 DEF TypesIn
<1> QED  BY <1>4, <1>5, <1>6 DEF c, Token

Get == <<"get">>

\* What the export lists are at least the types that kubectl reads by the
\* command's own positionals.
LEMMA ExportCovers ==
    ASSUME NEW ps \in Seq(Token), NEW all \in BOOLEAN, ExportResources(ps, all) # None,
           NEW fs, NEW gs, NEW d,
           all <=> Turned(fs, "all-namespaces"), all <=> Turned(gs, "all-namespaces"),
           Heeded(gs, "selector") = Heeded(fs, "selector"),
           InNamespace(fs, d) \subseteq InNamespace(gs, d)
    PROVE  GetSelects(ps, fs, d) \subseteq GetSelects(<<ExportResources(ps, all)>>, gs, d)
<1> DEFINE r == ExportResources(ps, all)
           there == InNamespace(gs, d)
           named == Turned(fs, "all-namespaces") \/ Heeded(fs, "selector") # <<>>
<1>1. /\ <<r>> # <<>> /\ Len(<<r>>) = 1 /\ DOMAIN <<r>> = {1} /\ <<r>>[1] = r
      /\ DOMAIN ps = 1..Len(ps) /\ Len(ps) \in Nat
  OBVIOUS
<1>2. ps # <<>> /\ 1 \in DOMAIN ps
  BY DEF ExportResources
<1>3. Selected(fs, InNamespace(fs, d)) \subseteq Selected(gs, there)
  BY DEF Selected
<1> SUFFICES ASSUME NEW o \in GetSelects(ps, fs, d) PROVE o \in GetSelects(<<r>>, gs, d)
  OBVIOUS
<1>4. CASE ~HasSlash(ps[1])
  <2>1. r = ps[1]
    BY <1>2, <1>4 DEF ExportResources
  <2>2. ~\E i \in DOMAIN ps : HasSlash(ps[i])
    <3>1. ~TypeAndName(ps[1])
      BY <1>2, <1>4 DEF TypeAndName, HasSlash, Contains
    <3> QED  BY <1>2, <3>1 DEF GetSelects
  <2>3. o \in Selected(gs, there) /\ o.type \in Types(ps[1])
    <3>1. CASE Len(ps) = 1
      BY <1>2, <1>3, <2>2, <3>1 DEF GetSelects
    <3>2. CASE Len(ps) # 1
      <4>1. ~named /\ o \in InNamespace(fs, d) /\ o.type \in Types(ps[1])
        BY <1>2, <2>2, <3>2 DEF GetSelects
      <4> QED  BY <4>1 DEF Selected
    <3> QED  BY <3>1, <3>2
  <2> QED  BY <1>1, <1>4, <2>1, <2>3 DEF GetSelects
<1>5. CASE HasSlash(ps[1])
  <2>1. /\ ~named /\ \A i \in DOMAIN ps : TypeAndName(ps[i])
        /\ o \in InNamespace(fs, d) /\ \E i \in DOMAIN ps : ps[i] = <<o.type, "/", o.name>>
    BY <1>2, <1>5 DEF GetSelects
  <2>2. CASE Len(ps) = 1
    <3>1. r = ps[1] /\ DOMAIN ps = {1}
      BY <1>1, <1>2, <1>5, <2>1, <2>2 DEF ExportResources
    <3> QED  BY <1>1, <1>5, <2>1, <3>1 DEF GetSelects
  <2>3. CASE Len(ps) # 1
    <3>1. r = CommaList(Kinds(ps))
      BY <1>2, <1>5, <2>3 DEF ExportResources
    <3>2. \A i \in 1..Len(ps) : ps[i] # <<>> /\ ps[i][1] # "/"
      BY <1>1, <2>1 DEF TypeAndName
    <3>3. /\ Kinds(ps) \in Seq(Atoms)
          /\ \A i \in 1..Len(ps) : \E k \in 1..Len(Kinds(ps)) : Kinds(ps)[k] = ps[i][1]
          /\ \A k \in 1..Len(Kinds(ps)) : \E i \in 1..Len(ps) : Kinds(ps)[k] = ps[i][1]
      BY <3>2, KindsAre
    <3>4. Kinds(ps) # <<>>
      BY <1>1, <1>2, <3>3
    <3>5. /\ \A k \in 1..Len(Kinds(ps)) : Kinds(ps)[k] \in TypesIn(r)
          /\ \A i \in 1..Len(r) : r[i] = Comma \/ \E k \in 1..Len(Kinds(ps)) : r[i] = Kinds(ps)[k]
      <4>1. Comma \in Atoms
        BY TaskAssumption
      <4> QED  BY <3>1, <3>3, <3>4, <4>1, CommaListIs
    <3>6. ~HasSlash(r)
      <4>1. Comma # "/"
        BY Zenon DEF Comma
      <4>2. \A k \in 1..Len(Kinds(ps)) : Kinds(ps)[k] # "/"
        BY <3>2, <3>3
      <4>3. \A i \in 1..Len(r) : r[i] # "/"
        BY <3>5, <4>1, <4>2
      <4> QED  BY <4>3 DEF HasSlash, Contains
    <3>7. o.type \in Types(r)
      <4>1. PICK i \in DOMAIN ps : ps[i] = <<o.type, "/", o.name>>
        BY <2>1
      <4>2. ps[i][1] = o.type /\ i \in 1..Len(ps)
        BY <1>1, <4>1
      <4> QED  BY <3>3, <3>5, <4>2 DEF Types
    <3>8. o \in Selected(gs, there)
      BY <2>1 DEF Selected
    <3> QED  BY <1>1, <3>6, <3>7, <3>8 DEF GetSelects
  <2> QED  BY <2>2, <2>3
<1> QED  BY <1>4, <1>5

\* What a task writes is what _render writes.
LEMMA WrittenIs ==
    ASSUME NEW n
    PROVE  /\ Render([name |-> n, value |-> NoValue]) = Flag(n)
           /\ \A w \in Token : Render([name |-> n, value |-> w]) = FlagIs(n, w)
<1>1. Render([name |-> n, value |-> NoValue]) = Flag(n)
  <2> DEFINE f == [name |-> n, value |-> NoValue]
  <2>1. Render(f) = <<"-", "-", n>>
    BY DEF Render
  <2> QED  BY <2>1 DEF Flag
<1>2. ASSUME NEW w \in Token PROVE Render([name |-> n, value |-> w]) = FlagIs(n, w)
  <2> DEFINE f == [name |-> n, value |-> w]
  <2>1. f.name = n /\ f.value = w /\ w # NoValue
    BY FlagsAssumption
  <2> HIDE DEF f
  <2>2. Render(f) = <<"-", "-", n>> \o (<<"=">> \o w)
    BY <2>1 DEF Render
  <2> QED  BY <2>2 DEF FlagIs, Flag, f
<1> QED  BY <1>1, <1>2

LEMMA SameNamespace ==
    ASSUME NEW fs, NEW gs, NEW d,
           Turned(fs, "all-namespaces") => Turned(gs, "all-namespaces"),
           ~Turned(fs, "all-namespaces") => Heeded(gs, "namespace") = Heeded(fs, "namespace")
    PROVE  InNamespace(fs, d) \subseteq InNamespace(gs, d)
BY DEF InNamespace

LEMMA ResourcesAre ==
    ASSUME NEW ps \in Seq(Token), NEW all, ExportResources(ps, all) # None
    PROVE  ExportResources(ps, all) \in Token
<1>1. ps # <<>> /\ ps[1] \in Token /\ DOMAIN ps = 1..Len(ps)
  BY DEF ExportResources
<1>2. CASE ExportResources(ps, all) # ps[1]
  <2>1. /\ ExportResources(ps, all) = CommaList(Kinds(ps))
        /\ \A i \in 1..Len(ps) : HasSlash(ps[i])
    BY <1>1, <1>2 DEF ExportResources
  <2>2. \A i \in 1..Len(ps) : ps[i] # <<>>
    BY <2>1 DEF HasSlash, Contains
  <2>3. /\ Kinds(ps) \in Seq(Atoms)
        /\ \A i \in 1..Len(ps) : \E k \in 1..Len(Kinds(ps)) : Kinds(ps)[k] = ps[i][1]
    BY <2>2, KindsAre
  <2>4. Kinds(ps) # <<>>
    BY <1>1, <2>3
  <2>5. Comma \in Atoms
    BY TaskAssumption
  <2> QED  BY <2>1, <2>3, <2>4, <2>5, CommaListIs
<1> QED  BY <1>1, <1>2

\* The argv of the export task: the resources, and flags that mean at least
\* what the command's do.
LEMMA ExportIs ==
    ASSUME NEW ps \in Seq(Token), NEW fs \in Seq(FlagsOf(Get)), Get \in DOMAIN Verbs,
           ExportArgv(ps, fs) # None
    PROVE  LET all == IsSet(fs, "all-namespaces")
               r == ExportResources(ps, all)
           IN  /\ r # None /\ r \in Token /\ ~IsLong(r)
               /\ ExportArgv(ps, fs)[1] = Get
               /\ \E gs \in Seq(FlagsOf(Get)) :
                     /\ Tail(ExportArgv(ps, fs)) = <<r>> \o Rendered(gs)
                     /\ all <=> Turned(gs, "all-namespaces")
                     /\ ~all => Heeded(gs, "namespace") = Heeded(fs, "namespace")
                     /\ Heeded(gs, "selector") = Heeded(fs, "selector")
<1> DEFINE all == IsSet(fs, "all-namespaces")
           r == ExportResources(ps, all)
           namespace == LastValue(fs, "namespace")
           selector == LastValue(fs, "selector")
           a == ExportArgv(ps, fs)
<1>1. /\ r # None /\ (all \/ namespace # NoValue)
      /\ a = BuildExportArgv(r, IF all THEN NoValue ELSE namespace, selector)
  BY DEF ExportArgv
<1>2. /\ IsPlain(r)
      /\ a = <<Get, r,
               IF all THEN Flag("all-namespaces") ELSE FlagIs("namespace", namespace),
               FlagIs("output", <<"json">>)>>
             \o (IF selector = NoValue THEN <<>> ELSE <<FlagIs("selector", selector)>>)
  BY <1>1 DEF BuildExportArgv, Get
<1>3. r \in Token /\ ~IsLong(r)
  <2>1. r[1] # "-"
    BY <1>2 DEF IsPlain
  <2> QED  BY <1>1, <2>1, ResourcesAre DEF IsLong
<1> HIDE DEF r, a
<1>4. /\ {"namespace", "all-namespaces", "selector", "output"} \subseteq Verbs[Get].flags
      /\ \A n \in {"namespace", "selector", "output"} : n \in DOMAIN Flags => Flags[n].value
      /\ "all-namespaces" \in DOMAIN Flags => ~Flags["all-namespaces"].value
      /\ "json" \in Atoms /\ ShellSuffix # "json"
  BY TaskAssumption DEF Get
<1>5. Verbs[Get].flags \subseteq DOMAIN Flags
  BY VerbsAssumption
<1> DEFINE nf == [name |-> IF all THEN "all-namespaces" ELSE "namespace",
                  value |-> IF all THEN NoValue ELSE namespace]
           of == [name |-> "output", value |-> <<"json">>]
           sf == [name |-> "selector", value |-> selector]
<1>6. nf \in FlagsOf(Get) /\ Render(nf) = IF all THEN Flag("all-namespaces") ELSE FlagIs("namespace", namespace)
  <2>1. CASE all
    <3>1. [name |-> "all-namespaces", value |-> NoValue] \in FlagsOf(Get)
      BY <1>4, <1>5 DEF FlagsOf, Values
    <3> QED  BY <2>1, <3>1, WrittenIs
  <2>2. CASE ~all
    <3>1. /\ namespace \in Token /\ namespace = Heeded(fs, "namespace")
          /\ [name |-> "namespace", value |-> namespace] \in FlagsOf(Get)
      BY <1>1, <1>4, <2>2, ValueIs
    <3> QED  BY <2>2, <3>1, WrittenIs
  <2> QED  BY <2>1, <2>2
<1>7. of \in FlagsOf(Get) /\ Render(of) = FlagIs("output", <<"json">>)
  <2>1. <<"json">> \in Token /\ Plain(<<"json">>)
    BY <1>4 DEF Token, Plain
  <2> QED  BY <1>4, <1>5, <2>1, WrittenIs DEF FlagsOf, Values
<1>8. selector # NoValue => /\ sf \in FlagsOf(Get) /\ Render(sf) = FlagIs("selector", selector)
                            /\ selector = Heeded(fs, "selector")
  BY <1>4, ValueIs, WrittenIs
<1>9. selector = NoValue => Heeded(fs, "selector") = <<>>
  BY <1>4, ValueIs
<1>10. ~all => namespace = Heeded(fs, "namespace")
  BY <1>1, <1>4, ValueIs
<1> DEFINE gs == IF selector = NoValue THEN <<nf, of>> ELSE <<nf, of, sf>>
<1>11. /\ nf.name = (IF all THEN "all-namespaces" ELSE "namespace")
       /\ nf.value = (IF all THEN NoValue ELSE namespace)
       /\ of.name = "output" /\ sf.name = "selector" /\ sf.value = selector
  OBVIOUS
<1> HIDE DEF nf, of, sf, namespace, selector
<1>12. /\ gs \in Seq(FlagsOf(Get)) /\ gs[1] = nf /\ gs[2] = of
       /\ DOMAIN gs = IF selector = NoValue THEN {1, 2} ELSE {1, 2, 3}
       /\ Len(gs) = IF selector = NoValue THEN 2 ELSE 3
       /\ selector # NoValue => gs[3] = sf
  BY <1>6, <1>7, <1>8
<1> HIDE DEF gs
<1>13. a[1] = Get /\ Tail(a) = <<r>> \o Rendered(gs)
  <2> DEFINE p == <<Get, r, Render(nf), Render(of)>>
             more == IF selector = NoValue THEN <<>> ELSE <<Render(sf)>>
             w == Rendered(gs)
             q == <<r>> \o w
  <2>1. a = p \o more
    BY <1>2, <1>6, <1>7, <1>8 DEF namespace, selector
  <2>2. /\ Get \in Token /\ Render(nf) \in Token /\ Render(of) \in Token
        /\ selector # NoValue => Render(sf) \in Token
    BY <1>6, <1>7, <1>8, VerbsAssumption, RenderIs, Tokens
  <2>3. /\ p \in Seq(Token) /\ Len(p) = 4
        /\ p[1] = Get /\ p[2] = r /\ p[3] = Render(nf) /\ p[4] = Render(of)
    BY <1>3, <2>2
  <2>4. /\ more \in Seq(Token) /\ Len(more) = IF selector = NoValue THEN 0 ELSE 1
        /\ selector # NoValue => more[1] = Render(sf)
    BY <2>2
  <2>5. Len(gs) = (IF selector = NoValue THEN 2 ELSE 3) /\ DOMAIN gs = 1..Len(gs)
    <3>1. gs \in Seq(FlagsOf(Get))
      BY <1>12
    <3>2. DOMAIN gs = 1..Len(gs)
      BY <3>1
    <3> QED  BY <1>12, <3>2
  <2>6. /\ w \in Seq(Token) /\ Len(w) = Len(gs)
        /\ \A i \in 1..Len(gs) : w[i] = Render(gs[i])
    BY <1>12, RenderedIs, Tokens
  <2> HIDE DEF p, more, w
  <2>7. /\ q \in Seq(Token) /\ Len(q) = 1 + Len(w) /\ q[1] = r
        /\ \A i \in 1..Len(w) : q[1 + i] = w[i]
    BY <1>3, <2>6
  <2>8. /\ a \in Seq(Token) /\ Len(a) = 4 + Len(more)
        /\ \A i \in 1..4 : a[i] = p[i]
        /\ \A i \in 1..Len(more) : a[4 + i] = more[i]
    <3>1. p \in Seq(Token) /\ more \in Seq(Token)
      BY <2>3, <2>4
    <3>2. /\ p \o more \in Seq(Token) /\ Len(p \o more) = Len(p) + Len(more)
          /\ \A i \in 1..Len(p) : (p \o more)[i] = p[i]
          /\ \A i \in 1..Len(more) : (p \o more)[Len(p) + i] = more[i]
      BY <3>1
    <3> QED  BY <2>1, <2>3, <3>2
  <2> HIDE DEF q
  <2>9. /\ a[1] = Get /\ a[2] = q[1] /\ a[3] = q[2] /\ a[4] = q[3]
        /\ Len(a) = 1 + Len(q) /\ Len(q) = IF selector = NoValue THEN 3 ELSE 4
    <3>1. q[1 + 1] = w[1] /\ q[1 + 2] = w[2] /\ Len(q) = IF selector = NoValue THEN 3 ELSE 4
      BY <2>5, <2>6, <2>7
    <3>2. w[1] = Render(nf) /\ w[2] = Render(of)
      BY <1>12, <2>5, <2>6
    <3>3. a[1] = p[1] /\ a[2] = p[2] /\ a[3] = p[3] /\ a[4] = p[4]
      BY <2>8
    <3>4. Len(a) = 1 + Len(q)
      BY <2>4, <2>8, <3>1
    <3>5. q[1] = r /\ q[2] = Render(nf) /\ q[3] = Render(of)
      BY <2>7, <3>1, <3>2
    <3>6. a[1] = Get /\ a[2] = r /\ a[3] = Render(nf) /\ a[4] = Render(of)
      BY <2>3, <3>3
    <3> QED  BY <3>1, <3>4, <3>5, <3>6
  <2>10. selector # NoValue => a[5] = q[4]
    <3> SUFFICES ASSUME selector # NoValue PROVE a[5] = q[4]
      OBVIOUS
    <3>1. q[1 + 3] = w[3] /\ w[3] = Render(sf)
      BY <1>12, <2>5, <2>6, <2>7
    <3>2. a[4 + 1] = more[1]
      BY <2>4, <2>8
    <3> QED  BY <2>4, <3>1, <3>2
  <2>11. Tail(a) = q
    <3>1. /\ Tail(a) \in Seq(Token) /\ Len(Tail(a)) = Len(q)
          /\ \A i \in 1..Len(q) : Tail(a)[i] = a[1 + i]
      <4>1. Len(q) \in Nat /\ Len(a) = Len(q) + 1 /\ a \in Seq(Token)
        BY <2>7, <2>8, <2>9
      <4> QED  BY <4>1
    <3>2. \A i \in 1..Len(q) : a[1 + i] = q[i]
      BY <2>9, <2>10
    <3>3. \A i \in 1..Len(q) : Tail(a)[i] = q[i]
      BY <3>1, <3>2
    <3> QED  BY <2>7, <3>1, <3>3
  <2> QED  BY <2>9, <2>11 DEF q, w
<1>14. all <=> Turned(gs, "all-namespaces")
  <2>1. CASE all
    <3>1. 1 \in DOMAIN gs /\ gs[1] = nf /\ \A j \in DOMAIN gs : gs[j].name = gs[1].name => j = 1
      BY <1>11, <1>12, <2>1
    <3>2. Heeded(gs, gs[1].name) = gs[1].value
      BY <1>12, <3>1, HeededOnce
    <3>3. Heeded(gs, "all-namespaces") = NoValue
      BY <1>11, <2>1, <3>1, <3>2
    <3> QED  BY <2>1, <3>3, NoValueIs DEF Turned
  <2>2. CASE ~all
    <3>1. Heeded(gs, "all-namespaces") = <<>>
      BY <1>11, <1>12, <2>2, NotHeeded
    <3> QED  BY <2>2, <3>1 DEF Turned
  <2> QED  BY <2>1, <2>2
<1>15. ASSUME ~all PROVE Heeded(gs, "namespace") = Heeded(fs, "namespace")
  <2>1. 1 \in DOMAIN gs /\ gs[1] = nf /\ \A j \in DOMAIN gs : gs[j].name = gs[1].name => j = 1
    BY <1>11, <1>12, <1>15
  <2>2. Heeded(gs, gs[1].name) = gs[1].value
    BY <1>12, <2>1, HeededOnce
  <2> QED  BY <1>10, <1>11, <1>15, <2>1, <2>2
<1>16. Heeded(gs, "selector") = Heeded(fs, "selector")
  <2>1. CASE selector = NoValue
    BY <1>9, <1>11, <1>12, <2>1, NotHeeded
  <2>2. CASE selector # NoValue
    <3>1. 3 \in DOMAIN gs /\ gs[3] = sf /\ \A j \in DOMAIN gs : gs[j].name = gs[3].name => j = 3
      BY <1>11, <1>12, <2>2
    <3>2. Heeded(gs, gs[3].name) = gs[3].value
      BY <1>12, <3>1, HeededOnce
    <3> QED  BY <1>8, <1>11, <2>2, <3>1, <3>2
  <2> QED  BY <2>1, <2>2
<1> QED  BY <1>1, <1>3, <1>12, <1>13, <1>14, <1>15, <1>16 DEF r, a

\* So the export selects at least what the command does.
LEMMA GetCovers ==
    ASSUME NEW ps \in Seq(Token), NEW fs \in Seq(FlagsOf(Get)), Get \in DOMAIN Verbs,
           ExportArgv(ps, fs) # None, NEW d
    PROVE  LET rest1 == Tail(ExportArgv(ps, fs))
           IN  /\ ExportArgv(ps, fs)[1] = Get
               /\ GetSelects(ps, fs, d) \subseteq GetSelects(SplitPositionals(rest1), SplitFlags(rest1), d)
<1> DEFINE a == ExportArgv(ps, fs)
           all == IsSet(fs, "all-namespaces")
           r == ExportResources(ps, all)
<1>1. /\ r # None /\ r \in Token /\ ~IsLong(r) /\ a[1] = Get
      /\ \E gs \in Seq(FlagsOf(Get)) :
            /\ Tail(a) = <<r>> \o Rendered(gs)
            /\ all <=> Turned(gs, "all-namespaces")
            /\ ~all => Heeded(gs, "namespace") = Heeded(fs, "namespace")
            /\ Heeded(gs, "selector") = Heeded(fs, "selector")
  BY ExportIs
<1>2. PICK gs \in Seq(FlagsOf(Get)) :
            /\ Tail(a) = <<r>> \o Rendered(gs)
            /\ all <=> Turned(gs, "all-namespaces")
            /\ ~all => Heeded(gs, "namespace") = Heeded(fs, "namespace")
            /\ Heeded(gs, "selector") = Heeded(fs, "selector")
  BY <1>1
<1>3. all <=> Turned(fs, "all-namespaces")
  <2>1. "all-namespaces" \in DOMAIN Flags => ~Flags["all-namespaces"].value
    BY TaskAssumption
  <2> QED  BY <2>1, SetIs
<1>4. InNamespace(fs, d) \subseteq InNamespace(gs, d)
  BY <1>2, <1>3, SameNamespace
<1>5. all \in BOOLEAN
  BY DEF IsSet
<1> HIDE DEF all
<1>6. GetSelects(ps, fs, d) \subseteq GetSelects(<<r>>, gs, d)
  BY <1>1, <1>2, <1>3, <1>4, <1>5, ExportCovers
<1>7. SplitPositionals(Tail(a)) = <<r>> /\ SplitFlags(Tail(a)) = gs
  <2>1. <<r>> \in Seq(Token) /\ \A i \in 1..Len(<<r>>) : ~IsLong(<<r>>[i])
    BY <1>1
  <2> HIDE DEF r
  <2> QED  BY <1>2, <2>1, Splits
<1> QED  BY <1>1, <1>6, <1>7 DEF all

-----------------------------------------------------------------------------
(* logs.                                                                   *)

\* Of five tokens, the second or the others.
LEMMA ThoseOfFive ==
    ASSUME NEW W, NEW t1 \in W, NEW t2 \in W, NEW t3 \in W, NEW t4 \in W, NEW t5 \in W, NEW S
    PROVE  LET s == <<t1, t2, t3, t4, t5>>
           IN  /\ t2 \in S /\ {t1, t3, t4, t5} \intersect S = {} => Those(s, S) = <<t2>>
               /\ t2 \notin S /\ {t1, t3, t4, t5} \subseteq S => Those(s, S) = <<t1, t3, t4, t5>>
<1> DEFINE s == <<t1, t2, t3, t4, t5>>
<1>1. /\ s \in Seq(W) /\ Len(s) = 5
      /\ s[1] = t1 /\ s[2] = t2 /\ s[3] = t3 /\ s[4] = t4 /\ s[5] = t5
  OBVIOUS
<1> HIDE DEF s
<1>2. PICK g : Takes(g, s, S, W)
  BY <1>1, ThoseIs
<1>3. /\ g[0] = <<>> /\ Those(s, S) = g[5]
      /\ g[1] = Take(g[0], t1, S) /\ g[2] = Take(g[1], t2, S) /\ g[3] = Take(g[2], t3, S)
      /\ g[4] = Take(g[3], t4, S) /\ g[5] = Take(g[4], t5, S)
  <2>1. g[0] = <<>> /\ Those(s, S) = g[5] /\ \A i \in 1..5 : g[i] = Take(g[i - 1], s[i], S)
    BY <1>1, <1>2 DEF Takes
  <2>2. /\ g[1] = Take(g[1 - 1], s[1], S) /\ g[2] = Take(g[2 - 1], s[2], S) /\ g[3] = Take(g[3 - 1], s[3], S)
        /\ g[4] = Take(g[4 - 1], s[4], S) /\ g[5] = Take(g[5 - 1], s[5], S)
    BY <2>1
  <2> QED  BY <1>1, <2>1, <2>2
<1>4. ASSUME t2 \in S, {t1, t3, t4, t5} \intersect S = {} PROVE Those(s, S) = <<t2>>
  <2>1. g[1] = <<>> /\ g[2] = Append(<<>>, t2) /\ g[3] = g[2] /\ g[4] = g[2] /\ g[5] = g[2]
    BY <1>3, <1>4 DEF Take
  <2>2. Append(<<>>, t2) = <<t2>>
    OBVIOUS
  <2> QED  BY <1>3, <2>1, <2>2
<1>5. ASSUME t2 \notin S, {t1, t3, t4, t5} \subseteq S PROVE Those(s, S) = <<t1, t3, t4, t5>>
  <2>1. /\ g[1] = Append(<<>>, t1) /\ g[2] = g[1] /\ g[3] = Append(g[2], t3)
        /\ g[4] = Append(g[3], t4) /\ g[5] = Append(g[4], t5)
    BY <1>3, <1>5 DEF Take
  <2>2. g[2] \in Seq(W) /\ Len(g[2]) = 1 /\ g[2][1] = t1
    BY <2>1
  <2>3. g[3] \in Seq(W) /\ Len(g[3]) = 2 /\ g[3][1] = t1 /\ g[3][2] = t3
    <3>1. /\ Append(g[2], t3) \in Seq(W) /\ Len(Append(g[2], t3)) = Len(g[2]) + 1
          /\ Append(g[2], t3)[Len(g[2]) + 1] = t3
          /\ \A i \in 1..Len(g[2]) : Append(g[2], t3)[i] = g[2][i]
      BY <2>2, AppendIs
    <3> QED  BY <2>1, <2>2, <3>1
  <2>4. g[4] \in Seq(W) /\ Len(g[4]) = 3 /\ g[4][1] = t1 /\ g[4][2] = t3 /\ g[4][3] = t4
    <3>1. /\ Append(g[3], t4) \in Seq(W) /\ Len(Append(g[3], t4)) = Len(g[3]) + 1
          /\ Append(g[3], t4)[Len(g[3]) + 1] = t4
          /\ \A i \in 1..Len(g[3]) : Append(g[3], t4)[i] = g[3][i]
      <4>1. g[3] \in Seq(W)
        BY <2>3
      <4> QED  BY <4>1, AppendIs
    <3> QED  BY <2>1, <2>3, <3>1
  <2>5. /\ g[5] \in Seq(W) /\ Len(g[5]) = 4
        /\ g[5][1] = t1 /\ g[5][2] = t3 /\ g[5][3] = t4 /\ g[5][4] = t5
    <3>1. /\ Append(g[4], t5) \in Seq(W) /\ Len(Append(g[4], t5)) = Len(g[4]) + 1
          /\ Append(g[4], t5)[Len(g[4]) + 1] = t5
          /\ \A i \in 1..Len(g[4]) : Append(g[4], t5)[i] = g[4][i]
      <4>1. g[4] \in Seq(W)
        BY <2>4
      <4> QED  BY <4>1, AppendIs
    <3> QED  BY <2>1, <2>4, <3>1
  <2>6. g[5] = <<t1, t3, t4, t5>>
    BY <2>5
  <2> QED  BY <1>3, <2>6
<1> QED  BY <1>4, <1>5 DEF s

\* A workload may come after the first flag.
LEMMA SplitsWorkload ==
    ASSUME NEW v \in DOMAIN Verbs, NEW w \in Token, ~IsLong(w),
           NEW f1 \in FlagsOf(v), NEW f2 \in FlagsOf(v), NEW f3 \in FlagsOf(v), NEW f4 \in FlagsOf(v)
    PROVE  LET q == <<Render(f1), w, Render(f2), Render(f3), Render(f4)>>
           IN  SplitPositionals(q) = <<w>> /\ SplitFlags(q) = <<f1, f2, f3, f4>>
<1> DEFINE r1 == Render(f1)
           r2 == Render(f2)
           r3 == Render(f3)
           r4 == Render(f4)
           q == <<r1, w, r2, r3, r4>>
           gs == <<f1, f2, f3, f4>>
           L == {t \in Range(q) : IsLong(t)}
           N == {t \in Range(q) : ~IsLong(t)}
<1>1. {r1, r2, r3, r4} \subseteq Token /\ \A t \in {r1, r2, r3, r4} : IsLong(t)
  BY RenderIs, Tokens
<1>2. gs \in Seq(FlagsOf(v)) /\ Rendered(gs) = <<r1, r2, r3, r4>>
  BY DEF Rendered
<1> HIDE DEF r1, r2, r3, r4
<1>3. Range(q) = {r1, w, r2, r3, r4}
  BY DEF Range
<1>4. /\ w \in N /\ {r1, r2, r3, r4} \intersect N = {}
      /\ w \notin L /\ {r1, r2, r3, r4} \subseteq L
  BY <1>1, <1>3
<1>5. Those(q, N) = <<w>> /\ Those(q, L) = <<r1, r2, r3, r4>>
  <2> HIDE DEF L, N
  <2>1. r1 \in Token /\ r2 \in Token /\ r3 \in Token /\ r4 \in Token
    BY <1>1
  <2>2. w \in N /\ {r1, r2, r3, r4} \intersect N = {} => Those(q, N) = <<w>>
    BY <2>1, ThoseOfFive
  <2>3. w \notin L /\ {r1, r2, r3, r4} \subseteq L => Those(q, L) = <<r1, r2, r3, r4>>
    BY <2>1, ThoseOfFive
  <2> QED  BY <1>4, <2>2, <2>3
<1>6. SplitPositionals(q) = <<w>>
  BY <1>5 DEF SplitPositionals
<1>7. SplitFlags(q) = gs
  <2> HIDE DEF gs
  <2>1. Those(q, L) = Rendered(gs)
    BY <1>2, <1>5
  <2> HIDE DEF q
  <2> QED  BY <1>2, <2>1, FlagsRead DEF SplitFlags
<1> QED  BY <1>6, <1>7 DEF r1, r2, r3, r4

\* The container the logs task is given, if any, and its since.
LogsContainer(ps, fs) ==
    IF IsSet(fs, "all-containers") THEN NoValue
    ELSE IF LastValue(fs, "container") # NoValue THEN LastValue(fs, "container")
    ELSE IF Len(ps) = 2 /\ ps[2] # <<>> THEN ps[2] ELSE NoValue
LogsSince(fs) == IF LastValue(fs, "since") = NoValue THEN <<"6h">> ELSE LastValue(fs, "since")

\* What the task must be able to do, and its argv.
LEMMA LogsArgvIs ==
    ASSUME NEW ps \in Seq(Token), NEW fs, LogsArgv(ps, fs) # None
    PROVE  LET namespace == LastValue(fs, "namespace")
               selector == LastValue(fs, "selector")
               container == LogsContainer(ps, fs)
           IN  /\ namespace # NoValue /\ ~IsSet(fs, "previous")
               /\ container # NoValue => IsLabel(container)
               /\ \/ selector # NoValue /\ (ps = <<>> \/ ps[1] = <<>>)
                  \/ selector = NoValue /\ ps # <<>> /\ IsPlain(ps[1])
               /\ LogsArgv(ps, fs) =
                    <<Logs, FlagIs("namespace", namespace),
                      IF selector # NoValue THEN FlagIs("selector", selector) ELSE ps[1],
                      IF container # NoValue THEN FlagIs("container", container) ELSE Flag("all-containers"),
                      FlagIs("since", LogsSince(fs)), FlagIs("tail", <<"all">>)>>
<1> DEFINE namespace == LastValue(fs, "namespace")
           selector == LastValue(fs, "selector")
           container == LogsContainer(ps, fs)
           workload == IF ps = <<>> THEN None ELSE ps[1]
<1>1. /\ namespace # NoValue /\ ~IsSet(fs, "previous")
      /\ LogsArgv(ps, fs) = BuildLogsArgv(namespace, selector, workload, container, LogsSince(fs))
  BY DEF LogsArgv, LogsContainer, LogsSince
<1> HIDE DEF namespace, selector, container
<1>2. /\ ~((selector = NoValue) = (workload = None))
      /\ workload # None => IsPlain(workload)
      /\ container # NoValue => IsLabel(container)
      /\ LogsArgv(ps, fs) =
           <<<<"logs">>, FlagIs("namespace", namespace),
             IF selector # NoValue THEN FlagIs("selector", selector) ELSE workload,
             IF container # NoValue THEN FlagIs("container", container) ELSE Flag("all-containers"),
             FlagIs("since", LogsSince(fs)), FlagIs("tail", <<"all">>)>>
  BY <1>1 DEF BuildLogsArgv
<1>3. \/ selector # NoValue /\ (ps = <<>> \/ ps[1] = <<>>)
      \/ selector = NoValue /\ ps # <<>> /\ IsPlain(ps[1])
  BY <1>2 DEF None
<1>4. selector = NoValue => workload = ps[1]
  BY <1>3
<1> QED  BY <1>1, <1>2, <1>3, <1>4 DEF Logs, namespace, selector, container

\* Its flags are the logs verb's.
LEMMA LogsFlagsAre ==
    ASSUME NEW ps \in Seq(Arguments), NEW fs \in Seq(FlagsOf(Logs)), Logs \in DOMAIN Verbs,
           LogsArgv(ps, fs) # None
    PROVE  LET namespace == LastValue(fs, "namespace")
               selector == LastValue(fs, "selector")
               container == LogsContainer(ps, fs)
           IN  /\ [name |-> "namespace", value |-> namespace] \in FlagsOf(Logs)
               /\ Render([name |-> "namespace", value |-> namespace]) = FlagIs("namespace", namespace)
               /\ selector # NoValue =>
                     /\ [name |-> "selector", value |-> selector] \in FlagsOf(Logs)
                     /\ Render([name |-> "selector", value |-> selector]) = FlagIs("selector", selector)
               /\ container # NoValue =>
                     /\ [name |-> "container", value |-> container] \in FlagsOf(Logs)
                     /\ Render([name |-> "container", value |-> container]) = FlagIs("container", container)
               /\ [name |-> "all-containers", value |-> NoValue] \in FlagsOf(Logs)
               /\ Render([name |-> "all-containers", value |-> NoValue]) = Flag("all-containers")
               /\ [name |-> "since", value |-> LogsSince(fs)] \in FlagsOf(Logs)
               /\ Render([name |-> "since", value |-> LogsSince(fs)]) = FlagIs("since", LogsSince(fs))
               /\ [name |-> "tail", value |-> <<"all">>] \in FlagsOf(Logs)
               /\ Render([name |-> "tail", value |-> <<"all">>]) = FlagIs("tail", <<"all">>)
<1> DEFINE namespace == LastValue(fs, "namespace")
           selector == LastValue(fs, "selector")
           container == LogsContainer(ps, fs)
<1>1. ps \in Seq(Token) /\ \A i \in 1..Len(ps) : ps[i] \in Token /\ Plain(ps[i])
  BY Tokens
<1>2. namespace # NoValue
  BY <1>1, LogsArgvIs
<1>3. /\ {"namespace", "selector", "container", "all-containers", "since", "tail"} \subseteq Verbs[Logs].flags
      /\ \A n \in {"namespace", "selector", "container", "since", "tail"} : n \in DOMAIN Flags => Flags[n].value
      /\ "all-containers" \in DOMAIN Flags => ~Flags["all-containers"].value
      /\ {"6h", "all"} \subseteq Atoms /\ ShellSuffix \notin {"6h", "all"}
  BY TaskAssumption, LogsAssumption DEF Logs
<1>4. Verbs[Logs].flags \subseteq DOMAIN Flags
  BY VerbsAssumption
<1>5. \A n \in {"namespace", "selector", "container", "since"} :
         LastValue(fs, n) # NoValue =>
            LastValue(fs, n) \in Token /\ [name |-> n, value |-> LastValue(fs, n)] \in FlagsOf(Logs)
  BY <1>3, ValueIs
<1>6. \A n \in {"container", "since", "tail"}, t \in Token :
         Plain(t) => [name |-> n, value |-> t] \in FlagsOf(Logs)
  BY <1>3, <1>4 DEF FlagsOf, Values
<1>7. /\ <<"6h">> \in Token /\ Plain(<<"6h">>)
      /\ <<"all">> \in Token /\ Plain(<<"all">>)
  BY <1>3 DEF Token, Plain
<1>8. container # NoValue => container \in Token /\ [name |-> "container", value |-> container] \in FlagsOf(Logs)
  <2> SUFFICES ASSUME container # NoValue
               PROVE  container \in Token /\ [name |-> "container", value |-> container] \in FlagsOf(Logs)
    OBVIOUS
  <2>1. CASE LastValue(fs, "container") # NoValue
    BY <1>5, <2>1 DEF LogsContainer
  <2>2. CASE LastValue(fs, "container") = NoValue
    <3>1. container = ps[2] /\ 2 \in 1..Len(ps)
      BY <2>2 DEF LogsContainer
    <3> QED  BY <1>1, <1>6, <3>1
  <2> QED  BY <2>1, <2>2
<1>9. LogsSince(fs) \in Token /\ [name |-> "since", value |-> LogsSince(fs)] \in FlagsOf(Logs)
  BY <1>5, <1>6, <1>7 DEF LogsSince
<1>10. [name |-> "all-containers", value |-> NoValue] \in FlagsOf(Logs)
  BY <1>3, <1>4 DEF FlagsOf, Values
<1>11. [name |-> "tail", value |-> <<"all">>] \in FlagsOf(Logs)
  BY <1>6, <1>7
<1> HIDE DEF namespace, selector, container
<1>12. /\ namespace \in Token /\ [name |-> "namespace", value |-> namespace] \in FlagsOf(Logs)
       /\ selector # NoValue => selector \in Token /\ [name |-> "selector", value |-> selector] \in FlagsOf(Logs)
  BY <1>2, <1>5 DEF namespace, selector
<1>13. /\ Render([name |-> "namespace", value |-> namespace]) = FlagIs("namespace", namespace)
       /\ selector # NoValue =>
             Render([name |-> "selector", value |-> selector]) = FlagIs("selector", selector)
       /\ container # NoValue =>
             Render([name |-> "container", value |-> container]) = FlagIs("container", container)
       /\ Render([name |-> "all-containers", value |-> NoValue]) = Flag("all-containers")
       /\ Render([name |-> "since", value |-> LogsSince(fs)]) = FlagIs("since", LogsSince(fs))
       /\ Render([name |-> "tail", value |-> <<"all">>]) = FlagIs("tail", <<"all">>)
  BY <1>7, <1>8, <1>9, <1>12, WrittenIs
<1> QED  BY <1>8, <1>9, <1>10, <1>11, <1>12, <1>13 DEF namespace, selector, container

\* What _split_normalised makes of it: the workload if there is one, and flags
\* that mean what the command's do.
LEMMA LogsIs ==
    ASSUME NEW ps \in Seq(Arguments), NEW fs \in Seq(FlagsOf(Logs)), Logs \in DOMAIN Verbs,
           LogsArgv(ps, fs) # None
    PROVE  LET selector == LastValue(fs, "selector")
               container == LogsContainer(ps, fs)
           IN  /\ LogsArgv(ps, fs)[1] = Logs
               /\ SplitPositionals(Tail(LogsArgv(ps, fs))) = IF selector # NoValue THEN <<>> ELSE <<ps[1]>>
               /\ \E gs \in Seq(FlagsOf(Logs)) :
                     /\ SplitFlags(Tail(LogsArgv(ps, fs))) = gs
                     /\ Heeded(gs, "namespace") = LastValue(fs, "namespace")
                     /\ Heeded(gs, "selector") = IF selector # NoValue THEN selector ELSE <<>>
                     /\ Heeded(gs, "container") = IF container # NoValue THEN container ELSE <<>>
                     /\ Turned(gs, "all-containers") <=> container = NoValue
                     /\ ~Turned(gs, "all-namespaces") /\ ~Turned(gs, "previous")
                     /\ Heeded(gs, "since") = LogsSince(fs)
<1> DEFINE namespace == LastValue(fs, "namespace")
           selector == LastValue(fs, "selector")
           container == LogsContainer(ps, fs)
           since == LogsSince(fs)
           nf == [name |-> "namespace", value |-> namespace]
           sf == [name |-> "selector", value |-> selector]
           cf == [name |-> IF container # NoValue THEN "container" ELSE "all-containers", value |-> container]
           tf == [name |-> "since", value |-> since]
           lf == [name |-> "tail", value |-> <<"all">>]
           a == LogsArgv(ps, fs)
<1>1. ps \in Seq(Token)
  BY Tokens
<1>2. /\ nf \in FlagsOf(Logs) /\ Render(nf) = FlagIs("namespace", namespace)
      /\ selector # NoValue => sf \in FlagsOf(Logs) /\ Render(sf) = FlagIs("selector", selector)
      /\ tf \in FlagsOf(Logs) /\ Render(tf) = FlagIs("since", since)
      /\ lf \in FlagsOf(Logs) /\ Render(lf) = FlagIs("tail", <<"all">>)
  BY LogsFlagsAre
<1>3. /\ cf \in FlagsOf(Logs)
      /\ Render(cf) = IF container # NoValue THEN FlagIs("container", container) ELSE Flag("all-containers")
  <2>1. CASE container # NoValue
    BY <2>1, LogsFlagsAre
  <2>2. CASE container = NoValue
    BY <2>2, LogsFlagsAre
  <2> QED  BY <2>1, <2>2
<1>4. /\ nf.name = "namespace" /\ nf.value = namespace /\ sf.name = "selector" /\ sf.value = selector
      /\ cf.name = (IF container # NoValue THEN "container" ELSE "all-containers") /\ cf.value = container
      /\ tf.name = "since" /\ tf.value = since /\ lf.name = "tail"
  OBVIOUS
<1>5. /\ \/ selector # NoValue
         \/ selector = NoValue /\ ps # <<>> /\ IsPlain(ps[1])
      /\ a = <<Logs, Render(nf), IF selector # NoValue THEN Render(sf) ELSE ps[1], Render(cf), Render(tf), Render(lf)>>
  BY <1>1, <1>2, <1>3, LogsArgvIs
<1> HIDE DEF nf, sf, cf, tf, lf, namespace, selector, container, since, a
<1> DEFINE third == IF selector # NoValue THEN Render(sf) ELSE ps[1]
           gs == IF selector # NoValue THEN <<nf, sf, cf, tf, lf>> ELSE <<nf, cf, tf, lf>>
<1>6. a[1] = Logs /\ Tail(a) = <<Render(nf), third, Render(cf), Render(tf), Render(lf)>>
  BY <1>5
<1>7. gs \in Seq(FlagsOf(Logs))
  BY <1>2, <1>3
<1>8. SplitPositionals(Tail(a)) = (IF selector # NoValue THEN <<>> ELSE <<ps[1]>>) /\ SplitFlags(Tail(a)) = gs
  <2>1. CASE selector # NoValue
    <3>1. Rendered(gs) = <<Render(nf), Render(sf), Render(cf), Render(tf), Render(lf)>>
      BY <2>1 DEF Rendered
    <3>2. Tail(a) = Rendered(gs)
      BY <1>6, <2>1, <3>1
    <3> DEFINE none == <<>>
    <3> HIDE DEF gs
    <3>3. Rendered(gs) \in Seq(Token)
      BY <1>7, RenderedIs, Tokens
    <3>4. none \in Seq(Token) /\ Len(none) = 0 /\ none \o Rendered(gs) = Rendered(gs)
      BY <3>3
    <3> HIDE DEF none
    <3>5. SplitPositionals(none \o Rendered(gs)) = none /\ SplitFlags(none \o Rendered(gs)) = gs
      <4>1. \A i \in 1..Len(none) : ~IsLong(none[i])
        BY <3>4
      <4> QED  BY <1>7, <3>4, <4>1, Splits
    <3> QED  BY <2>1, <3>2, <3>4, <3>5 DEF none
  <2>2. CASE selector = NoValue
    <3>1. ps[1] \in Token /\ ~IsLong(ps[1])
      BY <1>1, <1>5, <2>2 DEF IsPlain, IsLong
    <3>2. /\ Tail(a) = <<Render(nf), ps[1], Render(cf), Render(tf), Render(lf)>>
          /\ gs = <<nf, cf, tf, lf>>
      BY <1>6, <2>2
    <3> DEFINE q == <<Render(nf), ps[1], Render(cf), Render(tf), Render(lf)>>
    <3>3. SplitPositionals(q) = <<ps[1]>> /\ SplitFlags(q) = <<nf, cf, tf, lf>>
      <4>1. nf \in FlagsOf(Logs) /\ cf \in FlagsOf(Logs) /\ tf \in FlagsOf(Logs) /\ lf \in FlagsOf(Logs)
        BY <1>2, <1>3
      <4> QED  BY <3>1, <4>1, SplitsWorkload
    <3> QED  BY <2>2, <3>2, <3>3
  <2> QED  BY <2>1, <2>2
<1>9. /\ gs[1] = nf
      /\ selector # NoValue =>
            DOMAIN gs = 1..5 /\ gs[2] = sf /\ gs[3] = cf /\ gs[4] = tf /\ gs[5] = lf
      /\ selector = NoValue =>
            DOMAIN gs = 1..4 /\ gs[2] = cf /\ gs[3] = tf /\ gs[4] = lf
  OBVIOUS
<1> HIDE DEF gs
<1>10. Heeded(gs, "namespace") = namespace
  <2>1. 1 \in DOMAIN gs /\ gs[1] = nf /\ \A j \in DOMAIN gs : gs[j].name = gs[1].name => j = 1
    BY <1>4, <1>9
  <2> QED  BY <1>4, <1>7, <2>1, HeededOnce
<1>11. Heeded(gs, "selector") = IF selector # NoValue THEN selector ELSE <<>>
  <2>1. CASE selector # NoValue
    <3>1. 2 \in DOMAIN gs /\ gs[2] = sf /\ \A j \in DOMAIN gs : gs[j].name = gs[2].name => j = 2
      BY <1>4, <1>9, <2>1
    <3> QED  BY <1>4, <1>7, <2>1, <3>1, HeededOnce
  <2>2. CASE selector = NoValue
    BY <1>4, <1>9, <2>2, NotHeeded
  <2> QED  BY <2>1, <2>2
<1>12. \E k \in DOMAIN gs : gs[k] = cf /\ \A j \in DOMAIN gs : gs[j].name = gs[k].name => j = k
  <2>1. CASE selector # NoValue
    BY <1>4, <1>9, <2>1
  <2>2. CASE selector = NoValue
    BY <1>4, <1>9, <2>2
  <2> QED  BY <2>1, <2>2
<1>13. \E k \in DOMAIN gs : gs[k] = tf /\ \A j \in DOMAIN gs : gs[j].name = gs[k].name => j = k
  <2>1. CASE selector # NoValue
    BY <1>4, <1>9, <2>1
  <2>2. CASE selector = NoValue
    BY <1>4, <1>9, <2>2
  <2> QED  BY <2>1, <2>2
<1>14. Heeded(gs, "since") = since
  BY <1>4, <1>7, <1>13, HeededOnce
<1>15. Heeded(gs, cf.name) = container
  BY <1>4, <1>7, <1>12, HeededOnce
<1>16. \A n \in {"all-namespaces", "previous", IF container # NoValue THEN "all-containers" ELSE "container"} :
          \A j \in DOMAIN gs : gs[j].name # n
  <2>1. CASE selector # NoValue
    BY <1>4, <1>9, <2>1
  <2>2. CASE selector = NoValue
    BY <1>4, <1>9, <2>2
  <2> QED  BY <2>1, <2>2
<1>17. \A n \in {"all-namespaces", "previous", IF container # NoValue THEN "all-containers" ELSE "container"} :
          Heeded(gs, n) = <<>>
  BY <1>16, NotHeeded
<1>18. /\ Heeded(gs, "container") = IF container # NoValue THEN container ELSE <<>>
       /\ Turned(gs, "all-containers") <=> container = NoValue
       /\ ~Turned(gs, "all-namespaces") /\ ~Turned(gs, "previous")
  BY <1>4, <1>15, <1>17, NoValueIs DEF Turned
<1> QED  BY <1>6, <1>7, <1>8, <1>10, <1>11, <1>14, <1>18 DEF a, namespace, selector, container, since

\* So the logs are at least those of the command, since when it said.
LEMMA LogsCover ==
    ASSUME NEW ps \in Seq(Arguments), NEW fs \in Seq(FlagsOf(Logs)), Logs \in DOMAIN Verbs,
           LogsArgv(ps, fs) # None, NEW d
    PROVE  LET rest1 == Tail(LogsArgv(ps, fs))
           IN  /\ LogsArgv(ps, fs)[1] = Logs
               /\ LogsSelects(ps, fs, d) \subseteq LogsSelects(SplitPositionals(rest1), SplitFlags(rest1), d)
               /\ Heeded(fs, "since") # <<>> => Heeded(SplitFlags(rest1), "since") = Heeded(fs, "since")
<1> DEFINE namespace == LastValue(fs, "namespace")
           selector == LastValue(fs, "selector")
           container == LogsContainer(ps, fs)
           rest1 == Tail(LogsArgv(ps, fs))
           ws == IF selector # NoValue THEN <<>> ELSE <<ps[1]>>
<1>1. ps \in Seq(Token)
  BY Tokens
<1>2. /\ namespace # NoValue /\ ~IsSet(fs, "previous")
      /\ \/ selector # NoValue /\ (ps = <<>> \/ ps[1] = <<>>)
         \/ selector = NoValue /\ ps # <<>>
  BY <1>1, LogsArgvIs
<1>3. LogsArgv(ps, fs)[1] = Logs /\ SplitPositionals(rest1) = ws
  BY LogsIs
<1>4. PICK gs \in Seq(FlagsOf(Logs)) :
         /\ SplitFlags(rest1) = gs
         /\ Heeded(gs, "namespace") = namespace
         /\ Heeded(gs, "selector") = IF selector # NoValue THEN selector ELSE <<>>
         /\ Heeded(gs, "container") = IF container # NoValue THEN container ELSE <<>>
         /\ Turned(gs, "all-containers") <=> container = NoValue
         /\ ~Turned(gs, "all-namespaces") /\ ~Turned(gs, "previous")
         /\ Heeded(gs, "since") = LogsSince(fs)
  BY LogsIs
<1>5. /\ \A n \in {"namespace", "selector", "container", "since"} : n \in DOMAIN Flags => Flags[n].value
      /\ \A n \in {"all-containers", "previous"} : n \in DOMAIN Flags => ~Flags[n].value
      /\ "all-namespaces" \notin Verbs[Logs].flags
  BY TaskAssumption DEF Logs
<1>6. \A n \in {"namespace", "selector", "container", "since"} :
         /\ LastValue(fs, n) = NoValue <=> Heeded(fs, n) = <<>>
         /\ LastValue(fs, n) # NoValue => LastValue(fs, n) = Heeded(fs, n)
  BY <1>5, ValueIs
<1>7. \A n \in {"all-containers", "previous"} : IsSet(fs, n) <=> Turned(fs, n)
  BY <1>5, SetIs
<1>8. ~Turned(fs, "all-namespaces")
  <2>1. \A i \in DOMAIN fs : fs[i].name \in Verbs[Logs].flags
    BY DEF FlagsOf
  <2>2. Heeded(fs, "all-namespaces") = <<>>
    BY <1>5, <2>1, NotHeeded
  <2> QED  BY <2>2 DEF Turned
<1>9. Heeded(fs, "since") # <<>> => Heeded(gs, "since") = Heeded(fs, "since")
  BY <1>4, <1>6 DEF LogsSince
<1>10. /\ Heeded(gs, "namespace") = Heeded(fs, "namespace")
       /\ Heeded(gs, "selector") = Heeded(fs, "selector")
       /\ selector # NoValue <=> Heeded(fs, "selector") # <<>>
  BY <1>2, <1>4, <1>6
<1>11. InNamespace(fs, d) \subseteq InNamespace(gs, d)
  BY <1>4, <1>8, <1>10, SameNamespace
<1> HIDE DEF namespace, selector, container, rest1
<1>12. ASSUME NEW x \in LogsSelects(ps, fs, d) PROVE x \in LogsSelects(ws, gs, d)
  <2> DEFINE podsOf(flags1) == {o \in InNamespace(flags1, d) : o.type = "pods"}
             of(ps1, flags1) ==
                 IF ps1 = <<>> THEN Selected(flags1, podsOf(flags1))
                 ELSE {p \in podsOf(flags1) :
                          ps1[1] \in {<<p.name>>, <<"pods", "/", p.name>>, <<"deployments", "/", p.app>>}}
             read(ps1, flags1) ==
                 IF Turned(flags1, "all-containers") THEN Range(Containers)
                 ELSE {c \in Range(Containers) :
                         <<c>> = (IF Heeded(flags1, "container") # <<>> THEN Heeded(flags1, "container")
                                  ELSE IF Len(ps1) = 2 THEN ps1[2] ELSE <<Containers[1]>>)}
             clash(ps1, flags1) ==
                 \/ Len(ps1) = 2 /\ Heeded(flags1, "container") # <<>>
                 \/ Turned(flags1, "all-containers") /\ (Heeded(flags1, "container") # <<>> \/ Len(ps1) = 2)
                 \/ (ps1 = <<>>) = (Heeded(flags1, "selector") = <<>>)
  <2>1. \A ps1, flags1 :
           LogsSelects(ps1, flags1, d) =
              IF clash(ps1, flags1) \/ Len(ps1) > 2 THEN {}
              ELSE of(ps1, flags1) \X read(ps1, flags1)
                     \X {IF Turned(flags1, "previous") THEN "previous" ELSE "current"}
    BY DEF LogsSelects
  <2> HIDE DEF of, read, clash
  <2>2. /\ ~clash(ps, fs) /\ ~(Len(ps) > 2)
        /\ x \in of(ps, fs) \X read(ps, fs) \X {"current"}
    BY <1>2, <1>7, <2>1
  <2>3. PICK p \in of(ps, fs), c \in read(ps, fs) : x = <<p, c, "current">>
    BY <2>2
  <2>4. (ps = <<>>) <=> selector # NoValue
    BY <1>2, <1>10, <2>2 DEF clash
  <2>5. p \in of(ws, gs)
    <3>1. CASE ps = <<>>
      <4>1. ws = <<>>
        BY <2>4, <3>1
      <4>2. p \in Selected(fs, podsOf(fs))
        BY <2>3, <3>1 DEF of
      <4>3. p \in Selected(gs, podsOf(gs))
        BY <1>10, <1>11, <4>2 DEF Selected
      <4> QED  BY <4>1, <4>3 DEF of
    <3>2. CASE ps # <<>>
      <4>1. ws # <<>> /\ ws[1] = ps[1]
        BY <2>4, <3>2
      <4>2. /\ p \in podsOf(fs)
            /\ ps[1] \in {<<p.name>>, <<"pods", "/", p.name>>, <<"deployments", "/", p.app>>}
        BY <2>3, <3>2 DEF of
      <4>3. p \in podsOf(gs)
        BY <1>11, <4>2
      <4> HIDE DEF podsOf, ws
      <4> QED  BY <4>1, <4>2, <4>3 DEF of
    <3> QED  BY <3>1, <3>2
  <2>6. Len(ws) \in {0, 1} /\ (ws = <<>> <=> selector # NoValue)
    OBVIOUS
  <2>7. ~clash(ws, gs)
    <3>1. Turned(gs, "all-containers") => Heeded(gs, "container") = <<>>
      BY <1>4
    <3>2. ~((ws = <<>>) = (Heeded(gs, "selector") = <<>>))
      BY <1>10, <2>6
    <3> QED  BY <2>6, <3>1, <3>2 DEF clash
  <2>8. c \in read(ws, gs)
    <3>1. c \in Range(Containers)
      BY <2>3 DEF read
    <3>2. CASE container = NoValue
      BY <1>4, <3>1, <3>2 DEF read
    <3>3. CASE container # NoValue
      <4>1. ~IsSet(fs, "all-containers") /\ ~Turned(fs, "all-containers")
        BY <1>7, <3>3 DEF container, LogsContainer
      <4>2. /\ Heeded(gs, "container") = container /\ ~Turned(gs, "all-containers")
            /\ container # <<>>
        <5>1. container # <<>>
          BY <1>6, <3>3, NoValueIs DEF container, LogsContainer
        <5> QED  BY <1>4, <3>3, <5>1
      <4>3. <<c>> = container
        <5>1. CASE LastValue(fs, "container") # NoValue
          <6>1. container = Heeded(fs, "container") /\ Heeded(fs, "container") # <<>>
            BY <1>6, <4>1, <5>1 DEF container, LogsContainer
          <6> QED  BY <2>3, <4>1, <6>1 DEF read
        <5>2. CASE LastValue(fs, "container") = NoValue
          <6>1. container = ps[2] /\ Len(ps) = 2 /\ Heeded(fs, "container") = <<>>
            BY <1>6, <3>3, <4>1, <5>2 DEF container, LogsContainer
          <6> QED  BY <2>3, <4>1, <6>1 DEF read
        <5> QED  BY <5>1, <5>2
      <4> QED  BY <3>1, <4>2, <4>3 DEF read
    <3> QED  BY <3>2, <3>3
  <2>9. ~(Len(ws) > 2)
    BY <2>6
  <2>10. LogsSelects(ws, gs, d) = of(ws, gs) \X read(ws, gs) \X {"current"}
    BY <1>4, <2>1, <2>7, <2>9
  <2> QED  BY <2>3, <2>5, <2>8, <2>10
<1> QED  BY <1>3, <1>4, <1>9, <1>12 DEF rest1

-----------------------------------------------------------------------------
(* Of an argv, with or without a hint.                                     *)

LEMMA SelectsIs ==
    ASSUME Inv, stage = "accepted", Len(verb) = 1, NEW d
    PROVE  Selects(argv, d) = IF verb = Get THEN GetSelects(positionals, Given, d)
                              ELSE LogsSelects(positionals, Given, d)
<1>1. /\ verb \in DOMAIN Verbs /\ ArgvTyped /\ argv = ArgvOf(verb, positionals, Given)
      /\ SplitPositionals(AfterVerb) = positionals /\ SplitFlags(AfterVerb) = Given
  BY AcceptedIs
<1>2. positionals \in Seq(Arguments) /\ Given \in Seq(FlagsOf(verb))
  BY <1>1, ArgvGiven DEF ArgvTyped
<1>3. argv \in Seq(Token) /\ argv # <<>>
  BY <1>1, <1>2, ArgvIs
<1>4. Tail(argv) = AfterVerb
  <2>1. AfterVerb = SubSeq(argv, 2, Len(argv))
    BY DEF AfterVerb
  <2> QED  BY <1>3, <2>1
<1>5. argv[1] = verb
  <2> DEFINE w == Words(verb)
             q == positionals \o Rendered(Given)
  <2>1. w \in Seq(Token) /\ Len(w) = 1 /\ w[1] = <<verb[1]>>
    BY <1>1, WordsIs
  <2>2. q \in Seq(Token)
    BY <1>1, <1>2, ArgvIs, Tokens
  <2>3. argv = w \o q
    BY <1>1 DEF ArgvOf
  <2> HIDE DEF w, q
  <2>4. argv[1] = w[1]
    BY <2>1, <2>2, <2>3
  <2>5. verb = <<verb[1]>>
    BY <1>1, VerbsAssumption DEF Token
  <2> QED  BY <2>1, <2>4, <2>5
<1> QED  BY <1>1, <1>4, <1>5 DEF Selects, Get

LEMMA InvCovers == Inv => HintCovers
<1> SUFFICES ASSUME Inv, stage = "accepted", TaskArgv # None
             PROVE  /\ \A d \in Namespaces : Selects(argv, d) \subseteq Selects(TaskArgv, d)
                    /\ LET since == Heeded(SplitFlags(AfterVerb), "since")
                       IN  since # <<>> => Heeded(SplitFlags(Tail(TaskArgv)), "since") = since
  BY DEF HintCovers
<1>1. /\ verb \in DOMAIN Verbs /\ ArgvTyped
      /\ SplitPositionals(AfterVerb) = positionals /\ SplitFlags(AfterVerb) = Given
  BY AcceptedIs
<1>2. positionals \in Seq(Arguments) /\ Given \in Seq(FlagsOf(verb))
  BY <1>1, AcceptedIs, ArgvGiven DEF ArgvTyped
<1>3. positionals \in Seq(Token)
  BY <1>2, Tokens
<1>4. \/ verb = Get /\ TaskArgv = ExportArgv(positionals, Given)
      \/ verb = Logs /\ TaskArgv = LogsArgv(positionals, Given)
  BY <1>1 DEF TaskArgv, Get, Logs
<1>5. Get # Logs /\ Len(Get) = 1 /\ Len(Logs) = 1
  BY DEF Get, Logs
<1>6. CASE verb = Get
  <2>1. TaskArgv = ExportArgv(positionals, Given) /\ ExportArgv(positionals, Given) # None
    BY <1>4, <1>5, <1>6
  <2>2. ASSUME NEW d PROVE Selects(argv, d) \subseteq Selects(TaskArgv, d)
    <3>1. Selects(argv, d) = GetSelects(positionals, Given, d)
      BY <1>5, <1>6, SelectsIs
    <3>2. /\ TaskArgv[1] = Get
          /\ GetSelects(positionals, Given, d)
               \subseteq GetSelects(SplitPositionals(Tail(TaskArgv)), SplitFlags(Tail(TaskArgv)), d)
      BY <1>1, <1>2, <1>3, <1>6, <2>1, GetCovers
    <3> QED  BY <3>1, <3>2 DEF Selects, Get
  <2>3. Heeded(Given, "since") = <<>>
    <3>1. "since" \notin Verbs[Get].flags
      BY <1>1, <1>6, TaskAssumption DEF Get
    <3>2. \A i \in DOMAIN Given : Given[i].name \in Verbs[Get].flags
      BY <1>2, <1>6 DEF FlagsOf
    <3> QED  BY <3>1, <3>2, NotHeeded
  <2> QED  BY <1>1, <2>2, <2>3
<1>7. CASE verb = Logs
  <2>1. TaskArgv = LogsArgv(positionals, Given) /\ LogsArgv(positionals, Given) # None
    BY <1>4, <1>5, <1>7
  <2>2. ASSUME NEW d
        PROVE  /\ Selects(argv, d) \subseteq Selects(TaskArgv, d)
               /\ Heeded(Given, "since") # <<>> =>
                     Heeded(SplitFlags(Tail(TaskArgv)), "since") = Heeded(Given, "since")
    <3>1. Selects(argv, d) = LogsSelects(positionals, Given, d)
      BY <1>5, <1>7, SelectsIs
    <3>2. /\ TaskArgv[1] = Logs
          /\ LogsSelects(positionals, Given, d)
               \subseteq LogsSelects(SplitPositionals(Tail(TaskArgv)), SplitFlags(Tail(TaskArgv)), d)
          /\ Heeded(Given, "since") # <<>> =>
                Heeded(SplitFlags(Tail(TaskArgv)), "since") = Heeded(Given, "since")
      BY <1>1, <1>2, <1>7, <2>1, LogsCover
    <3> QED  BY <1>5, <3>1, <3>2 DEF Selects, Get
  <2> QED  BY <1>1, <2>2
<1> QED  BY <1>4, <1>6, <1>7

\* HintCovers of FullOutput: whatever the pack, the cluster and the command, the
\* queued task that full_output_for names for an accepted get or logs selects
\* everything the command did, and since when the command said.
THEOREM HintsCover == ArgvSpec => []HintCovers
BY ArgvInvariant, InvCovers, PTL
=============================================================================
