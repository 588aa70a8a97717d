-------------------------- MODULE CredentialsProofs --------------------------
(***************************************************************************)
(* What holds for any number of requests in one process, any data in their *)
(* kubeconfigs and any interleaving: type correctness; no file is left     *)
(* when its request's directory is wiped, and no raw kubeconfig outlives   *)
(* the load it was written for; and a client that was alone has the files  *)
(* it needs, whatever the library remembers of others.                     *)
(***************************************************************************)
EXTENDS Credentials, FiniteSetTheorems, TLAPS

Pcs == {"new", "forget", "load", "write", "ready", "ended", "wiped"}
Building == {"forget", "load", "write"}

(* The types the argument needs, the data still to load among them.        *)
Typed ==
    /\ pc \in [Requests -> Pcs]
    /\ call \in [Requests -> Nat]
    /\ needs \in [Requests -> SUBSET Datas]
    /\ todo \in [Requests -> SUBSET Datas]

(* A file lies in the directory of a request that is running or not yet    *)
(* wiped, and a raw kubeconfig is the one of its request's present call:   *)
(* what the finally block of that call removes.                            *)
FilesAreOwned ==
    \A f \in files :
        /\ f.dir \in Requests
        /\ pc[f.dir] \notin {"new", "wiped"}
        /\ f.data = "kubeconfig" => f = Raw(f.dir) /\ pc[f.dir] \in Building

IInv == Typed /\ FilesAreOwned

-----------------------------------------------------------------------------
LEMMA InitIInv == Init => IInv
BY DEF Init, IInv, Typed, FilesAreOwned, Pcs

(* A step that neither writes nor removes a file, and takes its request    *)
(* from a state in which files may lie about to another such state.        *)
LEMMA FilesStay ==
    ASSUME IInv, NEW r \in Requests, NEW to \in Pcs \ {"new", "wiped"},
           pc' = [pc EXCEPT ![r] = to],
           pc[r] \in Building => to \in Building,
           UNCHANGED <<call, files>>
    PROVE  FilesAreOwned'
<1> SUFFICES ASSUME NEW f \in files
             PROVE  /\ pc'[f.dir] \notin {"new", "wiped"}
                    /\ f.data = "kubeconfig" => f = Raw(f.dir)' /\ pc'[f.dir] \in Building
  BY DEF FilesAreOwned, IInv
<1>1. f.dir \in Requests /\ pc[f.dir] \in Pcs /\ pc[f.dir] \notin {"new", "wiped"}
  BY DEF IInv, Typed, FilesAreOwned
<1>2. f.data = "kubeconfig" => f = Raw(f.dir)' /\ pc[f.dir] \in Building
  BY <1>1 DEF IInv, FilesAreOwned, Raw
<1>3. pc'[f.dir] = IF f.dir = r THEN to ELSE pc[f.dir]
  BY <1>1 DEF IInv, Typed
<1> QED BY <1>1, <1>2, <1>3

(* The end of a build: its raw kubeconfig is removed.                      *)
LEMMA RawIsRemoved ==
    ASSUME IInv, NEW r \in Requests, NEW to \in {"ready", "ended"},
           pc' = [pc EXCEPT ![r] = to], files' = files \ {Raw(r)}, UNCHANGED call
    PROVE  FilesAreOwned'
<1> SUFFICES ASSUME NEW f \in files, f # Raw(r)
             PROVE  /\ f.dir \in Requests /\ pc'[f.dir] \notin {"new", "wiped"}
                    /\ f.data = "kubeconfig" => f = Raw(f.dir)' /\ pc'[f.dir] \in Building
  BY DEF FilesAreOwned
<1>1. f.dir \in Requests /\ pc[f.dir] \notin {"new", "wiped"}
  BY DEF IInv, FilesAreOwned
<1>2. f.data = "kubeconfig" => f.dir # r /\ f = Raw(f.dir)' /\ pc[f.dir] \in Building
  BY <1>1 DEF IInv, FilesAreOwned, Raw
<1>3. pc'[f.dir] = IF f.dir = r THEN to ELSE pc[f.dir]
  BY <1>1 DEF IInv, Typed
<1> QED BY <1>1, <1>2, <1>3

LEMMA StepTyped == IInv /\ [Next]_vars => Typed'
<1> SUFFICES ASSUME IInv, [Next]_vars PROVE Typed'
  OBVIOUS
<1> USE DEF IInv, Typed
<1>1. CASE UNCHANGED vars
  BY <1>1 DEF vars
<1>2. ASSUME NEW r \in Requests, Build(r) PROVE Typed'
  BY <1>2 DEF Build, Goto, Pcs
<1>3. ASSUME NEW r \in Requests,
             UnknownContext(r) \/ Forget(r) \/ WriteFile(r) \/ Loaded(r) \/ LoadFails(r)
             \/ End(r) \/ Wipe(r)
      PROVE  Typed'
  BY <1>3 DEF UnknownContext, Forget, WriteFile, Loaded, LoadFails, End, Wipe, Goto, Pcs
<1>4. ASSUME NEW r \in Requests, Forgotten(r) PROVE Typed'
  BY <1>4 DEF Forgotten, Goto, Pcs
<1>5. ASSUME NEW r \in Requests, Reuse(r) PROVE Typed'
  BY <1>5 DEF Reuse
<1>6. ASSUME NEW r \in Requests, NewFile(r) PROVE Typed'
  BY <1>6 DEF NewFile, Goto, Pcs
<1> QED BY <1>1, <1>2, <1>3, <1>4, <1>5, <1>6 DEF Next

-----------------------------------------------------------------------------
LEMMA StepFiles == IInv /\ [Next]_vars => FilesAreOwned'
<1> SUFFICES ASSUME IInv, [Next]_vars PROVE FilesAreOwned'
  OBVIOUS
<1>1. CASE UNCHANGED vars
  BY <1>1 DEF vars, IInv, FilesAreOwned, Raw
<1>2. ASSUME NEW r \in Requests, Build(r) PROVE FilesAreOwned'
  <2> DEFINE raw(q) == [dir |-> q, call |-> call'[q], data |-> "kubeconfig"]
  <2>1. /\ pc[r] \in {"new", "ready"} /\ pc' = [pc EXCEPT ![r] = "forget"]
        /\ call' = [call EXCEPT ![r] = @ + 1]
        /\ files' = files \union {raw(r)}
    BY <1>2 DEF Build, Goto, Raw
  <2>2. raw(r).dir = r /\ pc'[r] = "forget"
    BY <2>1 DEF IInv, Typed
  <2>3. ASSUME NEW f \in files
        PROVE  /\ f.dir \in Requests /\ pc'[f.dir] \notin {"new", "wiped"}
               /\ f.data = "kubeconfig" => f = raw(f.dir) /\ pc'[f.dir] \in Building
    <3>1. f.dir \in Requests /\ pc[f.dir] \notin {"new", "wiped"}
          /\ (f.data = "kubeconfig" => f = Raw(f.dir) /\ pc[f.dir] \in Building)
      BY DEF IInv, FilesAreOwned
    <3>2. pc'[f.dir] = IF f.dir = r THEN "forget" ELSE pc[f.dir]
      BY <2>1, <3>1 DEF IInv, Typed
    <3>3. f.data = "kubeconfig" => f.dir # r
      BY <2>1, <3>1 DEF Building
    <3>4. f.dir # r => raw(f.dir) = Raw(f.dir)
      BY <2>1, <3>1 DEF Raw, IInv, Typed
    <3> QED BY <3>1, <3>2, <3>3, <3>4 DEF Building
  <2>4. /\ raw(r).dir \in Requests /\ pc'[raw(r).dir] \notin {"new", "wiped"}
        /\ raw(r) = raw(raw(r).dir) /\ pc'[raw(r).dir] \in Building
    BY <2>2 DEF Building
  <2> QED BY <2>1, <2>3, <2>4 DEF FilesAreOwned, Raw
<1>3. ASSUME NEW r \in Requests, UnknownContext(r) PROVE FilesAreOwned'
  BY <1>3, FilesStay DEF UnknownContext, Goto, Pcs, Building
<1>4. ASSUME NEW r \in Requests, Forget(r) \/ Reuse(r) PROVE FilesAreOwned'
  BY <1>4 DEF Forget, Reuse, IInv, FilesAreOwned, Raw
<1>5. ASSUME NEW r \in Requests, Forgotten(r) \/ WriteFile(r) PROVE FilesAreOwned'
  BY <1>5, FilesStay DEF Forgotten, WriteFile, Goto, Pcs, Building
<1>6. ASSUME NEW r \in Requests, NewFile(r) PROVE FilesAreOwned'
  <2>1. PICK d \in Datas : files' = files \union {Copy(r, d)}
    BY <1>6 DEF NewFile, IInv, Typed
  <2>2. pc[r] = "load" /\ pc' = [pc EXCEPT ![r] = "write"] /\ UNCHANGED call
    BY <1>6 DEF NewFile, Goto
  <2>3. Copy(r, d).dir = r /\ Copy(r, d).data # "kubeconfig" /\ pc'[r] = "write"
    BY <2>2, DatasAssumption DEF Copy, IInv, Typed
  <2>4. ASSUME NEW f \in files
        PROVE  /\ f.dir \in Requests /\ pc'[f.dir] \notin {"new", "wiped"}
               /\ f.data = "kubeconfig" => f = Raw(f.dir)' /\ pc'[f.dir] \in Building
    <3>1. f.dir \in Requests /\ pc[f.dir] \notin {"new", "wiped"}
          /\ (f.data = "kubeconfig" => f = Raw(f.dir)' /\ pc[f.dir] \in Building)
      BY <2>2 DEF IInv, FilesAreOwned, Raw
    <3>2. pc'[f.dir] = IF f.dir = r THEN "write" ELSE pc[f.dir]
      BY <2>2, <3>1 DEF IInv, Typed
    <3> QED BY <3>1, <3>2 DEF Building
  <2> QED BY <2>1, <2>3, <2>4 DEF FilesAreOwned
<1>7. ASSUME NEW r \in Requests, Loaded(r) \/ LoadFails(r) PROVE FilesAreOwned'
  BY <1>7, RawIsRemoved DEF Loaded, LoadFails, Goto
<1>8. ASSUME NEW r \in Requests, End(r) PROVE FilesAreOwned'
  BY <1>8, FilesStay DEF End, Goto, Pcs, Building
<1>9. ASSUME NEW r \in Requests, Wipe(r) PROVE FilesAreOwned'
  <2>1. pc' = [pc EXCEPT ![r] = "wiped"] /\ files' = {f \in files : f.dir # r} /\ UNCHANGED call
    BY <1>9 DEF Wipe, Goto
  <2>2. ASSUME NEW f \in files, f.dir # r PROVE f.dir \in Requests /\ pc'[f.dir] = pc[f.dir]
    BY <2>1, <2>2 DEF IInv, Typed, FilesAreOwned
  <2> QED BY <2>1, <2>2 DEF IInv, FilesAreOwned, Raw
<1> QED BY <1>1, <1>2, <1>3, <1>4, <1>5, <1>6, <1>7, <1>8, <1>9 DEF Next

(* The whole credential footprint of a request is gone once its directory  *)
(* is wiped, and no raw kubeconfig is left by a build that is over, however *)
(* it ended and whatever other requests did meanwhile (credentials.py).    *)
THEOREM NoFootprintIsLeft == Spec => []FootprintIsWiped
<1>1. Init => IInv
  BY InitIInv
<1>2. IInv /\ [Next]_vars => IInv'
  BY StepTyped, StepFiles DEF IInv
<1>3. IInv => FootprintIsWiped
  BY DEF IInv, FilesAreOwned, FootprintIsWiped, Building
<1> QED BY <1>1, <1>2, <1>3, PTL DEF Spec

-----------------------------------------------------------------------------
(* What the library remembers and the clients are built on.                *)

(* Inline data, and a file for it; the raw kubeconfig is never one.        *)
Copies == Datas \X [dir : Requests, call : 1..2, data : Datas]

Shaped ==
    /\ TypeOK
    /\ IsFiniteSet(Active)
    /\ cache \subseteq Copies
    /\ snapshot \in [Requests -> SUBSET Copies]
    /\ client \in [Requests -> SUBSET Copies]
    /\ \A r \in Requests : pc[r] = "new" => call[r] = 0
    /\ \A r \in Active : call[r] > 0

(* A file is blank only while its request is about to write it.            *)
BlanksAreWritten == \A f \in blank : pc[f.dir] = "write" /\ f.data \in Datas

(* A request that nobody has been beside is the only one active. Once it   *)
(* has looked through the list, all that is remembered is its own; what    *)
(* its client has and has still to load is what it needs, and each file    *)
(* of it is there.                                                         *)
Lone(r) ==
    /\ Active = {r}
    /\ pc[r] = "forget" =>
          client[r] = {} /\ \A e \in cache : e[2].dir = r \/ e \in snapshot[r]
    /\ pc[r] # "forget" =>
          /\ \A e \in cache \union client[r] : e[2].dir = r
          /\ Keys(client[r]) \union todo[r] = needs[r]
          /\ \A e \in client[r] : e[2] \in files
    /\ pc[r] = "ready" => todo[r] = {}
LonesAreAlone == \A r \in Active \ shared : Lone(r)

CInv == IInv /\ Shaped /\ BlanksAreWritten /\ LonesAreAlone

LEMMA ActiveIs ==
    ASSUME Typed, NEW r \in Requests, NEW to, pc' = [pc EXCEPT ![r] = to]
    PROVE  Active' = IF to \in {"new", "ended", "wiped"} THEN Active \ {r} ELSE Active \union {r}
BY DEF Active, Typed

(* Only a build adds to who is active, and only it counts a call.          *)
LEMMA OthersEnd ==
    ASSUME CInv, NEW r \in Requests,
           \/ UnknownContext(r) \/ Forget(r) \/ Forgotten(r) \/ Reuse(r) \/ NewFile(r)
           \/ WriteFile(r) \/ Loaded(r) \/ LoadFails(r) \/ End(r) \/ Wipe(r)
    PROVE  /\ Active' \subseteq Active
           /\ \A q \in Requests : pc'[q] = "new" => pc[q] = "new"
           /\ UNCHANGED <<call, shared, needs>>
<1>1. CASE Forget(r) \/ Reuse(r)
  BY <1>1 DEF Forget, Reuse, Active
<1>2. CASE ~(Forget(r) \/ Reuse(r))
  <2>1. PICK to \in Pcs \ {"new"} :
            /\ pc' = [pc EXCEPT ![r] = to]
            /\ r \in Active \/ to \in {"ended", "wiped"}
    BY <1>2 DEF UnknownContext, Forgotten, NewFile, WriteFile, Loaded, LoadFails, End, Wipe,
                Goto, Active, Pcs
  <2>2. UNCHANGED <<call, shared, needs>>
    BY <1>2 DEF UnknownContext, Forgotten, NewFile, WriteFile, Loaded, LoadFails, End, Wipe
  <2>3. Active' \subseteq Active
    <3>1. Active' = IF to \in {"new", "ended", "wiped"} THEN Active \ {r} ELSE Active \union {r}
      <4>1. Typed
        BY DEF CInv, IInv
      <4>2. pc' = [pc EXCEPT ![r] = to]
        BY <2>1
      <4> QED  BY <4>1, <4>2, ActiveIs
    <3> QED  BY <2>1, <3>1
  <2>4. \A q \in Requests : pc'[q] = "new" => pc[q] = "new"
    <3>1. pc' = [pc EXCEPT ![r] = to] /\ to # "new"
      BY <2>1
    <3>2. pc \in [Requests -> Pcs]
      BY DEF CInv, IInv, Typed
    <3> QED  BY <3>1, <3>2
  <2> QED  BY <2>2, <2>3, <2>4
<1> QED  BY <1>1, <1>2

(* Who is active: more only when there is room.                            *)
LEMMA ActiveStep ==
    ASSUME CInv, [Next]_vars
    PROVE  IsFiniteSet(Active') /\ Cardinality(Active') <= MaxConcurrent
<1>1. IsFiniteSet(Active) /\ Cardinality(Active) <= MaxConcurrent
  BY DEF CInv, Shaped, TypeOK
<1>2. Cardinality(Active) \in Nat /\ MaxConcurrent \in Nat
  BY <1>1, FS_CardinalityType, ConcurrencyAssumption
<1>3. ASSUME Active' \subseteq Active
      PROVE  IsFiniteSet(Active') /\ Cardinality(Active') <= MaxConcurrent
  <2>1. IsFiniteSet(Active') /\ Cardinality(Active') <= Cardinality(Active)
    BY <1>1, <1>3, FS_Subset
  <2>2. Cardinality(Active') \in Nat
    BY <2>1, FS_CardinalityType
  <2> QED  BY <1>1, <1>2, <2>1, <2>2
<1>4. ASSUME NEW r \in Requests, Build(r)
      PROVE  IsFiniteSet(Active') /\ Cardinality(Active') <= MaxConcurrent
  <2>1. CASE pc[r] = "new"
    <3>1. Active' = Active \union {r} /\ r \notin Active
      BY <1>4, <2>1, ActiveIs DEF Build, Goto, CInv, IInv, Active
    <3>2. IsFiniteSet(Active') /\ Cardinality(Active') = Cardinality(Active) + 1
      BY <1>1, <3>1, FS_AddElement
    <3>3. Cardinality(Active) < MaxConcurrent
      BY <1>4, <2>1 DEF Build, Goto
    <3> QED  BY <1>2, <3>2, <3>3
  <2>2. CASE pc[r] # "new"
    <3>1. Active' = Active \union {r} /\ r \in Active
      BY <1>4, <2>2, ActiveIs DEF Build, Goto, CInv, IInv, Active
    <3> QED  BY <1>3, <3>1
  <2> QED  BY <2>1, <2>2
<1>5. CASE UNCHANGED vars
  BY <1>3, <1>5 DEF vars, Active
<1> QED  BY <1>3, <1>4, <1>5, OthersEnd DEF Next

LEMMA CopyIs ==
    ASSUME Shaped, NEW r \in Active, NEW d \in Datas
    PROVE  <<d, Copy(r, d)>> \in Copies /\ Copy(r, d) \in Files /\ Copy(r, d).dir = r
           /\ Copy(r, d).data \in Datas
<1>1. r \in Requests /\ call[r] \in 0..2 /\ call[r] > 0
  BY DEF Shaped, TypeOK, Active
<1>2. call[r] \in 1..2
  BY <1>1
<1> QED  BY <1>1, <1>2 DEF Copy, Copies, Files

Functional(C) == \A e, f \in C : e[1] = f[1] => e = f
Filed ==
    /\ cache \subseteq Copies /\ Functional(cache)
    /\ snapshot \in [Requests -> SUBSET Copies]
    /\ client \in [Requests -> SUBSET Copies]
    /\ blank \subseteq files /\ files \subseteq Files

LEMMA ShapedStep == CInv /\ [Next]_vars => Shaped'
<1> SUFFICES ASSUME CInv, [Next]_vars PROVE Shaped'
  OBVIOUS
<1>0. IsFiniteSet(Active') /\ Cardinality(Active') <= MaxConcurrent
  BY ActiveStep
<1>1. Copies \subseteq Datas \X Files
  BY DEF Copies, Files
<1>2. Typed'
  BY StepTyped DEF CInv
<1>3. /\ call' \in [Requests -> 0..2] /\ shared' \subseteq Requests
      /\ \A r \in Requests : pc'[r] = "new" => call'[r] = 0
      /\ \A r \in Active' : call'[r] > 0
  <2> USE DEF CInv, IInv, Typed, Shaped, TypeOK
  <2>1. CASE UNCHANGED vars
    BY <2>1 DEF vars, Active
  <2>2. ASSUME NEW r \in Requests, Build(r)
        PROVE  <1>3!:
    <3>1. pc[r] \in {"new", "ready"} /\ call[r] \in {0, 1} /\ call' = [call EXCEPT ![r] = @ + 1]
          /\ pc' = [pc EXCEPT ![r] = "forget"]
      BY <2>2 DEF Build, Goto
    <3>2. shared' \subseteq Requests
      BY <2>2 DEF Build, Active
    <3> QED  BY <3>1, <3>2 DEF Active
  <2>3. ASSUME NEW r \in Requests, Active' \subseteq Active, UNCHANGED <<call, shared>>,
               \A q \in Requests : pc'[q] = "new" => pc[q] = "new"
        PROVE  <1>3!:
    BY <2>3
  <2> QED  BY <2>1, <2>2, <2>3, OthersEnd DEF Next
<1>4. Filed /\ Typed /\ Requests = Requests
  BY DEF CInv, IInv, Shaped, TypeOK, Filed, Functional
<1>5. Filed'
  <2> USE DEF Filed
  <2>1. CASE UNCHANGED vars
    BY <1>4, <2>1 DEF vars
  <2>2. ASSUME NEW r \in Requests, Build(r)
        PROVE  Filed'
    <3>1. Raw(r)' \in Files
      <4>1. call'[r] \in 1..2
        <5>1. r \in Active'
          <6>1. pc' = [pc EXCEPT ![r] = "forget"]
            BY <2>2 DEF Build, Goto
          <6>2. Active' = IF "forget" \in {"new", "ended", "wiped"} THEN Active \ {r} ELSE Active \union {r}
            BY <1>4, <6>1, ActiveIs
          <6> QED  BY <6>2
        <5>2. call'[r] \in 0..2 /\ call'[r] > 0
          BY <1>3, <5>1
        <5> QED  BY <5>2
      <4> QED  BY <4>1 DEF Raw, Files
    <3> QED  BY <1>4, <2>2, <3>1 DEF Build
  <2>3. ASSUME NEW r \in Requests, UnknownContext(r) \/ Forgotten(r) \/ WriteFile(r) \/ End(r)
        PROVE  Filed'
    BY <1>4, <2>3 DEF UnknownContext, Forgotten, WriteFile, End
  <2>4. ASSUME NEW r \in Requests, Forget(r)
        PROVE  Filed'
    <3>1. cache' \subseteq cache /\ UNCHANGED <<client, files, blank>>
      BY <2>4 DEF Forget
    <3>2. snapshot' \in [Requests -> SUBSET Copies]
      BY <1>4, <2>4 DEF Forget
    <3> QED  BY <1>4, <3>1, <3>2 DEF Functional
  <2>5. ASSUME NEW r \in Requests, Reuse(r)
        PROVE  Filed'
    BY <1>4, <2>5 DEF Reuse
  <2>6. ASSUME NEW r \in Requests, NewFile(r)
        PROVE  Filed'
    <3>1. PICK d \in todo[r] \ Keys(cache) :
              /\ client' = [client EXCEPT ![r] = @ \union {<<d, Copy(r, d)>>}]
              /\ cache' = cache \union {<<d, Copy(r, d)>>}
              /\ files' = files \union {Copy(r, d)}
              /\ blank' = blank \union {Copy(r, d)}
              /\ UNCHANGED snapshot
      BY <2>6 DEF NewFile
    <3>2. r \in Active /\ d \in Datas
      BY <1>4, <2>6, <3>1 DEF NewFile, Goto, Active, Typed
    <3>3. <<d, Copy(r, d)>> \in Copies /\ Copy(r, d) \in Files
      BY <3>2, CopyIs DEF CInv
    <3>4. Functional(cache')
      BY <1>4, <3>1 DEF Functional, Keys
    <3>5. client' \in [Requests -> SUBSET Copies]
      BY <1>4, <3>1, <3>3
    <3> QED  BY <1>4, <3>1, <3>3, <3>4, <3>5
  <2>7. ASSUME NEW r \in Requests, Loaded(r) \/ LoadFails(r)
        PROVE  Filed'
    <3>1. files' = files \ {Raw(r)} /\ UNCHANGED <<client, cache, snapshot, blank>>
      BY <2>7 DEF Loaded, LoadFails
    <3>2. Raw(r) \notin blank
      BY DatasAssumption DEF Raw, CInv, BlanksAreWritten
    <3> QED  BY <1>4, <3>1, <3>2
  <2>8. ASSUME NEW r \in Requests, Wipe(r)
        PROVE  Filed'
    BY <1>4, <2>8 DEF Wipe
  <2> QED  BY <2>1, <2>2, <2>3, <2>4, <2>5, <2>6, <2>7, <2>8 DEF Next
<1>6. TypeOK'
  BY <1>0, <1>1, <1>2, <1>3, <1>5 DEF TypeOK, Typed, Pcs, Filed, Functional
<1> QED  BY <1>0, <1>3, <1>5, <1>6 DEF Shaped, Filed

LEMMA BlanksStep == CInv /\ [Next]_vars => BlanksAreWritten'
<1> SUFFICES ASSUME CInv, [Next]_vars PROVE BlanksAreWritten'
  OBVIOUS
<1>1. /\ \A f \in blank : pc[f.dir] = "write" /\ f.data \in Datas /\ f.dir \in Requests
      /\ pc \in [Requests -> Pcs]
  BY DEF CInv, IInv, Typed, BlanksAreWritten, Shaped, TypeOK, Files
<1>2. CASE UNCHANGED vars
  BY <1>1, <1>2 DEF vars, BlanksAreWritten
<1>3. ASSUME NEW r \in Requests,
             \/ Build(r) \/ UnknownContext(r) \/ Forgotten(r) \/ Loaded(r) \/ LoadFails(r)
             \/ End(r) \/ Wipe(r)
      PROVE  BlanksAreWritten'
  <2>1. PICK to \in Pcs : pc' = [pc EXCEPT ![r] = to] /\ pc[r] # "write" /\ blank' \subseteq blank
    BY <1>3 DEF Build, UnknownContext, Forgotten, Loaded, LoadFails, End, Wipe, Goto, Pcs
  <2> QED  BY <1>1, <2>1 DEF BlanksAreWritten
<1>4. ASSUME NEW r \in Requests, Forget(r) \/ Reuse(r)
      PROVE  BlanksAreWritten'
  BY <1>1, <1>4 DEF Forget, Reuse, BlanksAreWritten
<1>5. ASSUME NEW r \in Requests, NewFile(r)
      PROVE  BlanksAreWritten'
  <2>1. PICK d \in todo[r] : blank' = blank \union {Copy(r, d)}
    BY <1>5 DEF NewFile
  <2>2. pc' = [pc EXCEPT ![r] = "write"] /\ r \in Active /\ d \in Datas
    BY <1>5, <2>1 DEF NewFile, Goto, Active, CInv, IInv, Typed
  <2>3. Copy(r, d).dir = r /\ Copy(r, d).data \in Datas
    BY <2>2, CopyIs DEF CInv
  <2> QED  BY <1>1, <2>1, <2>2, <2>3 DEF BlanksAreWritten
<1>6. ASSUME NEW r \in Requests, WriteFile(r)
      PROVE  BlanksAreWritten'
  BY <1>1, <1>6 DEF WriteFile, Goto, BlanksAreWritten
<1> QED  BY <1>2, <1>3, <1>4, <1>5, <1>6 DEF Next

(* A request that is alone sees no other build, forget or load; those that *)
(* are over, or not begun, leave its files and what is remembered alone.   *)
LEMMA OthersStay ==
    ASSUME CInv, NEW r \in Active, Lone(r), NEW q \in Requests \ {r},
           UnknownContext(q) \/ Wipe(q)
    PROVE  Lone(r)'
<1>1. PICK to \in {"ended", "wiped"} : pc' = [pc EXCEPT ![q] = to]
  BY DEF UnknownContext, Wipe, Goto
<1>2. Active' = {r} /\ pc'[r] = pc[r]
  <2>1. Active' = Active \ {q}
    BY <1>1, ActiveIs DEF CInv, IInv
  <2> QED  BY <1>1, <2>1 DEF Lone, CInv, IInv, Typed
<1>3. UNCHANGED <<cache, client, snapshot, todo, needs>> /\ \A f \in files : f.dir = r => f \in files'
  BY DEF UnknownContext, Wipe
<1> QED  BY <1>2, <1>3 DEF Lone

LEMMA OwnStep ==
    ASSUME CInv, NEW r \in Active, Lone(r), r \in Active',
           \/ Forget(r) \/ Forgotten(r) \/ Reuse(r) \/ NewFile(r) \/ WriteFile(r) \/ Loaded(r)
    PROVE  Lone(r)'
<1>0. r \in Requests /\ Filed /\ Typed /\ Active = {r}
  BY DEF Active, CInv, IInv, Shaped, TypeOK, Filed, Functional, Lone
<1>1. Active' = {r}
  <2>1. Active' \subseteq Active
    BY <1>0, OthersEnd
  <2> QED  BY <1>0, <2>1
<1>2. CASE Forget(r)
  <2>1. PICK e \in snapshot[r] :
            /\ snapshot' = [snapshot EXCEPT ![r] = @ \ {e}]
            /\ cache' = IF e[2].dir # r THEN {c \in cache : c[1] # e[1]} ELSE cache
    BY <1>2 DEF Forget
  <2>2. pc[r] = "forget" /\ pc'[r] = "forget" /\ client'[r] = {}
    BY <1>2 DEF Forget, Lone
  <2>3. \A c \in cache' : c[2].dir = r \/ c \in snapshot'[r]
    BY <1>0, <2>1, <2>2 DEF Lone, Filed
  <2> QED  BY <1>1, <2>2, <2>3 DEF Lone
<1>3. CASE Forgotten(r)
  <2>1. /\ pc[r] = "forget" /\ pc'[r] = "load" /\ snapshot[r] = {} /\ todo'[r] = needs[r]
        /\ UNCHANGED <<needs, client, cache>>
    BY <1>0, <1>3 DEF Forgotten, Goto, Typed
  <2>2. client[r] = {} /\ Keys(client[r]) = {}
    BY <2>1 DEF Lone, Keys
  <2> QED  BY <1>1, <2>1, <2>2 DEF Lone
<1>4. CASE Reuse(r)
  <2>1. PICK e \in cache : /\ e[1] \in todo[r] /\ e[2] \in files
                           /\ client' = [client EXCEPT ![r] = @ \union {e}]
                           /\ todo' = [todo EXCEPT ![r] = @ \ {e[1]}]
    BY <1>4 DEF Reuse
  <2>2. pc[r] = "load" /\ UNCHANGED <<pc, cache, files, needs>>
    BY <1>4 DEF Reuse
  <2>3. client'[r] = client[r] \union {e} /\ todo'[r] = todo[r] \ {e[1]}
    BY <1>0, <2>1 DEF Filed, Typed
  <2>4. Keys(client'[r]) \union todo'[r] = needs[r]
    BY <2>1, <2>2, <2>3 DEF Lone, Keys
  <2> QED  BY <1>1, <2>1, <2>2, <2>3, <2>4 DEF Lone
<1>5. CASE NewFile(r)
  <2>1. PICK d \in todo[r] :
            /\ client' = [client EXCEPT ![r] = @ \union {<<d, Copy(r, d)>>}]
            /\ todo' = [todo EXCEPT ![r] = @ \ {d}]
            /\ cache' = cache \union {<<d, Copy(r, d)>>}
            /\ files' = files \union {Copy(r, d)}
    BY <1>5 DEF NewFile
  <2>2. pc[r] = "load" /\ pc'[r] = "write" /\ UNCHANGED needs
    BY <1>0, <1>5 DEF NewFile, Goto, Typed
  <2>3. /\ client'[r] = client[r] \union {<<d, Copy(r, d)>>} /\ todo'[r] = todo[r] \ {d}
        /\ Copy(r, d).dir = r
    <3>1. d \in Datas
      BY <1>0, <2>1 DEF Typed
    <3> QED  BY <1>0, <2>1, <3>1, CopyIs DEF Filed, Typed, CInv
  <2>4. Keys(client'[r]) \union todo'[r] = needs[r]
    <3>1. Keys(client[r]) \union todo[r] = needs[r] /\ d \in todo[r]
      BY <2>1, <2>2 DEF Lone
    <3>2. Keys(client'[r]) = Keys(client[r]) \union {d}
      <4> DEFINE new == <<d, Copy(r, d)>>
      <4>1. client'[r] = client[r] \union {new} /\ new[1] = d
        BY <2>3
      <4> HIDE DEF new
      <4> QED  BY <4>1 DEF Keys
    <3> QED  BY <2>3, <3>1, <3>2
  <2>5. \A e \in cache' \union client'[r] : e[2].dir = r
    BY <2>1, <2>2, <2>3 DEF Lone
  <2>6. \A e \in client'[r] : e[2] \in files'
    BY <2>1, <2>2, <2>3 DEF Lone
  <2> QED  BY <1>1, <2>2, <2>4, <2>5, <2>6 DEF Lone
<1>6. CASE WriteFile(r)
  BY <1>0, <1>1, <1>6 DEF WriteFile, Goto, Lone, Typed
<1>7. CASE Loaded(r)
  <2>1. /\ pc[r] = "load" /\ pc'[r] = "ready" /\ todo[r] = {} /\ files' = files \ {Raw(r)}
        /\ UNCHANGED <<needs, client, cache, todo>>
    BY <1>0, <1>7 DEF Loaded, Goto, Typed
  <2>2. \A e \in client[r] : e[2].data \in Datas /\ e[2] # Raw(r)
    BY <1>0, DatasAssumption DEF Filed, Copies, Raw
  <2> QED  BY <1>1, <2>1, <2>2 DEF Lone
<1> QED  BY <1>2, <1>3, <1>4, <1>5, <1>6, <1>7

(* A build makes everyone it finds there shared, and itself with them.     *)
LEMMA BuildStep ==
    ASSUME CInv, NEW q \in Requests, Build(q), NEW r \in Active' \ shared'
    PROVE  Lone(r)'
<1>1. Active' = {q} /\ r = q
  BY DEF Build
<1>2. /\ pc'[q] = "forget" /\ client'[q] = {} /\ snapshot'[q] = cache /\ cache' = cache
  BY DEF Build, Goto, CInv, IInv, Typed, Shaped
<1> QED  BY <1>1, <1>2 DEF Lone

LEMMA LonesStep == CInv /\ [Next]_vars => LonesAreAlone'
<1> SUFFICES ASSUME CInv, [Next]_vars, NEW r \in Active' \ shared' PROVE Lone(r)'
  BY DEF LonesAreAlone
<1>1. CASE UNCHANGED vars
  BY <1>1 DEF vars, Active, CInv, LonesAreAlone, Lone
<1>2. ASSUME NEW q \in Requests, Build(q)
      PROVE  Lone(r)'
  BY <1>2, BuildStep
<1>3. ASSUME NEW q \in Requests,
             \/ UnknownContext(q) \/ Forget(q) \/ Forgotten(q) \/ Reuse(q) \/ NewFile(q)
             \/ WriteFile(q) \/ Loaded(q) \/ LoadFails(q) \/ End(q) \/ Wipe(q)
      PROVE  Lone(r)'
  <2>1. r \in Active \ shared /\ Lone(r)
    BY <1>3, OthersEnd DEF CInv, LonesAreAlone
  <2>2. CASE UnknownContext(q) \/ Wipe(q)
    BY <2>1, <2>2, OthersStay DEF UnknownContext, Wipe, Goto, Active
  <2>3. CASE LoadFails(q) \/ End(q)
    <3>1. q \in Active /\ q \notin Active'
      BY <2>3 DEF LoadFails, End, Goto, Active, CInv, IInv, Typed
    <3> QED  BY <2>1, <3>1 DEF Lone
  <2>4. CASE Forget(q) \/ Forgotten(q) \/ Reuse(q) \/ NewFile(q) \/ WriteFile(q) \/ Loaded(q)
    <3>1. q \in Active
      BY <2>4 DEF Forget, Forgotten, Reuse, NewFile, WriteFile, Loaded, Goto, Active
    <3>2. q = r
      BY <2>1, <3>1 DEF Lone
    <3> QED  BY <2>1, <2>4, <3>2, OwnStep
  <2> QED  BY <1>3, <2>2, <2>3, <2>4
<1> QED  BY <1>1, <1>2, <1>3 DEF Next

LEMMA InitCInv == Init => CInv
<1> SUFFICES ASSUME Init PROVE CInv
  OBVIOUS
<1>1. IInv
  BY InitIInv
<1>2. Active = {}
  BY DEF Init, Active
<1>3. IsFiniteSet(Active) /\ Cardinality(Active) = 0
  BY <1>2, FS_EmptySet
<1>4. Shaped
  BY <1>2, <1>3, ConcurrencyAssumption DEF Init, Shaped, TypeOK
<1>5. BlanksAreWritten /\ LonesAreAlone
  BY <1>2 DEF Init, BlanksAreWritten, LonesAreAlone
<1> QED  BY <1>1, <1>4, <1>5 DEF CInv

(* The memory of the library, and the files behind it, at all times.       *)
THEOREM CInvHolds == Spec => []CInv
<1>1. Init => CInv
  BY InitCInv
<1>2. CInv /\ [Next]_vars => CInv'
  BY StepTyped, StepFiles, ShapedStep, BlanksStep, LonesStep DEF CInv, IInv
<1> QED  BY <1>1, <1>2, PTL DEF Spec

(* Any number of requests and data: two calls each at most, no more        *)
(* requests at a time than the pod takes, one remembered file for each     *)
(* data, and nothing blank that does not exist.                            *)
THEOREM TypeCorrect == Spec => []TypeOK
<1>1. CInv => TypeOK
  BY DEF CInv, Shaped
<1> QED  BY <1>1, CInvHolds, PTL

(* A request that has been alone in the process since its build connects   *)
(* with files of its own, all of them there and written, whatever the      *)
(* requests before it have left in the library's memory (credentials.py).  *)
THEOREM LoneClientsConnect == Spec => []LoneClientsCanConnect
<1>1. CInv => LoneClientsCanConnect
  <2> SUFFICES ASSUME CInv, NEW r \in Active \ shared
               PROVE  /\ \A e \in client[r] : e[2].dir = r
                      /\ pc[r] = "ready" =>
                            /\ Keys(client[r]) = needs[r]
                            /\ \A e \in client[r] : e[2] \in files \ blank
    BY DEF LoneClientsCanConnect
  <2>1. Lone(r)
    BY DEF CInv, LonesAreAlone
  <2>2. \A e \in client[r] : e[2].dir = r
    BY <2>1 DEF Lone
  <2>3. \A f \in blank : pc[f.dir] = "write"
    BY DEF CInv, BlanksAreWritten
  <2> QED  BY <2>1, <2>2, <2>3 DEF Lone
<1> QED  BY <1>1, CInvHolds, PTL
=============================================================================
