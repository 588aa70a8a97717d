------------------------- MODULE SyncProtocolProofs -------------------------
(***************************************************************************)
(* What the client of module SyncProtocol guarantees for any number of     *)
(* runs, executions, retries and syncs, over a network that may do         *)
(* anything with a request but invent one.                                 *)
(***************************************************************************)
EXTENDS SyncProtocol, TLAPS

Uuids == {NoUuid} \union UNION {{s.uuid[r] : r \in s.runs} : s \in Settings}
Sync == [run : Runs, uuid : Uuids, state : SyncStates, batches : Seq(Nat)]
Message == [run : Runs, op : Calls, sid : 0..MaxSyncs, seq : Nat, items : Nat]

-----------------------------------------------------------------------------
\* The values of the variables: more than TypeOK says of requests and syncs.
Typed ==
    /\ setting \in Settings
    /\ pc \in [setting.runs -> Calls \union Final]
    /\ sid \in [setting.runs -> 0..Len(syncs)]
    /\ conflict \in [setting.runs -> 0..Len(syncs)]
    /\ seq \in [setting.runs -> Nat]
    /\ content \in [setting.runs -> setting.contents]
    /\ life \in [setting.runs -> 0..setting.restarts]
    /\ attempt \in [setting.runs -> 0..MaxRetries + 1]
    /\ net \subseteq Message
    /\ syncs \in Seq(Sync)
    /\ Len(syncs) <= MaxSyncs

\* A run that is past its open has a sync, it has a batch to push as long as
\* it pushes, and one that has ended makes no attempts.
InCall ==
    \A r \in setting.runs :
        /\ pc[r] \in Calls \ {"open"} => sid[r] # 0
        /\ pc[r] \in {"open", "items"} => seq[r] \in 1..Len(content[r])
        /\ pc[r] \in Final => attempt[r] = 0

\* A request was sent by a run there is, to a sync there is unless it opens
\* one; a sync carries the uuid of the run that opened it.
Attributed ==
    /\ \A m \in net :
          /\ m.run \in setting.runs /\ m.sid \in 0..Len(syncs)
          /\ m.op # "open" => m.sid # 0
    /\ \A s \in DOMAIN syncs : syncs[s].run \in setting.runs /\ syncs[s].uuid = Uuid(syncs[s].run)

IInv == Typed /\ InCall /\ Attributed /\ OwnSyncOnly

\* How papi's syncs go on: none changes hands.
Grows ==
    /\ syncs' \in Seq(Sync)
    /\ Len(syncs') \in Len(syncs)..MaxSyncs
    /\ \A s \in DOMAIN syncs : syncs'[s].run = syncs[s].run /\ syncs'[s].uuid = syncs[s].uuid
    /\ \A s \in DOMAIN syncs' \ DOMAIN syncs :
          syncs'[s].run \in setting.runs /\ syncs'[s].uuid = Uuid(syncs'[s].run)

-----------------------------------------------------------------------------
LEMMA SettingTypes ==
    ASSUME setting \in Settings
    PROVE  /\ setting.runs \subseteq Runs
           /\ setting.restarts \in Nat
           /\ \A c \in setting.contents : c \in Seq(Nat \ {0}) /\ Len(c) > 0
           /\ \A r \in setting.runs : Uuid(r) \in Uuids
<1>1. \A c \in setting.contents : c \in Seq(Nat \ {0}) /\ c # <<>>
  BY SettingsAssumption
<1>2. \A r \in setting.runs : Uuid(r) \in Uuids
  BY DEF Uuid, Uuids
<1> QED  BY <1>1, <1>2, SettingsAssumption

LEMMA UuidNamesRun ==
    ASSUME setting \in Settings, NEW q \in setting.runs, NEW r \in setting.runs,
           Uuid(q) = Uuid(r), Uuid(r) # NoUuid
    PROVE  q = r
BY UuidsAssumption DEF Uuid

\* A change to the fields of one sync that are not its run and uuid.
LEMMA ChangeGrows ==
    ASSUME Typed, Attributed, NEW s \in DOMAIN syncs, NEW new \in Sync,
           new.run = syncs[s].run, new.uuid = syncs[s].uuid,
           syncs' = [syncs EXCEPT ![s] = new]
    PROVE  Grows
<1>1. syncs \in Seq(Sync) /\ s \in 1..Len(syncs) /\ Len(syncs) \in Nat /\ Len(syncs) <= MaxSyncs
  BY DEF Typed
<1>2. syncs' \in Seq(Sync) /\ Len(syncs') = Len(syncs) /\ DOMAIN syncs' = DOMAIN syncs
  BY <1>1
<1>3. \A t \in DOMAIN syncs : syncs'[t] = IF t = s THEN new ELSE syncs[t]
  BY <1>1
<1> QED  BY <1>1, <1>2, <1>3, BoundsAssumption DEF Grows

LEMMA CloseGrows ==
    ASSUME Typed, Attributed, NEW s \in DOMAIN syncs, NEW state \in SyncStates,
           syncs' = Close(s, state)
    PROVE  Grows
<1> DEFINE new == [syncs[s] EXCEPT !.state = state]
<1>1. syncs[s] \in Sync
  BY DEF Typed
<1>2. new \in Sync /\ new.run = syncs[s].run /\ new.uuid = syncs[s].uuid
  BY <1>1 DEF Sync
<1>3. syncs' = [syncs EXCEPT ![s] = new]
  BY DEF Close
<1> QED  BY <1>2, <1>3, ChangeGrows

LEMMA SameGrows ==
    ASSUME Typed, UNCHANGED syncs
    PROVE  Grows
BY BoundsAssumption DEF Typed, Grows

LEMMA NewSyncType ==
    ASSUME Typed, NEW m, m.run \in setting.runs
    PROVE  NewSync(m) \in Sync
BY SettingTypes DEF Typed, NewSync, Sync, SyncStates

LEMMA AppendGrows ==
    ASSUME Typed, NEW m, m.run \in setting.runs, NEW old \in Seq(Sync),
           Len(old) = Len(syncs), Len(syncs) < MaxSyncs,
           \A s \in DOMAIN syncs : old[s].run = syncs[s].run /\ old[s].uuid = syncs[s].uuid,
           syncs' = Append(old, NewSync(m))
    PROVE  Grows /\ Len(syncs') # 0 /\ syncs'[Len(syncs')].run = m.run
<1>1. NewSync(m) \in Sync /\ NewSync(m).run = m.run /\ NewSync(m).uuid = Uuid(m.run)
  BY NewSyncType DEF NewSync
<1>2. syncs \in Seq(Sync) /\ Len(syncs) \in Nat /\ DOMAIN syncs = 1..Len(syncs)
  BY DEF Typed
<1> HIDE DEF NewSync
<1>3. syncs' \in Seq(Sync) /\ Len(syncs') = Len(old) + 1 /\ DOMAIN syncs' = 1..Len(old) + 1
  BY <1>1
<1>4. syncs'[Len(syncs')] = NewSync(m) /\ \A s \in 1..Len(old) : syncs'[s] = old[s]
  BY <1>1, <1>3
<1>5. DOMAIN syncs' \ DOMAIN syncs = {Len(syncs')}
  BY <1>2, <1>3
<1>6. Len(syncs') \in Len(syncs)..MaxSyncs
  BY <1>2, <1>3, BoundsAssumption
<1> QED  BY <1>1, <1>2, <1>3, <1>4, <1>5, <1>6 DEF Grows
-----------------------------------------------------------------------------
\* What an answer says of the syncs as they then are: a sync opened for a run
\* or found open for it is its own, and a conflict names whose it is.
Answered(m, answer) ==
    /\ answer.status \in {200, 400, 409}
    /\ answer.status = 409 => m.op = "open"
    /\ answer.sid \in 0..Len(syncs')
    /\ m.op = "open" /\ answer.status = 200 =>
          answer.sid # 0 /\ syncs'[answer.sid].run = m.run
    /\ answer.status = 409 =>
          answer.sid # 0 /\ answer.uuid = syncs'[answer.sid].uuid
    /\ answer.status = 400 => answer.sid = 0

LEMMA ReplyOpenHolds ==
    ASSUME Typed, Attributed, NEW m \in net, m.op = "open", NEW answer, ReplyOpen(m, answer)
    PROVE  Grows /\ Answered(m, answer)
<1>0. m.run \in setting.runs /\ syncs \in Seq(Sync) /\ Len(syncs) \in Nat
  BY DEF Attributed, Typed
<1>1. CASE /\ Len(syncs) < MaxSyncs
           /\ syncs' = Append(syncs, NewSync(m))
           /\ answer = Ok(Len(syncs'))
  <2>1. Grows /\ Len(syncs') # 0 /\ syncs'[Len(syncs')].run = m.run
    BY <1>0, <1>1, AppendGrows
  <2> QED  BY <1>0, <1>1, <2>1 DEF Grows, Answered, Ok
<1>2. ASSUME NEW s \in DOMAIN syncs, SameRun(s, m), UNCHANGED syncs, answer = Ok(s)
      PROVE  Grows /\ Answered(m, answer)
  <2>1. syncs[s].run = m.run
    BY <1>0, <1>2, UuidNamesRun DEF SameRun, Attributed, Typed
  <2>2. Grows
    BY <1>2, SameGrows
  <2> QED  BY <1>0, <1>2, <2>1, <2>2 DEF Answered, Ok
<1>3. ASSUME NEW s \in DOMAIN syncs, Len(syncs) < MaxSyncs,
             syncs' = Append(Close(s, "aborted"), NewSync(m)), answer = Ok(Len(syncs'))
      PROVE  Grows /\ Answered(m, answer)
  <2> DEFINE new == [syncs[s] EXCEPT !.state = "aborted"]
  <2>0. syncs[s] \in Sync
    BY <1>0
  <2>1. new \in Sync /\ new.run = syncs[s].run /\ new.uuid = syncs[s].uuid
    BY <2>0 DEF Sync, SyncStates
  <2>2. Close(s, "aborted") = [syncs EXCEPT ![s] = new]
    BY DEF Close
  <2> HIDE DEF new
  <2>3. /\ Close(s, "aborted") \in Seq(Sync) /\ Len(Close(s, "aborted")) = Len(syncs)
        /\ \A t \in DOMAIN syncs : Close(s, "aborted")[t].run = syncs[t].run
                                   /\ Close(s, "aborted")[t].uuid = syncs[t].uuid
    BY <1>0, <2>1, <2>2
  <2>4. Grows /\ Len(syncs') # 0 /\ syncs'[Len(syncs')].run = m.run
    BY <1>0, <1>3, <2>3, AppendGrows
  <2> QED  BY <1>0, <1>3, <2>4 DEF Grows, Answered, Ok
<1>4. ASSUME NEW s \in DOMAIN syncs, UNCHANGED syncs, answer = Conflict(s)
      PROVE  Grows /\ Answered(m, answer)
  <2>1. Grows
    BY <1>4, SameGrows
  <2> QED  BY <1>0, <1>4, <2>1 DEF Answered, Conflict
<1> QED  BY <1>1, <1>2, <1>3, <1>4 DEF ReplyOpen

LEMMA ReplyItemsHolds ==
    ASSUME Typed, Attributed, NEW m \in net, m.op = "items", NEW answer, ReplyItems(m, answer)
    PROVE  Grows /\ Answered(m, answer)
<1>1. m.sid \in DOMAIN syncs /\ syncs \in Seq(Sync) /\ Len(syncs) \in Nat
  BY DEF Attributed, Typed
<1>2. CASE UNCHANGED syncs /\ answer \in {Ok(m.sid), Refused}
  <2>1. Grows
    BY <1>2, SameGrows
  <2> QED  BY <1>1, <1>2, <2>1 DEF Answered, Ok, Refused
<1>3. CASE syncs' = [syncs EXCEPT ![m.sid].batches = Append(syncs[m.sid].batches, m.items)]
           /\ answer = Ok(m.sid)
  <2> DEFINE new == [syncs[m.sid] EXCEPT !.batches = Append(syncs[m.sid].batches, m.items)]
  <2>1. syncs[m.sid] \in Sync /\ m.items \in Nat
    BY <1>1 DEF Typed, Message
  <2>2. Append(syncs[m.sid].batches, m.items) \in Seq(Nat)
    BY <2>1 DEF Sync
  <2>3. new \in Sync /\ new.run = syncs[m.sid].run /\ new.uuid = syncs[m.sid].uuid
    BY <2>1, <2>2 DEF Sync
  <2>4. syncs' = [syncs EXCEPT ![m.sid] = new]
    BY <1>3
  <2>5. Grows
    BY <1>1, <2>3, <2>4, ChangeGrows
  <2> QED  BY <1>1, <1>3, <2>5 DEF Answered, Ok, Grows
<1> QED  BY <1>2, <1>3 DEF ReplyItems

LEMMA ReplyEndHolds ==
    ASSUME Typed, Attributed, NEW m \in net, m.op \in {"commit", "abort"}, NEW answer,
           NEW state \in SyncStates, ReplyEnd(m, answer, state)
    PROVE  Grows /\ Answered(m, answer)
<1>1. m.sid \in DOMAIN syncs /\ syncs \in Seq(Sync) /\ Len(syncs) \in Nat
  BY DEF Attributed, Typed
<1>2. Grows
  BY <1>1, CloseGrows, SameGrows DEF ReplyEnd
<1>3. answer \in {Ok(m.sid), Refused}
  BY DEF ReplyEnd
<1> QED  BY <1>1, <1>2, <1>3 DEF Answered, Ok, Refused, Grows

LEMMA ReplyHolds ==
    ASSUME Typed, Attributed, NEW m \in net, NEW answer, Reply(m, answer)
    PROVE  Grows /\ Answered(m, answer)
<1>1. CASE UNCHANGED syncs /\ answer = Refused
  <2>1. Grows
    BY <1>1, SameGrows
  <2>2. Len(syncs) \in Nat
    BY DEF Typed
  <2> QED  BY <1>1, <2>1, <2>2 DEF Answered, Refused
<1>2. {"committed", "aborted"} \subseteq SyncStates
  BY DEF SyncStates
<1> QED  BY <1>1, <1>2, ReplyOpenHolds, ReplyItemsHolds, ReplyEndHolds DEF Reply

-----------------------------------------------------------------------------
\* The part of the invariant that papi's side of a step keeps.
LEMMA GrowsKeeps ==
    ASSUME IInv, Grows, UNCHANGED <<client, net, setting>>
    PROVE  IInv'
<1>0. /\ setting' = setting /\ net' = net /\ pc' = pc /\ sid' = sid /\ seq' = seq
      /\ content' = content /\ life' = life /\ attempt' = attempt /\ conflict' = conflict
  BY DEF client
<1>1. Len(syncs) \in Nat /\ Len(syncs') \in Nat /\ Len(syncs) <= Len(syncs')
  BY DEF IInv, Typed, Grows
<1>2. DOMAIN syncs = 1..Len(syncs) /\ DOMAIN syncs' = 1..Len(syncs')
  BY DEF IInv, Typed, Grows
<1>3. Typed'
  <2>1. 0..Len(syncs) \subseteq 0..Len(syncs')
    BY <1>1
  <2>2. sid' \in [setting'.runs -> 0..Len(syncs')] /\ conflict' \in [setting'.runs -> 0..Len(syncs')]
    BY <1>0, <2>1 DEF IInv, Typed
  <2>3. Len(syncs') <= MaxSyncs
    BY <1>1, BoundsAssumption DEF Grows
  <2> QED  BY <1>0, <2>2, <2>3 DEF IInv, Typed, Grows
<1>4. InCall'
  BY <1>0 DEF IInv, InCall
<1>5. Attributed'
  BY <1>0, <1>1, <1>2 DEF IInv, Attributed, Grows, Uuid
<1>6. OwnSyncOnly'
  <2>1. \A r \in setting.runs : sid[r] # 0 => sid[r] \in DOMAIN syncs
    BY <1>1, <1>2 DEF IInv, Typed
  <2>2. \A m \in net : m.sid # 0 => m.sid \in DOMAIN syncs
    BY <1>1, <1>2 DEF IInv, Attributed
  <2>3. \A r \in setting.runs : sid[r] # 0 => syncs'[sid[r]].run = r
    BY <2>1 DEF IInv, OwnSyncOnly, Grows
  <2>4. \A m \in net : m.sid # 0 => syncs'[m.sid].run = m.run
    BY <2>2 DEF IInv, OwnSyncOnly, Grows
  <2> QED  BY <1>0, <2>3, <2>4 DEF OwnSyncOnly
<1> QED  BY <1>3, <1>4, <1>5, <1>6 DEF IInv

\* A call of run r is over, and it goes on: with sync s, if any, which is its
\* own.
LEMMA MoveKeeps ==
    ASSUME IInv, Grows, UNCHANGED <<net, setting, content, life>>,
           NEW r \in setting.runs,
           NEW next \in Calls \union Final, Enter(r, next),
           NEW s \in 0..Len(syncs'), sid' = [sid EXCEPT ![r] = s],
           NEW n \in Nat, seq' = [seq EXCEPT ![r] = n],
           NEW c \in 0..Len(syncs'), conflict' = [conflict EXCEPT ![r] = c],
           s # 0 => syncs'[s].run = r,
           next \in Calls \ {"open"} => s # 0,
           next \in {"open", "items"} => n \in 1..Len(content[r])
    PROVE  IInv'
<1>1. Len(syncs) \in Nat /\ Len(syncs') \in Nat /\ Len(syncs) <= Len(syncs')
  BY DEF IInv, Typed, Grows
<1>2. DOMAIN syncs = 1..Len(syncs) /\ DOMAIN syncs' = 1..Len(syncs')
  BY DEF IInv, Typed, Grows
<1>3. Typed'
  <2>1. 0..Len(syncs) \subseteq 0..Len(syncs') /\ 0 \in 0..MaxRetries + 1
    BY <1>1, BoundsAssumption
  <2>2. sid' \in [setting.runs -> 0..Len(syncs')] /\ conflict' \in [setting.runs -> 0..Len(syncs')]
    BY <2>1 DEF IInv, Typed
  <2>3. /\ pc' \in [setting.runs -> Calls \union Final]
        /\ attempt' \in [setting.runs -> 0..MaxRetries + 1]
        /\ seq' \in [setting.runs -> Nat]
    BY <2>1 DEF IInv, Typed, Enter
  <2>4. Len(syncs') <= MaxSyncs
    BY <1>1, BoundsAssumption DEF Grows
  <2> QED  BY <2>2, <2>3, <2>4 DEF IInv, Typed, Grows
<1>4. InCall'
  BY DEF IInv, Typed, InCall, Enter
<1>5. Attributed'
  BY <1>1, <1>2 DEF IInv, Attributed, Grows, Uuid
<1>6. OwnSyncOnly'
  <2>1. \A q \in setting.runs : sid[q] # 0 => sid[q] \in DOMAIN syncs
    BY <1>1, <1>2 DEF IInv, Typed
  <2>2. \A m \in net : m.sid # 0 => m.sid \in DOMAIN syncs
    BY <1>1, <1>2 DEF IInv, Attributed
  <2>3. \A q \in setting.runs : sid[q] # 0 => syncs'[sid[q]].run = q
    BY <2>1 DEF IInv, OwnSyncOnly, Grows
  <2>4. \A m \in net : m.sid # 0 => syncs'[m.sid].run = m.run
    BY <2>2 DEF IInv, OwnSyncOnly, Grows
  <2>5. \A q \in setting.runs : sid'[q] = IF q = r THEN s ELSE sid[q]
    BY DEF IInv, Typed
  <2> QED  BY <2>3, <2>4, <2>5 DEF OwnSyncOnly
<1> QED  BY <1>3, <1>4, <1>5, <1>6 DEF IInv

\* What a run that keeps its sync, its place and its conflict looks like.
LEMMA Unmoved ==
    ASSUME IInv, Grows, NEW r \in setting.runs
    PROVE  /\ sid[r] \in 0..Len(syncs') /\ conflict[r] \in 0..Len(syncs') /\ seq[r] \in Nat
           /\ sid[r] # 0 => syncs'[sid[r]].run = r
           /\ UNCHANGED sid => sid' = [sid EXCEPT ![r] = sid[r]]
           /\ UNCHANGED seq => seq' = [seq EXCEPT ![r] = seq[r]]
           /\ UNCHANGED conflict => conflict' = [conflict EXCEPT ![r] = conflict[r]]
<1>1. Len(syncs) \in Nat /\ Len(syncs') \in Nat /\ Len(syncs) <= Len(syncs') /\ DOMAIN syncs = 1..Len(syncs)
  BY DEF IInv, Typed, Grows
<1>2. sid[r] \in 0..Len(syncs) /\ conflict[r] \in 0..Len(syncs) /\ seq[r] \in Nat
  BY DEF IInv, Typed
<1>3. sid[r] # 0 => syncs'[sid[r]].run = r
  BY <1>1, <1>2 DEF IInv, OwnSyncOnly, Grows
<1>4. sid[r] \in 0..Len(syncs') /\ conflict[r] \in 0..Len(syncs')
  BY <1>1, <1>2
<1>5. /\ sid = [sid EXCEPT ![r] = sid[r]]
      /\ seq = [seq EXCEPT ![r] = seq[r]]
      /\ conflict = [conflict EXCEPT ![r] = conflict[r]]
  BY DEF IInv, Typed
<1> QED  BY <1>2, <1>3, <1>4, <1>5

\* An exception, wherever it comes from.
LEMMA RaiseKeeps ==
    ASSUME IInv, Grows, NEW r \in setting.runs, pc[r] \in Calls, Raise(r),
           UNCHANGED <<net, setting, content, life, sid, seq>>,
           NEW c \in 0..Len(syncs'), conflict' = [conflict EXCEPT ![r] = c]
    PROVE  IInv'
<1> DEFINE next == IF pc[r] \in {"items", "commit"} THEN "abort" ELSE "failed"
<1>1. Enter(r, next) /\ next \in Calls \union Final /\ next \notin {"open", "items"}
  BY DEF Raise, Calls, Final
<1>2. next \in Calls \ {"open"} => sid[r] # 0
  BY DEF IInv, InCall, Calls
<1> HIDE DEF next
<1>3. /\ sid[r] \in 0..Len(syncs') /\ seq[r] \in Nat /\ (sid[r] # 0 => syncs'[sid[r]].run = r)
      /\ sid' = [sid EXCEPT ![r] = sid[r]] /\ seq' = [seq EXCEPT ![r] = seq[r]]
  BY Unmoved
<1> QED  BY <1>1, <1>2, <1>3, MoveKeeps

-----------------------------------------------------------------------------
\* Whose a sync is that papi has after a step.
LEMMA SyncOwner ==
    ASSUME IInv, Grows, NEW s \in DOMAIN syncs'
    PROVE  syncs'[s].run \in setting.runs /\ syncs'[s].uuid = Uuid(syncs'[s].run)
BY DEF IInv, Attributed, Grows

\* What a run takes from the answer to its open is a sync of its own.
LEMMA OpenedIsOwn ==
    ASSUME IInv, Grows, NEW r \in setting.runs, NEW m, m.op = "open", m.run = r,
           NEW answer, Answered(m, answer),
           answer.status = 200 \/ (answer.status = 409 /\ Adopts(r, answer))
    PROVE  answer.sid # 0 /\ syncs'[answer.sid].run = r
<1>1. CASE answer.status = 200
  BY <1>1 DEF Answered
<1>2. CASE answer.status = 409 /\ Adopts(r, answer)
  <2>1. answer.sid \in DOMAIN syncs'
    BY <1>2 DEF Answered, Grows
  <2> DEFINE q == syncs'[answer.sid].run
  <2>2. q \in setting.runs /\ Uuid(q) = answer.uuid
    BY <1>2, <2>1, SyncOwner DEF Answered
  <2>3. Uuid(q) = Uuid(r) /\ Uuid(r) # NoUuid
    BY <1>2, <2>2 DEF Adopts
  <2>4. setting \in Settings
    BY DEF IInv, Typed
  <2> HIDE DEF q
  <2>5. q = r
    BY <2>2, <2>3, <2>4, UuidNamesRun
  <2> QED  BY <1>2, <2>1, <2>5 DEF Answered, q
<1> QED  BY <1>1, <1>2

LEMMA ServeHolds ==
    ASSUME IInv, NEW m \in net, Serve(m)
    PROVE  IInv'
<1>1. PICK answer : /\ Reply(m, answer)
                    /\ \/ /\ m = Request(m.run)
                          /\ \/ m.op = "open" /\ Opened(m.run, answer)
                             \/ m.op = "items" /\ Pushed(m.run, answer)
                             \/ m.op \in {"commit", "abort"} /\ Ended(m.run, answer)
                          /\ UNCHANGED <<content, life>>
                       \/ UNCHANGED client
  BY DEF Serve
<1>2. UNCHANGED <<net, setting>>
  BY DEF Serve
<1>3. Grows /\ Answered(m, answer)
  BY <1>1, ReplyHolds DEF IInv
<1> DEFINE r == m.run
<1>4. r \in setting.runs /\ m.op \in Calls
  BY DEF IInv, Attributed, Typed, Message
<1>5. CASE UNCHANGED client
  BY <1>2, <1>3, <1>5, GrowsKeeps
<1>6. ASSUME m = Request(r), m.op = "open", Opened(r, answer), UNCHANGED <<content, life>>
      PROVE  IInv'
  <2>1. pc[r] = "open" /\ seq[r] \in 1..Len(content[r])
    BY <1>4, <1>6 DEF Request, IInv, InCall
  <2>2. answer.sid \in 0..Len(syncs')
    BY <1>3 DEF Answered
  <2>3. CASE answer.status = 200 \/ (answer.status = 409 /\ Adopts(r, answer))
    <3>1. answer.sid # 0 /\ syncs'[answer.sid].run = r
      BY <1>3, <1>4, <1>6, <2>3, OpenedIsOwn
    <3>2. Enter(r, "items") /\ sid' = [sid EXCEPT ![r] = answer.sid] /\ UNCHANGED <<seq, conflict>>
      BY <1>6, <2>3 DEF Opened
    <3>3. "items" \in Calls \union Final
      BY DEF Calls
    <3> QED  BY <1>2, <1>3, <1>4, <1>6, <2>1, <2>2, <3>1, <3>2, <3>3, Unmoved, MoveKeeps
  <2>4. CASE ~(answer.status = 200 \/ (answer.status = 409 /\ Adopts(r, answer)))
    <3>1. Raise(r) /\ conflict' = [conflict EXCEPT ![r] = answer.sid] /\ UNCHANGED <<sid, seq>>
      BY <1>6, <2>4 DEF Opened
    <3> QED  BY <1>2, <1>3, <1>4, <1>6, <2>1, <2>2, <3>1, RaiseKeeps
  <2> QED  BY <2>3, <2>4
<1>7. ASSUME m = Request(r), m.op = "items", Pushed(r, answer), UNCHANGED <<content, life>>
      PROVE  IInv'
  <2>1. pc[r] = "items" /\ seq[r] \in 1..Len(content[r]) /\ sid[r] # 0
    BY <1>4, <1>7 DEF Request, IInv, InCall, Calls
  <2>2. CASE answer.status = 200
    <3> DEFINE next == IF seq[r] = Len(content[r]) THEN "commit" ELSE "items"
    <3>1. /\ Enter(r, next) /\ next \in Calls \union Final /\ next # "open"
          /\ UNCHANGED <<sid, conflict>>
      BY <1>7, <2>2 DEF Pushed, Calls
    <3>2. seq' = [seq EXCEPT ![r] = seq[r] + 1]
      BY <1>7, <2>2 DEF Pushed
    <3>3. content[r] \in Seq(Nat \ {0})
      BY <1>4, SettingTypes DEF IInv, Typed
    <3>4. seq[r] + 1 \in Nat /\ (next = "items" => seq[r] + 1 \in 1..Len(content[r]))
      BY <2>1, <3>3
    <3>5. /\ sid[r] \in 0..Len(syncs') /\ conflict[r] \in 0..Len(syncs')
          /\ syncs'[sid[r]].run = r
          /\ sid' = [sid EXCEPT ![r] = sid[r]] /\ conflict' = [conflict EXCEPT ![r] = conflict[r]]
      BY <1>3, <1>4, <2>1, <3>1, Unmoved
    <3> HIDE DEF next
    <3>6. next \in {"open", "items"} => seq[r] + 1 \in 1..Len(content[r])
      BY <3>1, <3>4
    <3>7. UNCHANGED <<net, setting, content, life>>
      BY <1>2, <1>7
    <3>8. seq[r] + 1 \in Nat /\ next \in Calls \union Final /\ Enter(r, next)
      BY <3>1, <3>4
    <3>9. next \in Calls \ {"open"} => sid[r] # 0
      BY <2>1
    <3> DEFINE n == seq[r] + 1
    <3>10. n \in Nat /\ seq' = [seq EXCEPT ![r] = n]
           /\ (next \in {"open", "items"} => n \in 1..Len(content[r]))
      BY <3>2, <3>6, <3>8
    <3> HIDE DEF n, r
    <3> QED  BY <1>3, <1>4, <3>5, <3>7, <3>8, <3>9, <3>10, MoveKeeps
  <2>3. CASE answer.status # 200
    BY <1>2, <1>3, <1>4, <1>7, <2>1, <2>3, Unmoved, RaiseKeeps DEF Pushed
  <2> QED  BY <2>2, <2>3
<1>8. ASSUME m = Request(r), m.op \in {"commit", "abort"}, Ended(r, answer), UNCHANGED <<content, life>>
      PROVE  IInv'
  <2>1. pc[r] \in {"commit", "abort"} /\ UNCHANGED <<sid, seq, conflict>>
    BY <1>8 DEF Request, Ended
  <2>2. CASE Enter(r, "done")
    <3>1. "done" \in (Calls \union Final) \ Calls
      BY DEF Calls, Final
    <3>2. "done" \notin {"open", "items"}
      OBVIOUS
    <3> QED  BY <1>2, <1>3, <1>4, <1>8, <2>1, <2>2, <3>1, <3>2, Unmoved, MoveKeeps
  <2>3. CASE Raise(r)
    BY <1>2, <1>3, <1>4, <1>8, <2>1, <2>3, Unmoved, RaiseKeeps DEF Calls
  <2> QED  BY <1>8, <2>2, <2>3 DEF Ended
<1> QED  BY <1>1, <1>5, <1>6, <1>7, <1>8

-----------------------------------------------------------------------------
LEMMA SendHolds ==
    ASSUME IInv, NEW r \in setting.runs, Send(r)
    PROVE  IInv'
<1>1. /\ pc[r] \in Calls /\ attempt[r] <= MaxRetries
      /\ net' = net \union {Request(r)} /\ attempt' = [attempt EXCEPT ![r] = @ + 1]
      /\ UNCHANGED <<pc, sid, seq, content, life, conflict, syncs, setting>>
  BY DEF Send
<1>2. sid[r] \in 0..Len(syncs) /\ Len(syncs) \in Nat /\ Len(syncs) <= MaxSyncs /\ MaxSyncs \in Nat
  BY BoundsAssumption DEF IInv, Typed
<1>3. pc[r] = "items" => seq[r] \in Nat /\ content[r][seq[r]] \in Nat
  <2>1. content[r] \in Seq(Nat \ {0})
    BY SettingTypes DEF IInv, Typed
  <2>2. pc[r] = "items" => seq[r] \in 1..Len(content[r])
    BY DEF IInv, InCall
  <2> QED  BY <2>1, <2>2
<1>4. Request(r) \in Message
  BY <1>1, <1>2, <1>3, SettingTypes DEF Request, Message, IInv, Typed
<1>5. attempt' \in [setting.runs -> 0..MaxRetries + 1]
  <2>1. attempt[r] + 1 \in 0..MaxRetries + 1
    BY <1>1, BoundsAssumption DEF IInv, Typed
  <2> QED  BY <1>1, <2>1 DEF IInv, Typed
<1>6. Typed'
  BY <1>1, <1>4, <1>5 DEF IInv, Typed
<1>7. InCall'
  BY <1>1 DEF IInv, InCall, Calls, Final
<1>8. Request(r).run = r /\ Request(r).sid = sid[r] /\ Request(r).op = pc[r]
  BY DEF Request
<1>9. Attributed'
  <2>1. pc[r] # "open" => sid[r] # 0
    BY <1>1 DEF IInv, InCall
  <2> QED  BY <1>1, <1>2, <1>8, <2>1 DEF IInv, Attributed, Uuid
<1>10. OwnSyncOnly'
  BY <1>1, <1>8 DEF IInv, OwnSyncOnly
<1> QED  BY <1>6, <1>7, <1>9, <1>10 DEF IInv

LEMMA GiveUpHolds ==
    ASSUME IInv, NEW r \in setting.runs, GiveUp(r)
    PROVE  IInv'
<1>1. Raise(r) /\ UNCHANGED <<sid, seq, content, life, conflict, net, syncs, setting>>
  BY DEF GiveUp
<1>2. Grows
  BY <1>1, SameGrows DEF IInv
<1>3. pc[r] \in Calls
  BY BoundsAssumption DEF GiveUp, IInv, InCall, Typed
<1> QED  BY <1>1, <1>2, <1>3, Unmoved, RaiseKeeps

LEMMA RestartHolds ==
    ASSUME IInv, NEW r \in setting.runs, Restart(r)
    PROVE  IInv'
<1>1. /\ life[r] < setting.restarts /\ life' = [life EXCEPT ![r] = @ + 1]
      /\ Enter(r, "open") /\ sid' = [sid EXCEPT ![r] = 0] /\ seq' = [seq EXCEPT ![r] = 1]
      /\ UNCHANGED <<conflict, net, syncs, setting>>
  BY DEF Restart
<1>2. PICK c \in setting.contents : content' = [content EXCEPT ![r] = c]
  BY DEF Restart
<1>3. 1 \in 1..Len(c)
  BY SettingTypes DEF IInv, Typed
<1>4. Typed'
  <2>0. life[r] \in 0..setting.restarts /\ setting.restarts \in Nat /\ Len(syncs) \in Nat /\ MaxRetries \in Nat
    <3>1. setting.restarts \in Nat
      BY SettingTypes DEF IInv, Typed
    <3>3. MaxRetries \in Nat
      BY BoundsAssumption
    <3>2. life[r] \in 0..setting.restarts /\ Len(syncs) \in Nat
      BY DEF IInv, Typed
    <3> QED  BY <3>1, <3>2, <3>3
  <2>1. life[r] + 1 \in 0..setting.restarts /\ 0 \in 0..Len(syncs) /\ 0 \in 0..MaxRetries + 1
    BY <1>1, <2>0
  <2>2. life' \in [setting.runs -> 0..setting.restarts] /\ content' \in [setting.runs -> setting.contents]
    BY <1>1, <1>2, <2>1 DEF IInv, Typed
  <2>3. /\ pc' \in [setting.runs -> Calls \union Final] /\ sid' \in [setting.runs -> 0..Len(syncs)]
        /\ seq' \in [setting.runs -> Nat] /\ attempt' \in [setting.runs -> 0..MaxRetries + 1]
    BY <1>1, <2>1 DEF IInv, Typed, Enter, Calls
  <2> QED  BY <1>1, <2>2, <2>3 DEF IInv, Typed
<1>5. InCall'
  BY <1>1, <1>2, <1>3 DEF IInv, Typed, InCall, Enter, Final
<1>6. Attributed'
  BY <1>1 DEF IInv, Attributed, Uuid
<1>7. OwnSyncOnly'
  BY <1>1 DEF IInv, Typed, OwnSyncOnly
<1> QED  BY <1>4, <1>5, <1>6, <1>7 DEF IInv

LEMMA LeaseExpiresHolds ==
    ASSUME IInv, LeaseExpires
    PROVE  IInv'
<1>1. PICK s \in DOMAIN syncs : syncs' = Close(s, "expired")
  BY DEF LeaseExpires
<1>2. Grows
  BY <1>1, CloseGrows DEF IInv, SyncStates
<1> QED  BY <1>2, GrowsKeeps DEF LeaseExpires

LEMMA InitHolds == Init => IInv
<1> SUFFICES ASSUME Init PROVE IInv
  OBVIOUS
<1>1. syncs = <<>> /\ Len(syncs) = 0 /\ syncs \in Seq(Sync)
  BY DEF Init
<1>2. Typed
  <2>1. 0 \in 0..setting.restarts /\ 0 \in 0..MaxRetries + 1 /\ Len(syncs) <= MaxSyncs
    BY <1>1, SettingTypes, BoundsAssumption DEF Init
  <2> QED  BY <1>1, <2>1 DEF Init, Typed, Calls
<1>3. InCall
  BY SettingTypes DEF Init, InCall, Calls
<1>4. Attributed
  BY <1>1 DEF Init, Attributed
<1>5. OwnSyncOnly
  BY DEF Init, OwnSyncOnly
<1> QED  BY <1>2, <1>3, <1>4, <1>5 DEF IInv

LEMMA StepHolds == IInv /\ [Next]_vars => IInv'
<1> SUFFICES ASSUME IInv, [Next]_vars PROVE IInv'
  OBVIOUS
<1>1. ASSUME NEW r \in setting.runs, Send(r) PROVE IInv'
  BY <1>1, SendHolds
<1>2. ASSUME NEW r \in setting.runs, GiveUp(r) PROVE IInv'
  BY <1>2, GiveUpHolds
<1>3. ASSUME NEW r \in setting.runs, Restart(r) PROVE IInv'
  BY <1>3, RestartHolds
<1>4. ASSUME NEW m \in net, Serve(m) PROVE IInv'
  BY <1>4, ServeHolds
<1>5. CASE LeaseExpires
  BY <1>5, LeaseExpiresHolds
<1>6. CASE UNCHANGED vars
  BY <1>6, SameGrows, GrowsKeeps DEF IInv, vars
<1> QED  BY <1>1, <1>2, <1>3, <1>4, <1>5, <1>6 DEF Next

LEMMA Invariance == Spec => []IInv
<1> QED  BY InitHolds, StepHolds, PTL DEF Spec

-----------------------------------------------------------------------------
\* The state of a client and of papi, whatever the network does: no more than
\* MAX_RETRIES + 1 attempts, and no sync that papi does not have.
THEOREM TypeCorrect == Spec => []TypeOK
<1>1. IInv => TypeOK
  <2> SUFFICES ASSUME IInv PROVE TypeOK
    OBVIOUS
  <2>1. \A s \in DOMAIN syncs : syncs[s].state \in SyncStates /\ syncs[s].run \in setting.runs
    <3> SUFFICES ASSUME NEW s \in DOMAIN syncs
                 PROVE  syncs[s].state \in SyncStates /\ syncs[s].run \in setting.runs
      OBVIOUS
    <3>1. syncs[s] \in Sync
      BY DEF IInv, Typed
    <3> QED  BY <3>1 DEF IInv, Attributed, Sync
  <2> QED  BY <2>1 DEF IInv, Typed, TypeOK
<1> QED  BY <1>1, Invariance, PTL

\* For any number of runs, executions, attempts and syncs, and any order, loss
\* and repetition of requests: a run never pushes into, commits or aborts a
\* sync that another run opened, by adoption or by a late request.
THEOREM RunsKeepToTheirOwn == Spec => []OwnSyncOnly
<1>1. IInv => OwnSyncOnly
  BY DEF IInv
<1> QED  BY <1>1, Invariance, PTL

\* Of the runs that pass a uuid, the conflict of each is with another's sync.
OwnConflictsLackUuid ==
    \A r \in setting.runs : conflict[r] # 0 /\ syncs[conflict[r]].run = r => Uuid(r) = NoUuid

LEMMA ConflictKeeps ==
    ASSUME IInv, OwnConflictsLackUuid, Grows, UNCHANGED setting, NEW r \in setting.runs,
           NEW c \in 0..Len(syncs'), conflict' = [conflict EXCEPT ![r] = c],
           c # 0 /\ syncs'[c].run = r => Uuid(r) = NoUuid
    PROVE  OwnConflictsLackUuid'
<1>1. /\ DOMAIN syncs = 1..Len(syncs) /\ Len(syncs) \in Nat
      /\ conflict \in [setting.runs -> 0..Len(syncs)]
  BY DEF IInv, Typed
<1>2. \A q \in setting.runs : conflict[q] # 0 => syncs'[conflict[q]].run = syncs[conflict[q]].run
  BY <1>1 DEF Grows
<1>3. \A q \in setting.runs : conflict'[q] = IF q = r THEN c ELSE conflict[q]
  BY <1>1
<1> QED  BY <1>2, <1>3 DEF OwnConflictsLackUuid, Uuid

\* Syncs that only grow leave an old conflict what it is.
LEMMA NoConflictKeeps ==
    ASSUME IInv, OwnConflictsLackUuid, Grows, UNCHANGED <<setting, conflict>>
    PROVE  OwnConflictsLackUuid'
<1>1. /\ DOMAIN syncs = 1..Len(syncs) /\ Len(syncs) \in Nat
      /\ conflict \in [setting.runs -> 0..Len(syncs)]
  BY DEF IInv, Typed
<1>2. \A q \in setting.runs : conflict[q] # 0 => syncs'[conflict[q]].run = syncs[conflict[q]].run
  BY <1>1 DEF Grows
<1> QED  BY <1>2 DEF OwnConflictsLackUuid, Uuid

LEMMA ConflictStep ==
    ASSUME IInv, OwnConflictsLackUuid, [Next]_vars
    PROVE  OwnConflictsLackUuid'
<1>1. ASSUME NEW m \in net, Serve(m) PROVE OwnConflictsLackUuid'
  <2>1. PICK answer : /\ Reply(m, answer)
                      /\ \/ /\ \/ m.op = "open" /\ Opened(m.run, answer)
                               \/ m.op = "items" /\ Pushed(m.run, answer)
                               \/ m.op \in {"commit", "abort"} /\ Ended(m.run, answer)
                         \/ UNCHANGED client
    BY <1>1 DEF Serve
  <2>2. UNCHANGED setting /\ Grows /\ Answered(m, answer)
    BY <1>1, <2>1, ReplyHolds DEF Serve, IInv
  <2>3. m.run \in setting.runs
    BY DEF IInv, Attributed
  <2>4. CASE UNCHANGED conflict
    BY <2>2, <2>4, NoConflictKeeps
  <2>5. CASE /\ m.op = "open" /\ ~(answer.status = 409 /\ Adopts(m.run, answer)) /\ answer.status # 200
             /\ conflict' = [conflict EXCEPT ![m.run] = answer.sid]
    <3>1. answer.sid \in 0..Len(syncs')
      BY <2>2 DEF Answered
    <3>2. ASSUME answer.sid # 0, Uuid(m.run) # NoUuid PROVE syncs'[answer.sid].run # m.run
      <4>1. answer.status = 409 /\ answer.uuid = syncs'[answer.sid].uuid /\ answer.sid \in DOMAIN syncs'
        BY <2>2, <2>5, <3>2 DEF Answered, Grows
      <4>2. answer.uuid # Uuid(m.run)
        BY <2>5, <3>2, <4>1 DEF Adopts
      <4> QED  BY <2>2, <4>1, <4>2, SyncOwner
    <3> QED  BY <2>2, <2>3, <2>5, <3>1, <3>2, ConflictKeeps
  <2>6. \/ UNCHANGED conflict
        \/ /\ m.op = "open" /\ ~(answer.status = 409 /\ Adopts(m.run, answer)) /\ answer.status # 200
           /\ conflict' = [conflict EXCEPT ![m.run] = answer.sid]
    BY <2>1 DEF Opened, Pushed, Ended, client
  <2> QED  BY <2>4, <2>5, <2>6
<1>2. ASSUME UNCHANGED <<syncs, setting, conflict>> PROVE OwnConflictsLackUuid'
  BY <1>2, SameGrows, NoConflictKeeps DEF IInv
<1>3. CASE LeaseExpires
  <2>1. PICK s \in DOMAIN syncs : syncs' = Close(s, "expired")
    BY <1>3 DEF LeaseExpires
  <2>2. Grows
    BY <2>1, CloseGrows DEF IInv, SyncStates
  <2> QED  BY <1>3, <2>2, NoConflictKeeps DEF LeaseExpires, client
<1> QED  BY <1>1, <1>2, <1>3 DEF Next, Send, GiveUp, Restart, vars, client

\* Whatever answers to open are lost, at any attempt of any execution: a run
\* that is in conflict with a sync of its own is one that passes no uuid. So
\* that tasks.py passes none is all there is to what run SyncOpenLost shows;
\* with one, sync.py keeps its word.
LEMMA OwnConflicts == Spec => []OwnConflictsLackUuid
<1>1. Init => OwnConflictsLackUuid
  BY DEF Init, OwnConflictsLackUuid
<1>2. IInv /\ OwnConflictsLackUuid /\ [Next]_vars => OwnConflictsLackUuid'
  BY ConflictStep
<1> QED  BY <1>1, <1>2, Invariance, PTL DEF Spec

-----------------------------------------------------------------------------
(* What is in a committed sync.                                            *)

\* The part of a request that tells its sync is past the first batch.
Late(m, s) == m.sid = s /\ (m.op = "commit" \/ (m.op = "items" /\ m.seq > 1))

\* A sync that may still be adopted by any execution of its run: it has been
\* sent first batches at most, and has one of them at most.
Young(s) == Len(syncs[s].batches) <= 1 /\ \A m \in net : ~Late(m, s)

\* A sync that one execution has made its own: it holds a beginning of what
\* this had to push, later batches are on their way as this numbered them,
\* and a commit was only sent when all were stored.
Follows(s, c) ==
    /\ Len(syncs[s].batches) \in 1..Len(c)
    /\ \A i \in DOMAIN syncs[s].batches : syncs[s].batches[i] = c[i]
    /\ \A m \in net : m.sid = s /\ m.op = "items" /\ m.seq > 1 => m.seq \in DOMAIN c /\ m.items = c[m.seq]
    /\ \A m \in net : m.sid = s /\ m.op = "commit" => Len(syncs[s].batches) = Len(c)

Complete(s, c) == Follows(s, c) /\ Len(syncs[s].batches) = Len(c)

\* Every sync is one or the other, and it takes a commit to be committed.
Attended ==
    \A s \in DOMAIN syncs :
        /\ Young(s) \/ \E c \in setting.contents : Follows(s, c)
        /\ syncs[s].state = "committed" => \E m \in net : m.op = "commit" /\ m.sid = s

\* Where a run is in its sync: what it has an answer for is there.
At(r) ==
    /\ pc[r] = "open" => seq[r] = 1
    /\ pc[r] = "items" /\ seq[r] = 1 => Young(sid[r])
    /\ pc[r] = "items" /\ seq[r] > 1 =>
          Follows(sid[r], content[r]) /\ Len(syncs[sid[r]].batches) >= seq[r] - 1
    /\ pc[r] = "commit" => Complete(sid[r], content[r])
    /\ pc[r] = "done" =>
          sid[r] # 0 /\ Complete(sid[r], content[r]) /\ syncs[sid[r]].state = "committed"
InStep == \A r \in setting.runs : At(r)

\* A run that cannot have been executed before has pushed nothing while it is
\* in open_sync.
Fresh ==
    setting.restarts = 0 =>
        \A r \in setting.runs : pc[r] = "open" =>
            /\ \A m \in net : m.run = r => m.op = "open"
            /\ \A s \in DOMAIN syncs : syncs[s].run = r => syncs[s].batches = <<>>

\* What becomes of the batches and states of papi's syncs in a step.
Progress ==
    /\ \A s \in DOMAIN syncs :
          /\ syncs[s].state # "open" => syncs'[s] = syncs[s]
          /\ \/ /\ syncs'[s].batches = syncs[s].batches
                /\ syncs'[s].state = "committed" =>
                      syncs[s].state = "committed" \/ \E m \in net : m.op = "commit" /\ m.sid = s
             \/ /\ syncs'[s].state # "committed"
                /\ \E m \in net :
                      /\ m.op = "items" /\ m.sid = s /\ m.seq = Len(syncs[s].batches) + 1
                      /\ syncs'[s].batches = Append(syncs[s].batches, m.items)
    /\ \A s \in DOMAIN syncs' \ DOMAIN syncs : syncs'[s].batches = <<>> /\ syncs'[s].state = "open"

LEMMA SameProgress ==
    ASSUME UNCHANGED syncs
    PROVE  Progress
BY DEF Progress

LEMMA CloseProgress ==
    ASSUME Typed, NEW s \in DOMAIN syncs, syncs[s].state = "open", NEW state,
           state = "committed" => \E m \in net : m.op = "commit" /\ m.sid = s,
           syncs' = Close(s, state)
    PROVE  Progress
<1>1. syncs \in Seq(Sync) /\ syncs[s] \in Sync
  BY DEF Typed
<1>2. DOMAIN syncs' = DOMAIN syncs /\ \A t \in DOMAIN syncs : t # s => syncs'[t] = syncs[t]
  BY <1>1 DEF Close
<1>3. syncs'[s].batches = syncs[s].batches /\ syncs'[s].state = state
  BY <1>1 DEF Close, Sync
<1> QED  BY <1>2, <1>3 DEF Progress

\* What a run may do with an answer to its open depends on what the sync holds.
LEMMA ReplyOpenProgress ==
    ASSUME Typed, Attributed, NEW m \in net, m.op = "open", NEW answer, ReplyOpen(m, answer)
    PROVE  /\ Progress
           /\ answer.status = 200 => syncs'[answer.sid].batches = <<>>
           /\ answer.status = 409 =>
                 answer.sid \in DOMAIN syncs /\ UNCHANGED syncs /\ ~SameRun(answer.sid, m)
<1>0. m.run \in setting.runs /\ syncs \in Seq(Sync) /\ Len(syncs) \in Nat
  BY DEF Attributed, Typed
<1>1. ASSUME NEW old \in Seq(Sync), Len(old) = Len(syncs), syncs' = Append(old, NewSync(m)),
             \A s \in DOMAIN syncs : old[s].batches = syncs[s].batches
                /\ (old[s] = syncs[s] \/ (syncs[s].state = "open" /\ old[s].state = "aborted"))
      PROVE  Progress /\ syncs'[Len(syncs')].batches = <<>>
  <2>1. NewSync(m) \in Sync /\ NewSync(m).batches = <<>> /\ NewSync(m).state = "open"
    BY <1>0, NewSyncType DEF NewSync
  <2> HIDE DEF NewSync
  <2>2. /\ Len(syncs') = Len(syncs) + 1 /\ DOMAIN syncs' \ DOMAIN syncs = {Len(syncs')}
        /\ syncs'[Len(syncs')] = NewSync(m) /\ \A s \in DOMAIN syncs : syncs'[s] = old[s]
    BY <1>0, <1>1, <2>1
  <2> QED  BY <1>1, <2>1, <2>2 DEF Progress
<1>2. CASE syncs' = Append(syncs, NewSync(m)) /\ answer = Ok(Len(syncs'))
  BY <1>0, <1>1, <1>2 DEF Ok
<1>3. ASSUME NEW s \in DOMAIN syncs, syncs[s].batches = <<>>, UNCHANGED syncs, answer = Ok(s)
      PROVE  Progress /\ answer.status = 200 /\ syncs'[answer.sid].batches = <<>>
  BY <1>3, SameProgress DEF Ok
<1>4. ASSUME NEW s \in DOMAIN syncs, IsOpen(s), syncs' = Append(Close(s, "aborted"), NewSync(m)),
             answer = Ok(Len(syncs'))
      PROVE  Progress /\ answer.status = 200 /\ syncs'[answer.sid].batches = <<>>
  <2> DEFINE new == [syncs[s] EXCEPT !.state = "aborted"]
  <2>0. syncs[s] \in Sync /\ syncs[s].state = "open"
    BY <1>0, <1>4 DEF IsOpen
  <2>1. new \in Sync /\ new.batches = syncs[s].batches /\ new.state = "aborted"
    BY <2>0 DEF Sync, SyncStates
  <2>2. Close(s, "aborted") = [syncs EXCEPT ![s] = new]
    BY DEF Close
  <2> HIDE DEF new
  <2>3. /\ Close(s, "aborted") \in Seq(Sync) /\ Len(Close(s, "aborted")) = Len(syncs)
        /\ \A t \in DOMAIN syncs : Close(s, "aborted")[t] = IF t = s THEN new ELSE syncs[t]
    BY <1>0, <2>1, <2>2
  <2> QED  BY <1>0, <1>1, <1>4, <2>0, <2>1, <2>3 DEF Ok
<1>5. ASSUME NEW s \in DOMAIN syncs, ~SameRun(s, m), UNCHANGED syncs, answer = Conflict(s)
      PROVE  /\ Progress /\ answer.status = 409 /\ answer.sid \in DOMAIN syncs
             /\ UNCHANGED syncs /\ ~SameRun(answer.sid, m)
  BY <1>5, SameProgress DEF Conflict
<1> QED  BY <1>2, <1>3, <1>4, <1>5 DEF ReplyOpen

LEMMA ReplyItemsProgress ==
    ASSUME Typed, Attributed, NEW m \in net, m.op = "items", NEW answer, ReplyItems(m, answer)
    PROVE  /\ Progress
           /\ answer.status = 200 =>
                 m.seq \in DOMAIN syncs'[m.sid].batches /\ syncs'[m.sid].batches[m.seq] = m.items
<1>1. m.sid \in DOMAIN syncs /\ syncs \in Seq(Sync) /\ Len(syncs) \in Nat
  BY DEF Attributed, Typed
<1> DEFINE known == syncs[m.sid].batches
<1>2. CASE UNCHANGED syncs /\ (answer = Refused \/ (m.seq \in DOMAIN known /\ known[m.seq] = m.items))
  BY <1>2, SameProgress DEF Refused
<1>3. CASE /\ IsOpen(m.sid) /\ m.seq = Len(syncs[m.sid].batches) + 1
           /\ syncs' = [syncs EXCEPT ![m.sid].batches = Append(syncs[m.sid].batches, m.items)]
  <2> DEFINE more == Append(syncs[m.sid].batches, m.items)
  <2>1. syncs[m.sid] \in Sync /\ m.items \in Nat /\ syncs[m.sid].state = "open"
    BY <1>1, <1>3 DEF Typed, Message, IsOpen
  <2>2. /\ DOMAIN syncs' = DOMAIN syncs /\ \A t \in DOMAIN syncs : t # m.sid => syncs'[t] = syncs[t]
        /\ syncs'[m.sid].batches = more /\ syncs'[m.sid].state = "open"
    BY <1>1, <1>3, <2>1 DEF Sync
  <2>3. m.seq \in DOMAIN more /\ more[m.seq] = m.items
    BY <1>3, <2>1 DEF Sync
  <2>4. Progress
    BY <1>3, <2>1, <2>2 DEF Progress
  <2> QED  BY <2>2, <2>3, <2>4
<1> QED  BY <1>2, <1>3 DEF ReplyItems

LEMMA ReplyEndProgress ==
    ASSUME Typed, Attributed, NEW m \in net, m.op \in {"commit", "abort"}, NEW answer, NEW state,
           state = "committed" => m.op = "commit", ReplyEnd(m, answer, state)
    PROVE  Progress /\ (answer.status = 200 => syncs'[m.sid].state = state)
<1>1. m.sid \in DOMAIN syncs /\ syncs \in Seq(Sync) /\ syncs[m.sid] \in Sync
  BY DEF Attributed, Typed
<1>2. CASE IsOpen(m.sid) /\ syncs' = Close(m.sid, state)
  <2>1. syncs'[m.sid].state = state
    BY <1>1, <1>2 DEF Close, Sync
  <2> QED  BY <1>1, <1>2, <2>1, CloseProgress DEF IsOpen
<1>3. CASE UNCHANGED syncs /\ (syncs[m.sid].state = state \/ answer = Refused)
  BY <1>3, SameProgress DEF Refused
<1> QED  BY <1>2, <1>3 DEF ReplyEnd

LEMMA ReplyProgress ==
    ASSUME Typed, Attributed, NEW m \in net, NEW answer, Reply(m, answer)
    PROVE  Progress
BY SameProgress, ReplyOpenProgress, ReplyItemsProgress, ReplyEndProgress DEF Reply

-----------------------------------------------------------------------------
\* Batches and the requests they come from.
LEMMA BatchTypes ==
    ASSUME Typed
    PROVE  /\ \A s \in DOMAIN syncs : syncs[s].batches \in Seq(Nat)
           /\ \A m \in net : m.seq \in Nat /\ m.items \in Nat /\ m.op \in Calls /\ m.run \in Runs
           /\ \A c \in setting.contents : c \in Seq(Nat \ {0}) /\ Len(c) \in Nat /\ Len(c) > 0
<1>1. \A s \in DOMAIN syncs : syncs[s] \in Sync
  BY DEF Typed
<1>2. \A c \in setting.contents : c \in Seq(Nat \ {0}) /\ Len(c) > 0
  BY SettingTypes DEF Typed
<1> QED  BY <1>1, <1>2 DEF Typed, Sync, Message

\* Nothing papi does to a sync that has one first batch at most, and has not
\* been sent more, makes it another.
LEMMA YoungStays ==
    ASSUME IInv, Progress, UNCHANGED net, NEW s \in DOMAIN syncs, Young(s)
    PROVE  Young(s)'
<1>1. syncs[s].batches \in Seq(Nat) /\ \A m \in net : m.seq \in Nat
  BY BatchTypes DEF IInv
<1>2. \A m \in net : ~Late(m, s)
  BY DEF Young
<1>3. CASE syncs'[s].batches = syncs[s].batches
  BY <1>2, <1>3 DEF Young, Late
<1>4. ASSUME NEW m \in net, m.op = "items", m.sid = s, m.seq = Len(syncs[s].batches) + 1,
             syncs'[s].batches = Append(syncs[s].batches, m.items)
      PROVE  Young(s)'
  <2>1. Len(syncs[s].batches) = 0
    BY <1>1, <1>2, <1>4 DEF Late
  <2>2. Len(syncs'[s].batches) = 1
    BY <1>1, <1>4, <2>1
  <2> QED  BY <1>2, <2>2 DEF Young, Late
<1> QED  BY <1>3, <1>4 DEF Progress

\* Nor one that an execution has made its own: the batch it takes is that
\* execution's next, and there is none after the last.
LEMMA FollowsStays ==
    ASSUME IInv, Progress, UNCHANGED net, NEW s \in DOMAIN syncs,
           NEW c \in setting.contents, Follows(s, c)
    PROVE  /\ Follows(s, c)' /\ Len(syncs'[s].batches) >= Len(syncs[s].batches)
           /\ Complete(s, c) => Complete(s, c)'
<1>1. /\ syncs[s].batches \in Seq(Nat) /\ c \in Seq(Nat \ {0}) /\ Len(c) \in Nat
      /\ \A m \in net : m.seq \in Nat /\ m.items \in Nat
  BY BatchTypes DEF IInv
<1>2. CASE syncs'[s].batches = syncs[s].batches
  BY <1>1, <1>2 DEF Follows, Complete
<1>3. ASSUME NEW m \in net, m.op = "items", m.sid = s, m.seq = Len(syncs[s].batches) + 1,
             syncs'[s].batches = Append(syncs[s].batches, m.items)
      PROVE  /\ Follows(s, c)' /\ Len(syncs'[s].batches) >= Len(syncs[s].batches)
             /\ ~Complete(s, c)
  <2>0. Len(syncs[s].batches) \in Nat /\ Len(syncs[s].batches) > 0
    BY <1>1 DEF Follows
  <2>1. m.seq > 1 /\ m.seq \in 1..Len(c) /\ m.items = c[m.seq]
    BY <1>3, <2>0 DEF Follows
  <2>2. Len(syncs[s].batches) < Len(c)
    BY <1>1, <1>3, <2>1
  <2>3. /\ Len(syncs'[s].batches) = m.seq
        /\ \A i \in 1..m.seq : syncs'[s].batches[i] = IF i = m.seq THEN m.items ELSE syncs[s].batches[i]
    BY <1>1, <1>3
  <2>4. \A i \in DOMAIN syncs'[s].batches : syncs'[s].batches[i] = c[i]
    BY <1>1, <1>3, <2>1, <2>3 DEF Follows
  <2>5. /\ Len(syncs'[s].batches) >= Len(syncs[s].batches) /\ Len(syncs'[s].batches) > 0
        /\ Len(syncs'[s].batches) <= Len(c)
    BY <1>1, <1>3, <2>1, <2>3
  <2> QED  BY <1>1, <2>2, <2>4, <2>5 DEF Follows, Complete
<1> QED  BY <1>2, <1>3 DEF Progress

LEMMA AttendedStays ==
    ASSUME IInv, Attended, Progress, UNCHANGED <<net, setting>>
    PROVE  Attended'
<1> SUFFICES ASSUME NEW s \in DOMAIN syncs'
             PROVE  /\ Young(s)' \/ \E c \in setting.contents : Follows(s, c)'
                    /\ syncs'[s].state = "committed" => \E m \in net : m.op = "commit" /\ m.sid = s
  BY DEF Attended
<1>1. CASE s \notin DOMAIN syncs
  <2>1. syncs'[s].batches = <<>> /\ syncs'[s].state = "open"
    BY <1>1 DEF Progress
  <2>2. \A m \in net : m.sid # s \/ m.op = "open"
    <3>1. \A m \in net : m.op # "open" => m.sid \in DOMAIN syncs
      BY DEF IInv, Typed, Attributed
    <3> QED  BY <1>1, <3>1
  <2>3. Young(s)'
    BY <2>1, <2>2 DEF Young, Late
  <2> QED  BY <2>1, <2>3
<1>2. CASE s \in DOMAIN syncs
  <2>1. Young(s)' \/ \E c \in setting.contents : Follows(s, c)'
    BY <1>2, YoungStays, FollowsStays DEF Attended
  <2>2. syncs'[s].state = "committed" => \E m \in net : m.op = "commit" /\ m.sid = s
    BY <1>2 DEF Attended, Progress
  <2> QED  BY <2>1, <2>2
<1> QED  BY <1>1, <1>2

\* A run that does not move keeps its place.
LEMMA AtStays ==
    ASSUME IInv, Progress, UNCHANGED <<net, setting>>, NEW r \in setting.runs, At(r),
           pc'[r] = pc[r], sid'[r] = sid[r], seq'[r] = seq[r], content'[r] = content[r]
    PROVE  At(r)'
<1>1. content[r] \in setting.contents /\ sid[r] \in 0..Len(syncs) /\ syncs \in Seq(Sync)
      /\ pc[r] \in Calls \union Final
  BY DEF IInv, Typed
<1>2. pc[r] \in {"items", "commit", "done"} => sid[r] \in DOMAIN syncs
  BY <1>1 DEF IInv, InCall, At, Calls
<1>3. pc[r] = "items" /\ seq[r] = 1 => Young(sid[r])'
  BY <1>2, YoungStays DEF At
<1>4. pc[r] = "items" /\ seq[r] > 1 =>
         Follows(sid[r], content[r])' /\ Len(syncs'[sid[r]].batches) >= seq[r] - 1
  <2> SUFFICES ASSUME pc[r] = "items", seq[r] > 1
               PROVE  Follows(sid[r], content[r])' /\ Len(syncs'[sid[r]].batches) >= seq[r] - 1
    OBVIOUS
  <2>1. Follows(sid[r], content[r]) /\ Len(syncs[sid[r]].batches) >= seq[r] - 1
    BY DEF At
  <2>2. Follows(sid[r], content[r])' /\ Len(syncs'[sid[r]].batches) >= Len(syncs[sid[r]].batches)
    BY <1>1, <1>2, <2>1, FollowsStays
  <2>3. seq[r] \in Nat /\ Len(syncs[sid[r]].batches) \in Int /\ Len(syncs'[sid[r]].batches) \in Int
    <3>1. seq[r] \in Nat
      BY DEF IInv, Typed
    <3>2. \A n \in Nat : \A i \in 1..n : i \in Int
      OBVIOUS
    <3>3. Len(content[r]) \in Nat /\ (setting' = setting /\ content'[r] = content[r])
      BY <1>1, BatchTypes DEF IInv
    <3>4. Len(syncs[sid[r]].batches) \in 1..Len(content[r]) /\ Len(syncs'[sid[r]].batches) \in 1..Len(content'[r])
      BY <2>1, <2>2 DEF Follows
    <3> QED  BY <3>1, <3>2, <3>3, <3>4
  <2>4. Len(syncs'[sid[r]].batches) >= seq[r] - 1
    <3>1. \A a, b, c \in Int : a >= b /\ b >= c - 1 => a >= c - 1
      OBVIOUS
    <3>2. seq[r] \in Int
      BY <2>3
    <3> QED  BY <2>1, <2>2, <2>3, <3>1, <3>2, Zenon
  <2> QED  BY <2>2, <2>4
<1>5. pc[r] \in {"commit", "done"} => Complete(sid[r], content[r])'
  BY <1>1, <1>2, FollowsStays DEF At, Complete
<1>6. pc[r] = "done" => sid[r] # 0 /\ syncs'[sid[r]].state = "committed"
  BY <1>2 DEF At, Progress
<1> QED  BY <1>3, <1>4, <1>5, <1>6 DEF At, Young, Late, Follows, Complete

\* Syncs of a run that has sent nothing but opens stay empty.
LEMMA FreshBatches ==
    ASSUME IInv, Grows, Progress, NEW q \in setting.runs, \A m \in net : m.run = q => m.op = "open",
           \A t \in DOMAIN syncs : syncs[t].run = q => syncs[t].batches = <<>>,
           NEW t \in DOMAIN syncs', syncs'[t].run = q
    PROVE  syncs'[t].batches = <<>>
<1>1. CASE t \in DOMAIN syncs
  <2>1. syncs[t].run = q /\ syncs[t].batches = <<>>
    BY <1>1 DEF Grows
  <2>2. \A m \in net : m.sid = t => m.op # "items"
    <3>1. t # 0
      <4>1. DOMAIN syncs = 1..Len(syncs) /\ Len(syncs) \in Nat
        BY DEF IInv, Typed
      <4> QED  BY <1>1, <4>1
    <3>2. \A m \in net : m.sid = t => syncs[t].run = m.run
      BY <3>1 DEF IInv, OwnSyncOnly
    <3> QED  BY <2>1, <3>2
  <2> QED  BY <1>1, <2>1, <2>2 DEF Progress
<1>2. CASE t \notin DOMAIN syncs
  BY <1>2 DEF Progress
<1> QED  BY <1>1, <1>2

LEMMA FreshStays ==
    ASSUME IInv, Fresh, Grows, Progress, UNCHANGED <<net, setting>>,
           \A q \in setting.runs : pc'[q] = "open" => pc[q] = "open"
    PROVE  Fresh'
BY FreshBatches DEF Fresh

\* A step in which at most run r moves.
LEMMA OthersStay ==
    ASSUME IInv, Attended, InStep, Fresh, Grows, Progress, UNCHANGED <<net, setting>>,
           NEW r \in setting.runs, NEW next, NEW n, NEW s,
           pc' = [pc EXCEPT ![r] = next], next # "open",
           seq' = [seq EXCEPT ![r] = n], sid' = [sid EXCEPT ![r] = s], UNCHANGED content,
           At(r)'
    PROVE  (Attended /\ InStep /\ Fresh)'
<1>1. \A q \in setting.runs \ {r} : pc'[q] = pc[q] /\ seq'[q] = seq[q] /\ sid'[q] = sid[q]
  BY DEF IInv, Typed
<1>2. \A q \in setting.runs \ {r} : At(q)'
  BY <1>1, AtStays DEF InStep
<1>3. InStep'
  BY <1>2 DEF InStep
<1>4. Attended'
  BY AttendedStays
<1>5. Fresh'
  <2>1. \A q \in setting.runs : pc'[q] = "open" => pc[q] = "open"
    BY <1>1 DEF IInv, Typed
  <2> QED  BY <2>1, FreshStays
<1> QED  BY <1>3, <1>4, <1>5

\* A step in which no run moves.
LEMMA NoneMoves ==
    ASSUME IInv, Attended, InStep, Fresh, Grows, Progress, UNCHANGED <<client, net, setting>>
    PROVE  (Attended /\ InStep /\ Fresh)'
<1>1. UNCHANGED <<pc, sid, seq, content>>
  BY DEF client
<1>2. InStep'
  BY <1>1, AtStays DEF InStep
<1> QED  BY <1>1, <1>2, AttendedStays, FreshStays

\* An exception, wherever it comes from.
LEMMA RaiseStays ==
    ASSUME IInv, Attended, InStep, Fresh, Grows, Progress, NEW r \in setting.runs, Raise(r),
           UNCHANGED <<net, setting, content, sid, seq>>
    PROVE  (Attended /\ InStep /\ Fresh)'
<1> DEFINE next == IF pc[r] \in {"items", "commit"} THEN "abort" ELSE "failed"
<1>1. pc' = [pc EXCEPT ![r] = next] /\ next \in {"abort", "failed"}
  BY DEF Raise, Enter
<1>2. seq' = [seq EXCEPT ![r] = seq[r]] /\ sid' = [sid EXCEPT ![r] = sid[r]]
  BY DEF IInv, Typed
<1>3. At(r)'
  BY <1>1 DEF At, IInv, Typed
<1> HIDE DEF next
<1> QED  BY <1>1, <1>2, <1>3, OthersStay

\* An older papi, which answers an open of the same run with a conflict, must
\* not meet one that has pushed before.
Reopens ==
    \A s \in Settings : s.reopens \/ s.restarts = 0 \/ \A r \in s.runs : s.uuid[r] = NoUuid

\* The sync a run enters with is empty: papi gives it a new one, or its own if
\* nothing is in it; or it is adopted when the run cannot have pushed yet.
LEMMA OpenedIsEmpty ==
    ASSUME Reopens, IInv, Fresh, NEW m \in net, m.op = "open", NEW answer, Reply(m, answer),
           NEW r \in setting.runs, m.run = r, pc[r] = "open",
           answer.status = 200 \/ (answer.status = 409 /\ Adopts(r, answer))
    PROVE  syncs'[answer.sid].batches = <<>>
<1>1. ReplyOpen(m, answer)
  BY DEF Reply, Refused
<1>2. /\ answer.status = 200 => syncs'[answer.sid].batches = <<>>
      /\ answer.status = 409 => answer.sid \in DOMAIN syncs /\ UNCHANGED syncs /\ ~SameRun(answer.sid, m)
  BY <1>1, ReplyOpenProgress DEF IInv
<1>3. CASE answer.status = 409 /\ Adopts(r, answer)
  <2>1. Grows /\ Answered(m, answer)
    BY ReplyHolds DEF IInv
  <2>2. answer.sid \in DOMAIN syncs /\ syncs[answer.sid].run = r
    BY <1>2, <1>3, <2>1, OpenedIsOwn
  <2>3. ~setting.reopens /\ Uuid(r) # NoUuid
    <3>1. syncs[answer.sid].uuid = Uuid(r)
      BY <2>2 DEF IInv, Attributed
    <3> QED  BY <1>2, <1>3, <3>1 DEF SameRun, Adopts
  <2>4. setting.restarts = 0
    BY <2>3 DEF Reopens, IInv, Typed, Uuid
  <2> QED  BY <1>2, <1>3, <2>2, <2>4 DEF Fresh
<1> QED  BY <1>2, <1>3

LEMMA EmptyIsYoung ==
    ASSUME Attended', NEW s \in DOMAIN syncs', syncs'[s].batches = <<>>
    PROVE  Young(s)'
<1>1. Len(syncs'[s].batches) = 0
  OBVIOUS
<1>2. \A c : ~Follows(s, c)'
  BY <1>1 DEF Follows
<1> QED  BY <1>2 DEF Attended

\* A run whose push was answered: the sync is its own from the first batch on,
\* and holds all it had to push after the last.
LEMMA PushedIsStored ==
    ASSUME IInv, Attended, Grows, Progress, UNCHANGED <<net, setting>>,
           NEW r \in setting.runs, At(r), pc[r] = "items",
           NEW c, c = content[r], NEW s, s = sid[r], NEW n, n = seq[r],
           n \in DOMAIN syncs'[s].batches, syncs'[s].batches[n] = c[n]
    PROVE  Follows(s, c)' /\ Len(syncs'[s].batches) >= n
<1>1. /\ s \in DOMAIN syncs /\ c \in setting.contents /\ n \in 1..Len(c)
      /\ c \in Seq(Nat \ {0}) /\ syncs[s].batches \in Seq(Nat)
  <2>1. s \in 1..Len(syncs) /\ DOMAIN syncs = 1..Len(syncs)
    BY DEF IInv, Typed, InCall, Calls
  <2>2. c \in setting.contents /\ n \in 1..Len(c)
    BY DEF IInv, Typed, InCall
  <2> QED  BY <2>1, <2>2, BatchTypes DEF IInv
<1>0. Len(syncs'[s].batches) \in Nat /\ DOMAIN syncs'[s].batches = 1..Len(syncs'[s].batches)
  <2>1. s \in 1..Len(syncs) /\ Len(syncs) \in Nat
    BY <1>1 DEF IInv, Typed
  <2>2. s \in DOMAIN syncs' /\ syncs' \in Seq(Sync)
    BY <2>1 DEF Grows
  <2>3. syncs'[s] \in Sync
    BY <2>2
  <2> QED  BY <2>3 DEF Sync
<1>2. CASE n = 1
  <2>1. Young(s)'
    BY <1>1, <1>2, YoungStays DEF At
  <2>2. Len(syncs'[s].batches) = 1
    <3> DEFINE k == Len(syncs'[s].batches)
    <3>1. k <= 1
      BY <2>1 DEF Young
    <3>2. k \in Nat /\ 1 \in 1..k
      BY <1>0, <1>2
    <3> HIDE DEF k
    <3>3. k = 1
      BY <3>1, <3>2
    <3> QED  BY <3>3 DEF k
  <2> QED  BY <1>1, <1>2, <2>1, <2>2 DEF Follows, Young, Late
<1>3. CASE n > 1
  <2>1. Follows(s, c)'
    BY <1>1, <1>3, FollowsStays DEF At
  <2>2. Len(syncs'[s].batches) \in Nat /\ DOMAIN syncs'[s].batches = 1..Len(syncs'[s].batches)
    BY <1>0
  <2> QED  BY <2>1, <2>2
<1> QED  BY <1>1, <1>2, <1>3

-----------------------------------------------------------------------------
LEMMA ServeWholes ==
    ASSUME Reopens, IInv, Attended, InStep, Fresh, NEW m \in net, Serve(m)
    PROVE  (Attended /\ InStep /\ Fresh)'
<1>1. PICK answer : /\ Reply(m, answer)
                    /\ \/ /\ m = Request(m.run)
                          /\ \/ m.op = "open" /\ Opened(m.run, answer)
                             \/ m.op = "items" /\ Pushed(m.run, answer)
                             \/ m.op \in {"commit", "abort"} /\ Ended(m.run, answer)
                          /\ UNCHANGED <<content, life>>
                       \/ UNCHANGED client
  BY DEF Serve
<1>2. UNCHANGED <<net, setting>>
  BY DEF Serve
<1>3. Grows /\ Answered(m, answer) /\ Progress
  BY <1>1, ReplyHolds, ReplyProgress DEF IInv
<1> DEFINE r == m.run
<1>4. r \in setting.runs /\ At(r)
  BY DEF IInv, Attributed, InStep
<1> HIDE DEF r
<1>r. r = m.run
  BY DEF r
<1>5. CASE UNCHANGED client
  BY <1>2, <1>3, <1>5, NoneMoves
<1>6. CASE Raise(r) /\ UNCHANGED <<content, sid, seq>>
  BY <1>2, <1>3, <1>4, <1>6, RaiseStays
<1>7. ASSUME m = Request(r), m.op = "open", Opened(r, answer), UNCHANGED <<content, life>>,
             answer.status = 200 \/ (answer.status = 409 /\ Adopts(r, answer))
      PROVE  (Attended /\ InStep /\ Fresh)'
  <2>1. pc[r] = "open" /\ seq[r] = 1
    BY <1>r, <1>4, <1>7 DEF Request, At
  <2>2. /\ pc' = [pc EXCEPT ![r] = "items"] /\ sid' = [sid EXCEPT ![r] = answer.sid]
        /\ seq' = [seq EXCEPT ![r] = 1]
    BY <1>7, <2>1 DEF Opened, Enter, IInv, Typed
  <2>3. syncs'[answer.sid].batches = <<>>
    BY <1>r, <1>1, <1>4, <1>7, <2>1, OpenedIsEmpty
  <2>4. answer.sid # 0 /\ answer.sid \in DOMAIN syncs'
    BY <1>r, <1>3, <1>4, <1>7, OpenedIsOwn DEF Answered, Grows
  <2>5. Young(answer.sid)'
    BY <1>2, <1>3, <2>3, <2>4, AttendedStays, EmptyIsYoung
  <2>6. At(r)'
    BY <1>4, <2>2, <2>5 DEF At, IInv, Typed
  <2>7. UNCHANGED content
    BY <1>7
  <2> QED  BY <1>2, <1>3, <1>4, <2>2, <2>6, <2>7, OthersStay
<1>8. ASSUME m = Request(r), m.op = "items", Pushed(r, answer), UNCHANGED <<content, life>>,
             answer.status = 200
      PROVE  (Attended /\ InStep /\ Fresh)'
  <2>1. pc[r] = "items" /\ m.sid = sid[r] /\ m.seq = seq[r] /\ m.items = content[r][seq[r]]
    BY <1>r, <1>8 DEF Request
  <2> DEFINE next == IF seq[r] = Len(content[r]) THEN "commit" ELSE "items"
  <2>2. /\ pc' = [pc EXCEPT ![r] = next] /\ next # "open" /\ sid' = [sid EXCEPT ![r] = sid[r]]
        /\ seq' = [seq EXCEPT ![r] = seq[r] + 1]
    BY <1>8 DEF Pushed, Enter, IInv, Typed
  <2>3. ReplyItems(m, answer)
    BY <1>1, <1>8 DEF Reply, Refused
  <2>4. m.seq \in DOMAIN syncs'[m.sid].batches /\ syncs'[m.sid].batches[m.seq] = m.items
    BY <1>8, <2>3, ReplyItemsProgress DEF IInv
  <2>6. /\ pc'[r] = next /\ seq'[r] = seq[r] + 1 /\ sid'[r] = sid[r] /\ content'[r] = content[r]
        /\ seq[r] \in 1..Len(content[r]) /\ Len(content[r]) \in Nat
    BY <1>4, <1>8, <2>1, <2>2, BatchTypes DEF IInv, Typed, InCall
  <2>5. Follows(sid[r], content[r])' /\ Len(syncs'[sid[r]].batches) >= seq[r]
    BY <1>2, <1>3, <1>4, <2>1, <2>4, <2>6, PushedIsStored
  <2>7. At(r)'
    BY <2>5, <2>6 DEF At, Follows, Complete
  <2>8. UNCHANGED content
    BY <1>8
  <2> HIDE DEF next
  <2> QED  BY <1>2, <1>3, <1>4, <2>2, <2>7, <2>8, OthersStay
<1>9. ASSUME m = Request(r), m.op = "commit", answer.status = 200, Enter(r, "done"),
             UNCHANGED <<sid, seq, content>>
      PROVE  (Attended /\ InStep /\ Fresh)'
  <2>1. pc[r] = "commit" /\ m.sid = sid[r]
    BY <1>r, <1>9 DEF Request
  <2>2. ReplyEnd(m, answer, "committed")
    BY <1>1, <1>9 DEF Reply, Refused
  <2>3. syncs'[sid[r]].state = "committed"
    BY <1>9, <2>1, <2>2, ReplyEndProgress DEF IInv
  <2>4. sid[r] \in DOMAIN syncs /\ sid[r] # 0 /\ content[r] \in setting.contents
    <3>1. sid[r] \in 0..Len(syncs) /\ DOMAIN syncs = 1..Len(syncs) /\ content[r] \in setting.contents
      BY <1>4 DEF IInv, Typed
    <3>2. sid[r] # 0
      BY <1>4, <2>1 DEF IInv, InCall, Calls
    <3> QED  BY <3>1, <3>2
  <2>5. Complete(sid[r], content[r])'
    BY <1>2, <1>3, <1>4, <1>9, <2>1, <2>4, FollowsStays DEF At, Complete
  <2>6. /\ pc' = [pc EXCEPT ![r] = "done"] /\ sid' = [sid EXCEPT ![r] = sid[r]]
        /\ seq' = [seq EXCEPT ![r] = seq[r]]
    BY <1>9 DEF Enter, IInv, Typed
  <2>7. At(r)'
    BY <1>4, <1>9, <2>3, <2>4, <2>5, <2>6 DEF At, IInv, Typed
  <2>8. UNCHANGED content /\ "done" # "open"
    BY <1>9
  <2> QED  BY <1>2, <1>3, <1>4, <2>6, <2>7, <2>8, OthersStay
<1> QED  BY <1>r, <1>1, <1>5, <1>6, <1>7, <1>8, <1>9 DEF Opened, Pushed, Ended, Request

LEMMA SendWholes ==
    ASSUME IInv, Attended, InStep, Fresh, NEW r \in setting.runs, Send(r)
    PROVE  (Attended /\ InStep /\ Fresh)'
<1> DEFINE m == Request(r)
<1>1. /\ pc[r] \in Calls /\ net' = net \union {m}
      /\ UNCHANGED <<pc, sid, seq, content, syncs, setting>>
  BY DEF Send
<1>2. /\ m.run = r /\ m.op = pc[r] /\ m.sid = sid[r]
      /\ (pc[r] = "items" => m.seq = seq[r] /\ m.items = content[r][seq[r]])
  BY DEF Request
<1>3. At(r) /\ content[r] \in setting.contents
  BY DEF InStep, IInv, Typed
<1> HIDE DEF m
<1>4. ASSUME NEW s, ~Late(m, s)
      PROVE  /\ Young(s) => Young(s)'
             /\ \A c : Follows(s, c) => Follows(s, c)'
             /\ \A c : Complete(s, c) => Complete(s, c)'
  BY <1>1, <1>4 DEF Young, Late, Follows, Complete
<1>5. ASSUME Late(m, sid[r])
      PROVE  /\ Follows(sid[r], content[r])'
             /\ pc[r] = "commit" => Complete(sid[r], content[r])'
             /\ pc[r] \in {"items", "commit"} /\ (pc[r] = "items" => seq[r] > 1)
  <2>1. pc[r] \in {"items", "commit"} /\ (pc[r] = "items" => seq[r] > 1)
    BY <1>2, <1>5 DEF Late
  <2>2. Follows(sid[r], content[r]) /\ (pc[r] = "commit" => Complete(sid[r], content[r]))
    BY <1>3, <2>1 DEF At, Complete
  <2>3. pc[r] = "items" => seq[r] \in DOMAIN content[r]
    BY <1>3, BatchTypes DEF IInv, InCall
  <2>4. Follows(sid[r], content[r])'
    BY <1>1, <1>2, <2>1, <2>2, <2>3 DEF Follows, Complete
  <2> QED  BY <1>1, <2>1, <2>2, <2>4 DEF Complete
<1>6. \A s : Late(m, s) => s = sid[r]
  BY <1>2 DEF Late
<1>7. Attended'
  <2> SUFFICES ASSUME NEW s \in DOMAIN syncs
               PROVE  /\ Young(s)' \/ \E c \in setting.contents : Follows(s, c)'
                      /\ syncs[s].state = "committed" => \E k \in net' : k.op = "commit" /\ k.sid = s
    BY <1>1 DEF Attended
  <2>1. syncs[s].state = "committed" => \E k \in net' : k.op = "commit" /\ k.sid = s
    BY <1>1 DEF Attended
  <2>2. CASE ~Late(m, s)
    BY <1>4, <2>1, <2>2 DEF Attended
  <2>3. CASE Late(m, s)
    BY <1>1, <1>3, <1>5, <1>6, <2>1, <2>3
  <2> QED  BY <2>2, <2>3
<1>8. InStep'
  <2> SUFFICES ASSUME NEW q \in setting.runs PROVE At(q)'
    BY <1>1 DEF InStep
  <2>1. At(q)
    BY DEF InStep
  <2>2. CASE ~Late(m, sid[q])
    BY <1>1, <1>4, <2>1, <2>2 DEF At
  <2>3. CASE Late(m, sid[q]) /\ q = r
    BY <1>1, <1>5, <2>1, <2>3 DEF At
  <2>4. CASE Late(m, sid[q]) /\ q # r
    <3>1. sid[q] = sid[r] /\ pc[r] \in {"items", "commit"}
      BY <1>5, <1>6, <2>4
    <3>2. sid[r] # 0
      BY <3>1 DEF IInv, InCall, Calls
    <3> QED  BY <2>4, <3>1, <3>2 DEF IInv, OwnSyncOnly
  <2> QED  BY <2>2, <2>3, <2>4
<1>9. Fresh'
  BY <1>1, <1>2 DEF Fresh
<1> QED  BY <1>7, <1>8, <1>9

LEMMA RestartWholes ==
    ASSUME IInv, Attended, InStep, Fresh, NEW r \in setting.runs, Restart(r)
    PROVE  (Attended /\ InStep /\ Fresh)'
<1>1. /\ life[r] < setting.restarts /\ UNCHANGED <<net, syncs, setting>>
      /\ pc' = [pc EXCEPT ![r] = "open"] /\ sid' = [sid EXCEPT ![r] = 0]
      /\ seq' = [seq EXCEPT ![r] = 1]
      /\ \E c : content' = [content EXCEPT ![r] = c]
  BY DEF Restart, Enter
<1>2. Attended'
  BY <1>1 DEF Attended, Young, Late, Follows
<1>3. ASSUME NEW q \in setting.runs PROVE At(q)'
  <2>1. CASE q = r
    BY <1>1, <2>1 DEF At, IInv, Typed
  <2>2. CASE q # r
    <3>1. pc'[q] = pc[q] /\ sid'[q] = sid[q] /\ seq'[q] = seq[q] /\ content'[q] = content[q]
      BY <1>1, <2>2 DEF IInv, Typed
    <3> QED  BY <1>1, <3>1, SameProgress, AtStays DEF InStep
  <2> QED  BY <2>1, <2>2
<1>4. setting.restarts # 0
  BY <1>1, SettingTypes DEF IInv, Typed
<1> QED  BY <1>1, <1>2, <1>3, <1>4 DEF InStep, Fresh

LEMMA InitWholes == Init => Attended /\ InStep /\ Fresh
BY DEF Init, Attended, InStep, At, Fresh

LEMMA WholesStep ==
    ASSUME Reopens, IInv, Attended, InStep, Fresh, [Next]_vars
    PROVE  (Attended /\ InStep /\ Fresh)'
<1>1. ASSUME NEW r \in setting.runs, GiveUp(r)
      PROVE  (Attended /\ InStep /\ Fresh)'
  <2>1. Raise(r) /\ UNCHANGED <<net, setting, content, sid, seq, syncs>>
    BY <1>1 DEF GiveUp
  <2> QED  BY <2>1, SameGrows, SameProgress, RaiseStays DEF IInv
<1>2. CASE LeaseExpires
  <2>1. PICK s \in DOMAIN syncs : IsOpen(s) /\ syncs' = Close(s, "expired")
    BY <1>2 DEF LeaseExpires
  <2>2. Grows
    BY <2>1, CloseGrows DEF IInv, SyncStates
  <2>3. Progress
    BY <2>1, CloseProgress DEF IInv, IsOpen
  <2> QED  BY <1>2, <2>2, <2>3, NoneMoves DEF LeaseExpires
<1>3. CASE UNCHANGED vars
  BY <1>3, SameGrows, SameProgress, NoneMoves DEF IInv, vars
<1> QED  BY <1>1, <1>2, <1>3, SendWholes, RestartWholes, ServeWholes DEF Next

\* A committed sync holds the whole of what one execution had to push, and a
\* run that reports success has committed what it pushed itself: for any
\* number of runs, executions, batches and attempts, and whatever the network
\* loses, delays or repeats. The condition excludes what the older papi allows,
\* the adoption by one execution of what another has pushed.
THEOREM CommitsAreWhole ==
    ASSUME Reopens
    PROVE  Spec => []CommittedIsWhole
<1>1. IInv /\ Attended /\ InStep => CommittedIsWhole
  <2> SUFFICES ASSUME IInv, Attended, InStep PROVE CommittedIsWhole
    OBVIOUS
  <2>1. ASSUME NEW s \in DOMAIN syncs, NEW c \in setting.contents, Complete(s, c)
        PROVE  syncs[s].batches = c
    <3>1. syncs[s].batches \in Seq(Nat) /\ c \in Seq(Nat \ {0})
      BY <2>1, BatchTypes DEF IInv
    <3> QED  BY <2>1, <3>1 DEF Complete, Follows
  <2>2. ASSUME NEW s \in DOMAIN syncs, syncs[s].state = "committed"
        PROVE  syncs[s].batches \in setting.contents
    <3>1. PICK m \in net : m.op = "commit" /\ m.sid = s
      BY <2>2 DEF Attended
    <3>2. PICK c \in setting.contents : Follows(s, c)
      BY <3>1 DEF Attended, Young, Late
    <3>3. Complete(s, c)
      BY <3>1, <3>2 DEF Complete, Follows
    <3> QED  BY <2>1, <3>3
  <2>3. ASSUME NEW r \in setting.runs, pc[r] = "done"
        PROVE  syncs[sid[r]].state = "committed" /\ syncs[sid[r]].batches = content[r]
    <3>1. Complete(sid[r], content[r]) /\ sid[r] # 0 /\ syncs[sid[r]].state = "committed"
      BY <2>3 DEF InStep, At
    <3>2. sid[r] \in DOMAIN syncs /\ content[r] \in setting.contents
      BY <3>1 DEF IInv, Typed
    <3> QED  BY <2>1, <3>1, <3>2
  <2> QED  BY <2>2, <2>3 DEF CommittedIsWhole
<1>2. Init => Attended /\ InStep /\ Fresh
  BY InitWholes
<1>3. IInv /\ (Attended /\ InStep /\ Fresh) /\ [Next]_vars => (Attended /\ InStep /\ Fresh)'
  BY WholesStep
<1> QED  BY <1>1, <1>2, <1>3, Invariance, PTL DEF Spec
=============================================================================
