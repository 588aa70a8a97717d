--------------------------- MODULE PaginateProofs ---------------------------
(***************************************************************************)
(* What holds of a listing for every set of keys, every scope, every page  *)
(* limit and every number of recoveries: type correctness; that a          *)
(* partition reported `complete` has yielded every object that was there   *)
(* throughout its last pass; and that partitions follow the scope, one     *)
(* each, with a count that is right.                                       *)
(***************************************************************************)
EXTENDS Paginate, FiniteSetTheorems, SequenceTheorems, TLAPS

-----------------------------------------------------------------------------
(* A listing that runs one namespace at a time has a namespace to run, and *)
(* only namespaces of the scope: what Head(todo) needs.                    *)
TodoInScope ==
    mode = "single" =>
        /\ todo # <<>>
        /\ \A i \in 1..Len(todo) : todo[i] \in Range(scope)

(* The two facts that carry a pass from page to page: everything steady is *)
(* still in the snapshot the rest will be read from, and everything steady *)
(* up to the token's key has been yielded.                                 *)
PassCovers ==
    /\ steady \subseteq live
    /\ Listing /\ token.kind = "exact" => steady \intersect Asked \subseteq token.snap
    /\ Listing => \A k \in steady \intersect Wanted : k <= token.after => k \in fresh

IInv == TypeOK /\ TodoInScope /\ PassCovers /\ CompleteIsExhaustive

LEMMA CardinalityOfKeys ==
    ASSUME NEW S, S \subseteq Keys
    PROVE  IsFiniteSet(S) /\ Cardinality(S) \in Nat
BY KeysAssumption, FS_Subset, FS_CardinalityType

LEMMA PageTypes ==
    ASSUME TypeOK, NEW page, page \subseteq Keys
    PROVE  /\ Yielded(page) \subseteq Keys
           /\ Counted(page) \in [Scopes -> Nat]
<1>1. Yielded(page) \subseteq Keys
  BY DEF Yielded, TypeOK
<1>2. ASSUME NEW n \in Scopes
      PROVE  counts[n] + Cardinality(InNs(page \intersect Wanted, n)) \in Nat
  <2>1. Cardinality(InNs(page \intersect Wanted, n)) \in Nat
    BY CardinalityOfKeys DEF InNs
  <2>2. counts[n] \in Nat
    BY <1>2 DEF TypeOK
  <2> QED BY <2>1, <2>2
<1> QED BY <1>1, <1>2 DEF Counted

LEMMA ClaimedType ==
    ASSUME TypeOK, TodoInScope, Listing
    PROVE  /\ Claimed \in Seq(Scopes)
           /\ \A i \in DOMAIN Claimed : Claimed[i] \in Range(scope)
<1>1. CASE mode = "wide"
  <2>1. \A i \in DOMAIN scope : scope[i] \in Range(scope)
    BY DEF Range
  <2> QED BY <1>1, <2>1 DEF Claimed, TypeOK
<1>2. CASE mode = "single"
  <2>1. todo # <<>> /\ todo \in Seq(Scopes)
    BY <1>2 DEF TypeOK, TodoInScope
  <2>2. Head(todo) = todo[1] /\ 1 \in 1..Len(todo)
    BY <2>1
  <2>3. Head(todo) \in Scopes /\ Head(todo) \in Range(scope)
    BY <1>2, <2>1, <2>2, HeadTailProperties DEF TodoInScope
  <2>4. Claimed = <<Head(todo)>>
    BY <1>2 DEF Claimed
  <2> QED BY <2>3, <2>4
<1> QED BY <1>1, <1>2 DEF Listing

LEMMA ReportTypes ==
    ASSUME TypeOK, TodoInScope, Listing,
           NEW status \in Statuses, NEW page, page \subseteq Keys
    PROVE  [i \in DOMAIN Claimed |-> PartitionEvent(Claimed[i], status, page)] \in Seq(Partitions)
<1>1. Claimed \in Seq(Scopes) /\ DOMAIN Claimed = 1..Len(Claimed) /\ Len(Claimed) \in Nat
  BY ClaimedType, LenProperties
<1>2. ASSUME NEW n \in Scopes
      PROVE  PartitionEvent(n, status, page) \in Partitions
  <2>1. Counted(page)[n] \in Nat
    BY PageTypes
  <2>2. InNs(Yielded(page), n) \subseteq Keys /\ InNs(steady, n) \ Yielded(page) \subseteq Keys
    BY PageTypes DEF InNs, TypeOK
  <2> QED BY <2>1, <2>2 DEF PartitionEvent, Partitions
<1>3. \A i \in 1..Len(Claimed) : PartitionEvent(Claimed[i], status, page) \in Partitions
  BY <1>1, <1>2
<1> DEFINE events == [i \in 1..Len(Claimed) |-> PartitionEvent(Claimed[i], status, page)]
<1>4. events \in [1..Len(Claimed) -> Partitions]
  BY <1>3
<1>5. events \in Seq(Partitions)
  BY <1>1, <1>4, SeqDef
<1> QED BY <1>1, <1>5

LEMMA RestInKeys ==
    ASSUME TypeOK PROVE Rest \subseteq Keys /\ Snapshot \subseteq Keys
BY DEF Rest, Snapshot, Asked, TypeOK

LEMMA ContinueTypes ==
    ASSUME TypeOK, NEW remaining, remaining \in Seq(Scopes),
           \A i \in 1..Len(remaining) : remaining[i] \in Range(scope),
           Continue(remaining), UNCHANGED <<live, namespaced, onRestart, scope>>,
           parts' \in Seq(Partitions)
    PROVE  TypeOK' /\ TodoInScope'
<1>1. token' \in Tokens /\ counts' \in [Scopes -> Nat] /\ recoveries' \in 0..MaxRecoveries
  BY LimitAssumption DEF Continue, StartPass, NoToken, Tokens, Zero
<1>2. fresh' \subseteq Keys /\ steady' \subseteq Keys
  BY DEF Continue, StartPass, TypeOK
<1>3. TypeOK'
  BY <1>1, <1>2 DEF TypeOK, Continue
<1> QED BY <1>3 DEF Continue, TodoInScope

LEMMA ReportStep ==
    ASSUME TypeOK, TodoInScope, Listing,
           NEW status \in Statuses, NEW page, page \subseteq Keys,
           Report(status, page)
    PROVE  TypeOK' /\ TodoInScope'
<1>1. parts' \in Seq(Partitions)
  BY ReportTypes, ConcatProperties DEF Report, TypeOK
<1>2. CASE mode = "wide"
  <2>1. <<>> \in Seq(Scopes) /\ \A i \in 1..Len(<<>>) : <<>>[i] \in Range(scope)
    OBVIOUS
  <2>2. Continue(<<>>) /\ UNCHANGED <<live, namespaced, onRestart, scope>>
    BY <1>2 DEF Report
  <2> QED BY <1>1, <2>1, <2>2, ContinueTypes
<1>3. CASE mode = "single"
  <2>1. todo # <<>> /\ todo \in Seq(Scopes)
    BY <1>3 DEF TypeOK, TodoInScope
  <2>2. Tail(todo) \in Seq(Scopes) /\ Len(todo) \in Nat /\ Len(Tail(todo)) = Len(todo) - 1
        /\ \A i \in 1..Len(Tail(todo)) : Tail(todo)[i] = todo[i + 1]
    BY <2>1, HeadTailProperties, LenProperties
  <2>3. \A i \in 1..Len(Tail(todo)) : Tail(todo)[i] \in Range(scope)
    BY <1>3, <2>2 DEF TodoInScope
  <2> QED BY <1>1, <1>3, <2>2, <2>3, ContinueTypes DEF Report
<1> QED BY <1>2, <1>3 DEF Listing

-----------------------------------------------------------------------------
(* Type correctness, with TodoInScope.                                     *)
LEMMA TypeInit == Init => TypeOK /\ TodoInScope
<1> SUFFICES ASSUME Init PROVE TypeOK /\ TodoInScope
  OBVIOUS
<1>1. token \in Tokens /\ recoveries \in 0..MaxRecoveries /\ counts \in [Scopes -> Nat]
  BY LimitAssumption DEF Init, NoToken, Tokens, Zero
<1>2. /\ live \subseteq Keys /\ fresh \subseteq Keys /\ steady \subseteq Keys
      /\ parts \in Seq(Partitions)
  BY DEF Init
<1>3. /\ scope \in Seq(Scopes) /\ todo \in Seq(Scopes) /\ mode \in {"wide", "single", "done", "raised"}
      /\ TodoInScope
  <2>1. CASE namespaced /\ scope \in Requested /\ mode = "wide" /\ todo = <<>>
    <3>1. scope \in Seq(Namespaces) /\ Namespaces \subseteq Scopes
      BY <2>1, RequestAssumption DEF Scopes
    <3>2. scope \in Seq(Scopes)
      BY <3>1, SeqMonotonic
    <3> QED BY <2>1, <3>2 DEF TodoInScope
  <2>2. CASE mode = "single" /\ todo = scope /\ \E n \in Scopes : scope = <<n>>
    <3>1. PICK n \in Scopes : scope = <<n>>
      BY <2>2
    <3>2. scope \in Seq(Scopes) /\ scope # <<>> /\ DOMAIN scope = 1..Len(scope)
      BY <3>1
    <3>3. \A i \in 1..Len(scope) : scope[i] \in Range(scope)
      BY <3>2 DEF Range
    <3> QED BY <2>2, <3>2, <3>3 DEF TodoInScope
  <2>3. NoNs \in Scopes
    BY DEF Scopes
  <2> QED BY <2>1, <2>2, <2>3 DEF Init, ListResource, ListBestEffort
<1> QED BY <1>1, <1>2, <1>3 DEF TypeOK, Init

LEMMA TypeStep == TypeOK /\ TodoInScope /\ [Next]_vars => TypeOK' /\ TodoInScope'
<1> SUFFICES ASSUME TypeOK, TodoInScope, [Next]_vars PROVE TypeOK' /\ TodoInScope'
  OBVIOUS
<1>1. CASE GetPage
  <2>1. PICK last \in Rest : /\ fresh' = Yielded(Upto(last))
                             /\ counts' = Counted(Upto(last))
                             /\ token' = Exact(Snapshot, last)
    BY <1>1 DEF GetPage
  <2>2. Upto(last) \subseteq Keys /\ Snapshot \subseteq Keys /\ last \in Nat
    BY RestInKeys, KeysAssumption DEF Upto
  <2>3. token' \in Tokens
    BY <2>1, <2>2 DEF Exact, Tokens
  <2>4. fresh' \subseteq Keys /\ counts' \in [Scopes -> Nat]
    BY <2>1, <2>2, PageTypes
  <2> QED BY <1>1, <2>3, <2>4 DEF GetPage, TypeOK, TodoInScope
<1>2. CASE GetLastPage
  BY <1>2, RestInKeys, ReportStep DEF GetLastPage, Statuses
<1>3. CASE ExpiredResume
  <2>1. token' \in Tokens
    BY <1>3 DEF ExpiredResume, Resume, Tokens, TypeOK
  <2>2. recoveries' \in 0..MaxRecoveries
    BY <1>3, LimitAssumption DEF ExpiredResume, Expired, TypeOK
  <2> QED BY <1>3, <2>1, <2>2 DEF ExpiredResume, Expired, TypeOK, TodoInScope
<1>4. CASE ExpiredRestart
  <2>1. token' \in Tokens /\ counts' \in [Scopes -> Nat]
    BY <1>4 DEF ExpiredRestart, StartPass, NoToken, Tokens, Zero, TypeOK
  <2>2. recoveries' \in 0..MaxRecoveries
    BY <1>4, LimitAssumption DEF ExpiredRestart, Expired, TypeOK
  <2>3. fresh' \subseteq Keys /\ steady' \subseteq Keys
    BY <1>4 DEF ExpiredRestart, StartPass, TypeOK
  <2> QED BY <1>4, <2>1, <2>2, <2>3 DEF ExpiredRestart, Expired, TypeOK, TodoInScope
<1>5. CASE ApiError
  BY <1>5, ReportStep DEF ApiError, Statuses
<1>6. CASE ForbiddenSingle
  BY <1>6, ReportStep DEF ForbiddenSingle, Listing, Statuses
<1>7. CASE ForbiddenWide
  <2>1. scope \in Seq(Scopes) /\ \A i \in 1..Len(scope) : scope[i] \in Range(scope)
    BY DEF TypeOK, Range
  <2>2. parts' \in Seq(Partitions)
    BY <1>7 DEF ForbiddenWide, TypeOK
  <2> QED BY <1>7, <2>1, <2>2, ContinueTypes DEF ForbiddenWide
<1>8. CASE Create
  BY <1>8 DEF Create, client, TypeOK, TodoInScope
<1>9. CASE Delete
  BY <1>9 DEF Delete, client, TypeOK, TodoInScope
<1>10. CASE UNCHANGED vars
  BY <1>10 DEF vars, client, TypeOK, TodoInScope
<1>11. CASE ConnectionError
  BY <1>11 DEF ConnectionError, TypeOK, TodoInScope
<1> QED BY <1>1, <1>2, <1>3, <1>4, <1>5, <1>6, <1>7, <1>8, <1>9, <1>10, <1>11 DEF Next, Client

(* Every variable of a listing keeps its type, for every instance.         *)
THEOREM TypeCorrect == Spec => []TypeOK
<1>1. Init => TypeOK /\ TodoInScope
  BY TypeInit
<1>2. TypeOK /\ TodoInScope /\ [Next]_vars => TypeOK' /\ TodoInScope'
  BY TypeStep
<1> QED BY <1>1, <1>2, PTL DEF Spec

-----------------------------------------------------------------------------
(* A pass that starts has everything steady before it.                     *)
LEMMA PassStarts ==
    ASSUME TypeOK, StartPass, UNCHANGED live
    PROVE  PassCovers'
BY KeysAssumption DEF StartPass, PassCovers, NoToken, TypeOK

(* The end of a listing: what is reported `complete` misses nothing.       *)
LEMMA LastPageIsExhaustive ==
    ASSUME TypeOK, TodoInScope, PassCovers, Listing, NEW i \in DOMAIN Claimed
    PROVE  InNs(steady, Claimed[i]) \ Yielded(Rest) = {}
<1> SUFFICES ASSUME NEW k \in steady, Where(k) = Claimed[i] PROVE k \in Yielded(Rest)
  BY DEF InNs
<1>1. k \in Keys /\ k \in live /\ k \in Nat
  BY KeysAssumption DEF TypeOK, PassCovers
<1>2. k \in Asked
  BY <1>1 DEF Asked, Claimed
<1>3. k \in Wanted
  BY <1>2, ClaimedType DEF Wanted
<1>4. CASE k <= token.after
  BY <1>3, <1>4 DEF PassCovers, Yielded
<1>5. CASE ~(k <= token.after)
  <2>1. k \in Snapshot
    BY <1>1, <1>2 DEF Snapshot, PassCovers
  <2>2. token.after \in Nat
    BY DEF TypeOK, Tokens
  <2>3. k \in Rest
    BY <1>1, <1>5, <2>1, <2>2 DEF Rest
  <2> QED BY <1>3, <2>3 DEF Yielded
<1> QED BY <1>4, <1>5

(* Reporting appends one event per claimed partition and keeps the others. *)
LEMMA ReportedExhaustive ==
    ASSUME TypeOK, TodoInScope, PassCovers, CompleteIsExhaustive, Listing,
           NEW status \in Statuses, NEW page, page \subseteq Keys,
           status = "complete" => page = Rest,
           Report(status, page)
    PROVE  CompleteIsExhaustive'
<1> DEFINE events == [i \in DOMAIN Claimed |-> PartitionEvent(Claimed[i], status, page)]
<1>1. events \in Seq(Partitions) /\ parts \in Seq(Partitions) /\ parts' = parts \o events
  BY ReportTypes DEF Report, TypeOK
<1>2. Claimed \in Seq(Scopes) /\ DOMAIN Claimed = 1..Len(Claimed) /\ Len(Claimed) \in Nat
  BY ClaimedType, LenProperties
<1>3. Len(events) = Len(Claimed) /\ DOMAIN events = 1..Len(events)
  BY <1>1, <1>2
<1>4. \A j \in DOMAIN events : events[j].status = "complete" => events[j].missed = {}
  <2> SUFFICES ASSUME NEW j \in DOMAIN Claimed, status = "complete"
               PROVE  events[j].missed = {}
    BY DEF PartitionEvent
  <2>1. page = Rest
    OBVIOUS
  <2>2. events[j].missed = InNs(steady, Claimed[j]) \ Yielded(page)
    BY DEF PartitionEvent
  <2> QED BY <2>1, <2>2, LastPageIsExhaustive
<1> HIDE DEF events
<1> SUFFICES ASSUME NEW i \in DOMAIN parts', parts'[i].status = "complete"
             PROVE  parts'[i].missed = {}
  BY DEF CompleteIsExhaustive
<1>5. i \in 1..(Len(parts) + Len(events))
  BY <1>1, LenProperties, ConcatProperties
<1>6. CASE i \in 1..Len(parts)
  <2>1. parts'[i] = parts[i] /\ i \in DOMAIN parts
    BY <1>1, <1>6
  <2> QED BY <2>1 DEF CompleteIsExhaustive
<1>7. CASE i \notin 1..Len(parts)
  <2>1. i - Len(parts) \in 1..Len(events) /\ parts'[i] = events[i - Len(parts)]
    BY <1>1, <1>5, <1>7
  <2> QED BY <1>3, <1>4, <2>1
<1> QED BY <1>6, <1>7

LEMMA ReportKeepsIInv ==
    ASSUME IInv, Listing, NEW status \in Statuses, NEW page, page \subseteq Keys,
           status = "complete" => page = Rest, Report(status, page)
    PROVE  PassCovers' /\ CompleteIsExhaustive'
<1>1. PassCovers'
  BY PassStarts DEF IInv, Report, Continue
<1>2. CompleteIsExhaustive'
  BY ReportedExhaustive DEF IInv
<1> QED BY <1>1, <1>2

LEMMA InitIInv == Init => IInv
<1> SUFFICES ASSUME Init PROVE IInv
  OBVIOUS
<1>1. TypeOK /\ TodoInScope
  BY TypeInit
<1>2. PassCovers /\ CompleteIsExhaustive
  BY <1>1, KeysAssumption DEF Init, PassCovers, CompleteIsExhaustive, NoToken, TypeOK
<1> QED BY <1>1, <1>2 DEF IInv

LEMMA StepIInv == IInv /\ [Next]_vars => IInv'
<1> SUFFICES ASSUME IInv, [Next]_vars PROVE PassCovers' /\ CompleteIsExhaustive'
  BY TypeStep DEF IInv
<1> USE DEF IInv
<1>1. CASE GetPage
  <2>1. PICK last \in Rest : /\ fresh' = Yielded(Upto(last))
                             /\ token' = Exact(Snapshot, last)
    BY <1>1 DEF GetPage
  <2>2. UNCHANGED <<live, namespaced, scope, mode, todo, parts, steady>>
    BY <1>1 DEF GetPage
  <2>3. Asked' = Asked /\ Wanted' = Wanted
    BY <2>2 DEF Asked, Wanted, Where
  <2>4. steady \intersect Asked \subseteq Snapshot
    BY <1>1 DEF GetPage, PassCovers, Snapshot
  <2>5. ASSUME NEW k \in steady \intersect Wanted, k <= last PROVE k \in Yielded(Upto(last))
    <3>1. k \in Nat /\ token.after \in Nat /\ k \in Asked
      BY KeysAssumption DEF TypeOK, Tokens, Wanted, Asked
    <3>2. CASE k <= token.after
      BY <1>1, <3>2 DEF GetPage, PassCovers, Yielded
    <3>3. CASE ~(k <= token.after)
      <4>1. k \in Rest
        BY <2>4, <3>1, <3>3 DEF Rest
      <4> QED BY <2>5, <4>1 DEF Upto, Yielded
    <3> QED BY <3>2, <3>3
  <2>6. PassCovers'
    BY <2>1, <2>2, <2>3, <2>4, <2>5 DEF PassCovers, Exact
  <2> QED BY <2>2, <2>6 DEF CompleteIsExhaustive
<1>2. CASE GetLastPage
  BY <1>2, RestInKeys, ReportKeepsIInv DEF GetLastPage, Statuses
<1>3. CASE ExpiredResume
  <2>1. Asked' = Asked /\ Wanted' = Wanted
    BY <1>3 DEF ExpiredResume, Expired, Asked, Wanted, Where
  <2> QED BY <1>3, <2>1 DEF ExpiredResume, Expired, Resume, PassCovers, CompleteIsExhaustive, Listing
<1>4. CASE ExpiredRestart
  BY <1>4, PassStarts DEF ExpiredRestart, Expired, CompleteIsExhaustive
<1>5. CASE ApiError
  BY <1>5, ReportKeepsIInv DEF ApiError, Statuses
<1>6. CASE ForbiddenSingle
  BY <1>6, ReportKeepsIInv DEF ForbiddenSingle, Listing, Statuses
<1>7. CASE ForbiddenWide
  BY <1>7, PassStarts DEF ForbiddenWide, Continue, CompleteIsExhaustive
<1>8. CASE Create
  <2>1. Asked' = Asked /\ Wanted' = Wanted
    BY <1>8 DEF Create, client, Asked, Wanted, Where
  <2> QED BY <1>8, <2>1 DEF Create, client, PassCovers, CompleteIsExhaustive, Listing
<1>9. CASE Delete
  <2>1. Asked' = Asked /\ Wanted' = Wanted
    BY <1>9 DEF Delete, client, Asked, Wanted, Where
  <2> QED BY <1>9, <2>1 DEF Delete, client, PassCovers, CompleteIsExhaustive, Listing
<1>10. CASE UNCHANGED vars
  <2>1. Asked' = Asked /\ Wanted' = Wanted
    BY <1>10 DEF vars, client, Asked, Wanted, Where
  <2> QED BY <1>10, <2>1 DEF vars, client, PassCovers, CompleteIsExhaustive, Listing
<1>11. CASE ConnectionError
  BY <1>11 DEF ConnectionError, PassCovers, CompleteIsExhaustive, Listing
<1> QED BY <1>1, <1>2, <1>3, <1>4, <1>5, <1>6, <1>7, <1>8, <1>9, <1>10, <1>11 DEF Next, Client

(* A partition reported `complete` has yielded every object that was there *)
(* throughout its last pass: papi may sweep what the run did not push.     *)
THEOREM CompletePartitionsAreExhaustive == Spec => []CompleteIsExhaustive
<1>1. Init => IInv
  BY InitIInv
<1>2. IInv /\ [Next]_vars => IInv'
  BY StepIInv
<1>3. IInv => CompleteIsExhaustive
  BY DEF IInv
<1> QED BY <1>1, <1>2, <1>3, PTL DEF Spec

-----------------------------------------------------------------------------
(* The order of the partitions, and their counts.                          *)

(* What was reported is the beginning of the scope, what is still to list  *)
(* one by one the rest of it; the cluster-wide listing reports all at once.*)
InOrder ==
    /\ Len(parts) <= Len(scope)
    /\ \A i \in 1..Len(parts) : parts[i].namespace = scope[i]
    /\ mode = "wide" => parts = <<>>
    /\ mode = "single" =>
          /\ Len(todo) = Len(scope) - Len(parts)
          /\ \A i \in 1..Len(todo) : todo[i] = scope[Len(parts) + i]
    /\ mode = "done" => Len(parts) = Len(scope)

(* A pass counts what it yields, and goes on behind it; who does not reset *)
(* the counts may have counted more.                                       *)
CountsAreExact ==
    Listing =>
        /\ \A k \in fresh : k <= token.after
        /\ \A n \in Scopes :
              IF onRestart THEN counts[n] = Cardinality(InNs(fresh, n))
                           ELSE counts[n] >= Cardinality(InNs(fresh, n))
ReportsAreExact ==
    \A i \in DOMAIN parts : parts[i].status = "complete" =>
        IF onRestart THEN parts[i].count = Cardinality(parts[i].distinct)
                     ELSE parts[i].count >= Cardinality(parts[i].distinct)

EInv == TypeOK /\ TodoInScope /\ InOrder /\ CountsAreExact /\ ReportsAreExact

(* One more page, behind what was yielded, is counted once.                *)
LEMMA PageIsCounted ==
    ASSUME TypeOK, CountsAreExact, Listing, NEW page, page \subseteq Rest, NEW n \in Scopes
    PROVE  IF onRestart THEN Counted(page)[n] = Cardinality(InNs(Yielded(page), n))
                        ELSE Counted(page)[n] >= Cardinality(InNs(Yielded(page), n))
<1> DEFINE old == InNs(fresh, n)
           new == InNs(page \intersect Wanted, n)
<1>1. old \subseteq Keys /\ new \subseteq Keys /\ page \subseteq Keys
  BY RestInKeys DEF InNs, TypeOK
<1>2. InNs(Yielded(page), n) = old \union new
  BY DEF InNs, Yielded
<1>3. old \intersect new = {}
  <2> SUFFICES ASSUME NEW k \in old, k \in new PROVE FALSE
    OBVIOUS
  <2>1. k \in fresh /\ k \in Rest /\ k \in Nat /\ token.after \in Nat
    BY <1>1, KeysAssumption DEF InNs, TypeOK, Tokens
  <2>2. k <= token.after /\ k > token.after
    BY <2>1 DEF CountsAreExact, Rest
  <2> QED  BY <2>1, <2>2
<1>4. Counted(page)[n] = counts[n] + Cardinality(new) /\ counts[n] \in Nat
  BY DEF Counted, TypeOK
<1>5. IF onRestart THEN counts[n] = Cardinality(old) ELSE counts[n] >= Cardinality(old)
  BY DEF CountsAreExact
<1> HIDE DEF old, new
<1>6. Cardinality(old \union new) = Cardinality(old) + Cardinality(new)
  <2>1. IsFiniteSet(old) /\ IsFiniteSet(new) /\ Cardinality(old) \in Nat /\ Cardinality(new) \in Nat
    BY <1>1, CardinalityOfKeys
  <2>2. Cardinality(old \union new) = Cardinality(old) + Cardinality(new) - Cardinality(old \intersect new)
    BY <2>1, FS_Union
  <2>3. Cardinality(old \intersect new) = 0
    BY <1>3, FS_EmptySet
  <2> QED  BY <2>1, <2>2, <2>3
<1>7. Cardinality(old) \in Nat /\ Cardinality(new) \in Nat
  BY <1>1, CardinalityOfKeys
<1> QED  BY <1>2, <1>4, <1>5, <1>6, <1>7

LEMMA NothingIsExact ==
    ASSUME NEW n PROVE Cardinality(InNs({}, n)) = 0
<1>1. InNs({}, n) = {}
  BY DEF InNs
<1> QED  BY <1>1, FS_EmptySet

LEMMA NewPassIsExact ==
    ASSUME StartPass, counts' = Zero
    PROVE  CountsAreExact'
<1>1. fresh' = {} /\ \A n \in Scopes : counts'[n] = 0
  BY DEF StartPass, Zero
<1>2. \A n : InNs({}, n)' = {}
  BY DEF InNs
<1>3. \A n : Cardinality(InNs(fresh, n)') = 0
  BY <1>1, FS_EmptySet DEF InNs
<1> QED  BY <1>1, <1>3 DEF CountsAreExact

LEMMA ReportIsExact ==
    ASSUME EInv, Listing, NEW status \in Statuses, NEW page, page \subseteq Rest, Report(status, page)
    PROVE  InOrder' /\ CountsAreExact' /\ ReportsAreExact'
<1> DEFINE events == [i \in DOMAIN Claimed |-> PartitionEvent(Claimed[i], status, page)]
<1>0. TypeOK /\ TodoInScope /\ page \subseteq Keys
  BY RestInKeys DEF EInv
<1>1. events \in Seq(Partitions) /\ parts \in Seq(Partitions) /\ parts' = parts \o events
  BY <1>0, ReportTypes DEF Report, TypeOK
<1>2. Claimed \in Seq(Scopes) /\ DOMAIN Claimed = 1..Len(Claimed) /\ Len(Claimed) \in Nat
  BY <1>0, ClaimedType, LenProperties
<1>3. Len(events) = Len(Claimed) /\ DOMAIN events = 1..Len(Claimed)
  BY <1>1, <1>2
<1>4. \A j \in 1..Len(Claimed) :
        /\ events[j].namespace = Claimed[j]
        /\ events[j].status = "complete" =>
              IF onRestart THEN events[j].count = Cardinality(events[j].distinct)
                           ELSE events[j].count >= Cardinality(events[j].distinct)
  <2> SUFFICES ASSUME NEW j \in 1..Len(Claimed)
               PROVE  /\ events[j].namespace = Claimed[j]
                      /\ events[j].status = "complete" =>
                            IF onRestart THEN events[j].count = Cardinality(events[j].distinct)
                                         ELSE events[j].count >= Cardinality(events[j].distinct)
    OBVIOUS
  <2>1. Claimed[j] \in Scopes
    BY <1>2
  <2>2. /\ events[j].namespace = Claimed[j] /\ events[j].status = status
        /\ status = "complete" => events[j].count = Counted(page)[Claimed[j]]
        /\ events[j].distinct = InNs(Yielded(page), Claimed[j])
    BY <1>2 DEF PartitionEvent
  <2>3. IF onRestart THEN Counted(page)[Claimed[j]] = Cardinality(InNs(Yielded(page), Claimed[j]))
                     ELSE Counted(page)[Claimed[j]] >= Cardinality(InNs(Yielded(page), Claimed[j]))
    BY <2>1, PageIsCounted DEF EInv
  <2> HIDE DEF events
  <2> QED  BY <2>2, <2>3
<1> HIDE DEF events
<1>5. /\ Len(parts') = Len(parts) + Len(Claimed) /\ Len(parts) \in Nat
      /\ DOMAIN parts = 1..Len(parts) /\ DOMAIN parts' = 1..(Len(parts) + Len(Claimed))
      /\ \A i \in 1..Len(parts) : parts'[i] = parts[i]
      /\ \A i \in 1..Len(Claimed) : parts'[Len(parts) + i] = events[i]
  <2>1. Len(parts) \in Nat /\ DOMAIN parts = 1..Len(parts)
    BY <1>1, LenProperties
  <2>2. Len(parts \o events) = Len(parts) + Len(events)
    BY <1>1, ConcatProperties
  <2>3. \A i \in 1..(Len(parts) + Len(events)) :
          (parts \o events)[i] = IF i <= Len(parts) THEN parts[i] ELSE events[i - Len(parts)]
    BY <1>1, ConcatProperties
  <2>4. parts' \in Seq(Partitions) /\ DOMAIN parts' = 1..Len(parts')
    BY <1>1, ConcatProperties, LenProperties
  <2>5. ASSUME NEW i \in 1..Len(parts) PROVE parts'[i] = parts[i]
    <3>1. i \in 1..(Len(parts) + Len(events)) /\ i <= Len(parts)
      BY <1>2, <1>3, <2>1
    <3> QED  BY <1>1, <2>3, <3>1
  <2>6. ASSUME NEW i \in 1..Len(Claimed) PROVE parts'[Len(parts) + i] = events[i]
    <3>1. /\ Len(parts) + i \in 1..(Len(parts) + Len(events)) /\ ~(Len(parts) + i <= Len(parts))
          /\ (Len(parts) + i) - Len(parts) = i
      BY <1>2, <1>3, <2>1
    <3> QED  BY <1>1, <2>3, <3>1
  <2> QED  BY <1>1, <1>3, <2>1, <2>2, <2>4, <2>5, <2>6
<1>6. scope' = scope /\ onRestart' = onRestart /\ scope \in Seq(Scopes) /\ Len(scope) \in Nat
  BY DEF Report, EInv, TypeOK
<1>7. ASSUME NEW i \in 1..(Len(parts) + Len(Claimed)), i \notin 1..Len(parts)
      PROVE  i - Len(parts) \in 1..Len(Claimed) /\ parts'[i] = events[i - Len(parts)]
  <2>1. i - Len(parts) \in 1..Len(Claimed) /\ Len(parts) + (i - Len(parts)) = i
    BY <1>2, <1>5, <1>7
  <2>2. parts'[Len(parts) + (i - Len(parts))] = events[i - Len(parts)]
    BY <1>5, <2>1
  <2> QED  BY <2>1, <2>2
<1>8. ReportsAreExact'
  <2> SUFFICES ASSUME NEW i \in 1..(Len(parts) + Len(Claimed)), parts'[i].status = "complete"
               PROVE  IF onRestart THEN parts'[i].count = Cardinality(parts'[i].distinct)
                                   ELSE parts'[i].count >= Cardinality(parts'[i].distinct)
    BY <1>5, <1>6 DEF ReportsAreExact
  <2>1. CASE i \in 1..Len(parts)
    BY <1>5, <2>1 DEF EInv, ReportsAreExact
  <2>2. CASE i \notin 1..Len(parts)
    BY <1>4, <1>7, <2>2
  <2> QED  BY <2>1, <2>2
<1>9. InOrder'
  <2>1. CASE mode = "wide"
    <3>1. parts = <<>> /\ Claimed = scope /\ mode' = "done" /\ Len(parts) = 0
      BY <2>1 DEF EInv, InOrder, Claimed, Report, Continue
    <3>2. \A i \in 1..Len(parts') : parts'[i].namespace = scope[i]
      BY <1>2, <1>4, <1>5, <1>6, <3>1
    <3> QED  BY <1>5, <1>6, <3>1, <3>2 DEF InOrder
  <2>2. CASE mode = "single"
    <3>1. /\ todo # <<>> /\ todo \in Seq(Scopes) /\ Claimed = <<Head(todo)>>
          /\ todo' = Tail(todo) /\ mode' = IF Tail(todo) = <<>> THEN "done" ELSE "single"
      BY <2>2 DEF EInv, TypeOK, TodoInScope, Claimed, Report, Continue
    <3>2. /\ Len(todo) \in Nat /\ Len(todo) > 0 /\ Head(todo) = todo[1] /\ Len(Tail(todo)) = Len(todo) - 1
          /\ \A i \in 1..Len(Tail(todo)) : Tail(todo)[i] = todo[i + 1]
          /\ Tail(todo) = <<>> <=> Len(todo) = 1
      <4>1. Len(todo) \in Nat /\ Len(todo) > 0
        BY <3>1, EmptySeq, LenProperties
      <4>2. /\ Tail(todo) \in Seq(Scopes) /\ Len(Tail(todo)) = Len(todo) - 1 /\ Head(todo) = todo[1]
            /\ \A i \in 1..Len(Tail(todo)) : Tail(todo)[i] = todo[i + 1]
        BY <3>1, HeadTailProperties
      <4>3. Tail(todo) = <<>> <=> Len(Tail(todo)) = 0
        BY <4>2, EmptySeq
      <4> QED  BY <4>1, <4>2, <4>3
    <3>3. /\ Len(todo) = Len(scope) - Len(parts)
          /\ \A i \in 1..Len(todo) : todo[i] = scope[Len(parts) + i]
          /\ \A i \in 1..Len(parts) : parts[i].namespace = scope[i]
      BY <2>2 DEF EInv, InOrder
    <3>4. Len(Claimed) = 1 /\ Claimed[1] = scope[Len(parts) + 1]
      BY <3>1, <3>2, <3>3
    <3>5. \A i \in 1..Len(parts') : parts'[i].namespace = scope[i]
      BY <1>4, <1>5, <1>7, <3>3, <3>4
    <3>6. Len(parts') = Len(parts) + 1 /\ Len(parts') <= Len(scope) /\ Len(Tail(todo)) = Len(scope) - Len(parts')
      BY <1>5, <1>6, <3>2, <3>3, <3>4
    <3>7. ASSUME NEW i \in 1..Len(Tail(todo))
          PROVE  Tail(todo)[i] = scope[Len(parts') + i]
      <4>1. i + 1 \in 1..Len(todo) /\ Len(parts) + (i + 1) = Len(parts') + i
        BY <1>5, <3>2, <3>6
      <4> QED  BY <3>2, <3>3, <4>1
    <3>8. mode' = "done" => Len(parts') = Len(scope)
      BY <1>5, <1>6, <3>1, <3>2, <3>6
    <3> QED  BY <1>6, <3>1, <3>5, <3>6, <3>7, <3>8 DEF InOrder
  <2> QED  BY <2>1, <2>2 DEF Listing
<1>10. CountsAreExact'
  BY NewPassIsExact DEF Report, Continue
<1> QED  BY <1>8, <1>9, <1>10

LEMMA InitEInv == Init => EInv
<1> SUFFICES ASSUME Init PROVE EInv
  OBVIOUS
<1>1. TypeOK /\ TodoInScope
  BY TypeInit
<1>2. CountsAreExact /\ ReportsAreExact
  BY NothingIsExact DEF Init, CountsAreExact, ReportsAreExact, Zero
<1>3. InOrder
  <2>1. parts = <<>> /\ Len(parts) = 0 /\ Len(scope) \in Nat
    BY <1>1 DEF Init, TypeOK
  <2>2. mode \in {"wide", "single"} /\ (mode = "single" => todo = scope)
    BY DEF Init, ListResource, ListBestEffort
  <2> QED  BY <2>1, <2>2 DEF InOrder
<1> QED  BY <1>1, <1>2, <1>3 DEF EInv

(* A request that reports nothing leaves the order as it is.               *)
LEMMA OrderStays ==
    ASSUME EInv, UNCHANGED <<onRestart, scope, parts>>, UNCHANGED <<mode, todo>> \/ mode' = "raised"
    PROVE  InOrder' /\ ReportsAreExact'
BY DEF EInv, InOrder, ReportsAreExact

LEMMA StepEInv == EInv /\ [Next]_vars => EInv'
<1> SUFFICES ASSUME EInv, [Next]_vars PROVE InOrder' /\ CountsAreExact' /\ ReportsAreExact'
  BY TypeStep DEF EInv
<1>0. TypeOK /\ TodoInScope /\ CountsAreExact
  BY DEF EInv
<1>1. CASE GetPage
  <2>1. PICK last \in Rest : /\ fresh' = Yielded(Upto(last)) /\ counts' = Counted(Upto(last))
                             /\ token' = Exact(Snapshot, last)
    BY <1>1 DEF GetPage
  <2>2. UNCHANGED <<namespaced, onRestart, scope, mode, todo, parts>> /\ Listing
    BY <1>1 DEF GetPage
  <2>3. Upto(last) \subseteq Rest
    BY DEF Upto
  <2>4. \A n \in Scopes : IF onRestart THEN counts'[n] = Cardinality(InNs(fresh', n))
                                       ELSE counts'[n] >= Cardinality(InNs(fresh', n))
    BY <1>0, <2>1, <2>2, <2>3, PageIsCounted
  <2>5. \A k \in fresh' : k <= token'.after
    <3> SUFFICES ASSUME NEW k \in fresh' PROVE k <= last
      BY <2>1 DEF Exact
    <3>1. last \in Nat /\ last > token.after /\ token.after \in Nat
      BY <1>0, RestInKeys, KeysAssumption DEF Rest, TypeOK, Tokens
    <3>2. CASE k \in fresh
      <4>1. k <= token.after /\ k \in Nat
        BY <1>0, <2>2, <3>2, KeysAssumption DEF CountsAreExact, TypeOK
      <4> QED  BY <3>1, <4>1
    <3>3. CASE k \in Upto(last)
      BY <3>3 DEF Upto
    <3> QED  BY <2>1, <3>2, <3>3 DEF Yielded
  <2>6. \A n : InNs(fresh', n) = InNs(fresh, n)'
    BY <2>2 DEF InNs, Where
  <2>7. CountsAreExact'
    BY <2>2, <2>4, <2>5, <2>6 DEF CountsAreExact
  <2> QED  BY <2>2, <2>7, OrderStays
<1>2. CASE GetLastPage
  BY <1>2, ReportIsExact DEF GetLastPage, Statuses
<1>3. CASE ExpiredResume
  <2>1. /\ UNCHANGED <<namespaced, onRestart, scope, mode, todo, parts, counts, fresh>>
        /\ Listing /\ token'.after = token.after
    BY <1>3 DEF ExpiredResume, Expired, Resume
  <2>2. \A n : InNs(fresh, n)' = InNs(fresh, n)
    BY <2>1 DEF InNs, Where
  <2> QED  BY <1>0, <2>1, <2>2, OrderStays DEF CountsAreExact
<1>4. CASE ExpiredRestart
  <2>1. /\ UNCHANGED <<namespaced, onRestart, scope, mode, todo, parts>> /\ StartPass
        /\ counts' = IF onRestart THEN Zero ELSE counts
    BY <1>4 DEF ExpiredRestart, Expired
  <2>2. fresh' = {} /\ \A n : Cardinality(InNs(fresh, n)') = 0
    BY <2>1, FS_EmptySet DEF StartPass, InNs
  <2>3. \A n \in Scopes : IF onRestart THEN counts'[n] = 0 ELSE counts'[n] \in Nat
    BY <1>0, <2>1 DEF TypeOK, Zero
  <2>4. CountsAreExact'
    BY <2>1, <2>2, <2>3 DEF CountsAreExact
  <2> QED  BY <2>1, <2>4, OrderStays
<1>5. CASE ApiError
  BY <1>5, ReportIsExact DEF ApiError, Statuses
<1>6. CASE ForbiddenSingle
  BY <1>6, ReportIsExact DEF ForbiddenSingle, Listing, Statuses
<1>7. CASE ForbiddenWide
  <2>1. /\ mode = "wide" /\ todo' = scope /\ mode' = (IF scope = <<>> THEN "done" ELSE "single")
        /\ UNCHANGED <<onRestart, scope, parts>> /\ StartPass /\ counts' = Zero
    BY <1>7 DEF ForbiddenWide, Continue
  <2>2. parts = <<>> /\ Len(parts) = 0 /\ Len(scope) \in Nat /\ (scope = <<>> => Len(scope) = 0)
    BY <2>1 DEF EInv, InOrder, TypeOK
  <2>3. InOrder'
    BY <2>1, <2>2 DEF InOrder
  <2>4. ReportsAreExact'
    BY <2>1 DEF EInv, ReportsAreExact
  <2> QED  BY <2>1, <2>3, <2>4, NewPassIsExact
<1>8. CASE Create \/ Delete \/ UNCHANGED vars
  <2>1. UNCHANGED client
    BY <1>8 DEF Create, Delete, vars
  <2>2. \A n : InNs(fresh, n)' = InNs(fresh, n)
    BY <2>1 DEF client, InNs, Where
  <2>3. CountsAreExact'
    BY <1>0, <2>1, <2>2 DEF client, CountsAreExact, Listing
  <2> QED  BY <2>1, <2>3, OrderStays DEF client
<1>9. CASE ConnectionError
  <2>1. mode' = "raised" /\ UNCHANGED <<onRestart, scope, parts>>
    BY <1>9 DEF ConnectionError
  <2>2. CountsAreExact'
    BY <2>1 DEF CountsAreExact, Listing
  <2> QED  BY <2>1, <2>2, OrderStays
<1> QED BY <1>1, <1>2, <1>3, <1>4, <1>5, <1>6, <1>7, <1>8, <1>9 DEF Next, Client

(* Partitions come in the order of the scope, none skipped or repeated by  *)
(* the fallback, one for each when the listing is done, and a count of     *)
(* list_resource is the number of distinct objects of its last pass.       *)
THEOREM PartitionsComeExactly == Spec => []PartitionsAreExact
<1>1. EInv => PartitionsAreExact
  <2> SUFFICES ASSUME EInv PROVE PartitionsAreExact
    OBVIOUS
  <2> DEFINE reported == [i \in DOMAIN parts |-> parts[i].namespace]
  <2>1. /\ parts \in Seq(Partitions) /\ scope \in Seq(Scopes) /\ Len(parts) \in Nat /\ Len(scope) \in Nat
        /\ DOMAIN parts = 1..Len(parts) /\ Len(parts) <= Len(scope)
        /\ \A i \in 1..Len(parts) : parts[i].namespace = scope[i]
    BY DEF EInv, TypeOK, InOrder
  <2>2. SubSeq(scope, 1, Len(parts)) = [i \in 1..Len(parts) |-> scope[i]]
    BY <2>1
  <2>3. reported = SubSeq(scope, 1, Len(parts))
    BY <2>1, <2>2
  <2>4. mode = "done" => SubSeq(scope, 1, Len(parts)) = scope
    BY <2>1 DEF EInv, InOrder
  <2> QED  BY <2>1, <2>3, <2>4 DEF PartitionsAreExact, EInv, ReportsAreExact
<1> QED BY <1>1, InitEInv, StepEInv, PTL DEF Spec
=============================================================================
