------------------------- MODULE RequestBudgetProofs -------------------------
(* Theorems about RequestBudget for any number of clients and callers, any    *)
(* limits, any interval between the writes of the count and any number of     *)
(* redirects.                                                                 *)
EXTENDS RequestBudget, FiniteSetTheorems, TLAPS

\* The callers that have passed the check of the budget but are not yet counted.
Pending(c) == {k \in Caller : at[c][k] \in Waiting}

\* No client has more than w of them.
Crowd(w) == \A c \in Client : Cardinality(Pending(c)) <= w

\* What is counted and what is about to be stay within the bound together, and
\* so does every count that a new guard may start from.
BudgetInv(w) ==
    /\ \A c \in Client : made[c] + Cardinality(Pending(c)) <= Bound(w)
    /\ \A c \in Client : client[c] = "new" => \A k \in Caller : at[c][k] = "idle"
    /\ \A c \in Client : \A k \in Caller : count[c][k] <= Bound(w)
    /\ persisted <= Bound(w)

\* No guard, and no count on its way to the row, is ahead of all requests made.
ClaimInv ==
    /\ \A c \in Client : made[c] <= noted
    /\ \A c \in Client : \A k \in Caller : count[c][k] <= noted
    /\ persisted <= noted

(***************************************************************************)
(* Types.                                                                   *)
(***************************************************************************)
\* Every variable of the request budget keeps its type; in particular no
\* request follows more redirects than it may.
THEOREM TypeCorrect == Spec => []TypeOK
<1>1. Init => TypeOK
    <2>1. 0 \in 0..MaxRedirects
        BY BudgetAssumption DEF BudgetAssumption
    <2> QED
        BY <2>1 DEF Init, TypeOK, Waiting
<1>2. TypeOK /\ [Next]_vars => TypeOK'
    <2> SUFFICES ASSUME TypeOK, [Next]_vars PROVE TypeOK'
        OBVIOUS
    <2> USE DEF TypeOK, Waiting, GoTo, note_requests
    <2>1. ASSUME NEW c \in Client, OpenClient(c) \/ CloseClient(c)
          PROVE  TypeOK'
        BY <2>1 DEF OpenClient, CloseClient
    <2>2. ASSUME NEW c \in Client, _persist_exact_count(c)
          PROVE  TypeOK'
        BY <2>2 DEF _persist_exact_count
    <2>3. ASSUME NEW c \in Client, NEW k \in Caller, Admit(c, k)
          PROVE  TypeOK'
        <3>1. 0 \in 0..MaxRedirects
            BY BudgetAssumption DEF BudgetAssumption
        <3> QED
            BY <2>3, <3>1 DEF Admit
    <2>4. ASSUME NEW c \in Client, NEW k \in Caller, Count(c, k)
          PROVE  TypeOK'
        BY <2>4 DEF Count
    <2>5. ASSUME NEW c \in Client, NEW k \in Caller, _persist_request_count(c, k)
          PROVE  TypeOK'
        BY <2>5 DEF _persist_request_count
    <2>6. ASSUME NEW c \in Client, NEW k \in Caller,
                 EndRequest(c, k) \/ AbandonRequest(c, k)
          PROVE  TypeOK'
        <3>1. CASE EndRequest(c, k)
            BY <3>1 DEF EndRequest
        <3>2. CASE AbandonRequest(c, k)
            BY <3>2 DEF AbandonRequest
        <3> QED
            BY <2>6, <3>1, <3>2
    <2>7. ASSUME NEW c \in Client, NEW k \in Caller, Redirect(c, k)
          PROVE  TypeOK'
        <3>1. hops[c][k] \in 0..MaxRedirects /\ hops[c][k] < MaxRedirects
            BY <2>7 DEF Redirect
        <3>2. hops[c][k] + 1 \in 0..MaxRedirects
            BY <3>1, BudgetAssumption DEF BudgetAssumption
        <3> QED
            BY <2>7, <3>2 DEF Redirect
    <2>8. ASSUME NEW c \in Client, NEW k \in Caller, CountHop(c, k)
          PROVE  TypeOK'
        BY <2>8 DEF CountHop
    <2>9. CASE UNCHANGED vars
        BY <2>9 DEF vars
    <2> QED
        BY <2>1, <2>2, <2>3, <2>4, <2>5, <2>6, <2>7, <2>8, <2>9 DEF Next, Request
<1> QED
    BY <1>1, <1>2, PTL DEF Spec

(***************************************************************************)
(* The callers that wait.                                                   *)
(***************************************************************************)
LEMMA CallerSize == IsFiniteSet(Caller) /\ Cardinality(Caller) \in Nat \ {0}
<1>1. IsFiniteSet(Caller) /\ Caller # {}
    BY BudgetAssumption DEF BudgetAssumption
<1>2. Cardinality(Caller) \in Nat
    BY <1>1, FS_CardinalityType
<1>3. Cardinality(Caller) # 0
    BY <1>1, FS_EmptySet
<1> QED
    BY <1>1, <1>2, <1>3

\* The limit is a number, and the bounds are.
LEMMA LimitIsInt == Limit \in Int
BY BudgetAssumption DEF BudgetAssumption, Limit

LEMMA BoundIsNat ==
    ASSUME NEW w \in Nat \ {0}
    PROVE  Bound(w) \in Nat /\ (Limit > 0 => Limit - 1 + w = Bound(w))
BY LimitIsInt DEF Bound

\* Callers on their way to the count are finitely many, and no more than there are.
LEMMA PendingSize ==
    ASSUME NEW c \in Client
    PROVE  /\ IsFiniteSet(Pending(c))
           /\ Cardinality(Pending(c)) \in Nat
           /\ Cardinality(Pending(c)) <= Cardinality(Caller)
<1>1. Pending(c) \in SUBSET Caller
    BY DEF Pending
<1>2. IsFiniteSet(Pending(c)) /\ Cardinality(Pending(c)) <= Cardinality(Caller)
    BY <1>1, CallerSize, FS_Subset
<1> QED
    BY <1>2, FS_CardinalityType

\* In the next state as well.
LEMMA PendingSizeNext ==
    ASSUME NEW c \in Client
    PROVE  /\ Cardinality(Pending(c)') \in Nat
           /\ Cardinality(Pending(c)') <= Cardinality(Caller)
<1>1. Pending(c)' \in SUBSET Caller
    BY DEF Pending
<1>2. IsFiniteSet(Pending(c)') /\ Cardinality(Pending(c)') <= Cardinality(Caller)
    BY <1>1, CallerSize, FS_Subset
<1> QED
    BY <1>2, FS_CardinalityType

\* Whoever leaves the limiter makes room for the request it counts.
LEMMA CountedWasPending ==
    ASSUME TypeOK, NEW c \in Client, NEW k \in Caller, at[c][k] \in Waiting,
           NEW place \in {"persisting", "sending"}, GoTo(c, k, place)
    PROVE  Cardinality(Pending(c)') = Cardinality(Pending(c)) - 1
<1>1. k \in Pending(c)
    BY DEF Pending
<1>2. Pending(c)' = Pending(c) \ {k}
    BY DEF TypeOK, Pending, GoTo, Waiting
<1> QED
    BY <1>1, <1>2, PendingSize, FS_RemoveElement

\* Whoever goes elsewhere but to the limiter leaves no more callers there.
LEMMA PendingShrinks ==
    ASSUME TypeOK, NEW c \in Client, NEW k \in Caller,
           NEW place \in {"idle", "persisting", "sending"}, GoTo(c, k, place),
           NEW d \in Client
    PROVE  Cardinality(Pending(d)') <= Cardinality(Pending(d))
<1>1. Pending(d)' \in SUBSET Pending(d)
    BY DEF TypeOK, Pending, GoTo, Waiting
<1> QED
    BY <1>1, PendingSize, FS_Subset

\* What one client does leaves the callers of the others alone.
LEMMA OthersPendingSame ==
    ASSUME TypeOK, NEW c \in Client, NEW k \in Caller, NEW place, GoTo(c, k, place),
           NEW d \in Client \ {c}
    PROVE  Pending(d)' = Pending(d)
    BY DEF TypeOK, Pending, GoTo

(***************************************************************************)
(* The bound.                                                               *)
(***************************************************************************)
LEMMA BudgetInit ==
    ASSUME NEW w \in Nat \ {0}, Init
    PROVE  BudgetInv(w)
<1>1. \A c \in Client : Cardinality(Pending(c)) = 0
    <2> SUFFICES ASSUME NEW c \in Client PROVE Cardinality(Pending(c)) = 0
        OBVIOUS
    <2>1. Pending(c) = {}
        BY DEF Init, Pending, Waiting
    <2> QED
        BY <2>1, FS_EmptySet
<1> QED
    BY <1>1, BoundIsNat DEF Init, BudgetInv

\* The sum of what is counted and what is pending, of one client.
LEMMA SumStep ==
    ASSUME NEW w \in Nat \ {0}, Limit # 0, TypeOK, BudgetInv(w), Crowd(w)', Next,
           NEW d \in Client
    PROVE  made'[d] + Cardinality(Pending(d)') <= Bound(w)
<1>0. /\ made[d] \in Nat /\ persisted \in Nat /\ persisted <= Bound(w)
      /\ made[d] + Cardinality(Pending(d)) <= Bound(w)
      /\ Cardinality(Pending(d)') <= w
      /\ Bound(w) \in Nat
    BY BoundIsNat DEF TypeOK, BudgetInv, Crowd
<1> USE <1>0, PendingSize, PendingSizeNext
<1>1. ASSUME NEW c \in Client, OpenClient(c)
      PROVE  made'[d] + Cardinality(Pending(d)') <= Bound(w)
    <2>1. CASE d = c
        <3>1. Pending(d)' = {}
            BY <1>1, <2>1 DEF OpenClient, Pending, BudgetInv, Waiting
        <3>2. made'[d] = persisted
            BY <1>1, <2>1 DEF OpenClient, TypeOK
        <3> QED
            BY <3>1, <3>2, FS_EmptySet
    <2>2. CASE d # c
        <3>1. Pending(d)' = Pending(d) /\ made'[d] = made[d]
            BY <1>1, <2>2 DEF OpenClient, Pending, TypeOK
        <3> QED
            BY <3>1
    <2> QED
        BY <2>1, <2>2
<1>2. ASSUME NEW c \in Client, CloseClient(c) \/ _persist_exact_count(c)
      PROVE  made'[d] + Cardinality(Pending(d)') <= Bound(w)
    <2>1. Pending(d)' = Pending(d) /\ made'[d] = made[d]
        BY <1>2 DEF CloseClient, _persist_exact_count, Pending
    <2> QED
        BY <2>1
<1>3. ASSUME NEW c \in Client, NEW k \in Caller, Admit(c, k) \/ Redirect(c, k)
      PROVE  made'[d] + Cardinality(Pending(d)') <= Bound(w)
    <2>1. made'[d] = made[d]
        BY <1>3 DEF Admit, Redirect
    <2>2. CASE d = c
        <3>1. made[d] + 1 <= Limit
            BY <1>3, <2>2 DEF Admit, Redirect, check_budget
        <3>2. Limit > 0 /\ Limit - 1 + w = Bound(w)
            BY <3>1, LimitIsInt, BoundIsNat
        <3> QED
            BY <2>1, <3>1, <3>2, LimitIsInt
    <2>3. CASE d # c
        <3>1. PICK place : GoTo(c, k, place)
            BY <1>3 DEF Admit, Redirect
        <3>2. Pending(d)' = Pending(d)
            BY <2>3, <3>1, OthersPendingSame
        <3> QED
            BY <2>1, <3>2
    <2> QED
        BY <2>2, <2>3
<1>4. ASSUME NEW c \in Client, NEW k \in Caller, Count(c, k) \/ CountHop(c, k)
      PROVE  made'[d] + Cardinality(Pending(d)') <= Bound(w)
    <2>1. PICK place \in {"persisting", "sending"} : GoTo(c, k, place)
        BY <1>4 DEF Count, CountHop
    <2>2. at[c][k] \in Waiting
        BY <1>4 DEF Count, CountHop, Waiting
    <2>3. CASE d = c
        <3>1. made'[d] = made[d] + 1
            BY <1>4, <2>3 DEF Count, CountHop, note_requests, TypeOK
        <3>2. Cardinality(Pending(d)') = Cardinality(Pending(d)) - 1
            BY <2>1, <2>2, <2>3, CountedWasPending
        <3> QED
            BY <3>1, <3>2
    <2>4. CASE d # c
        <3>1. made'[d] = made[d]
            BY <1>4, <2>4 DEF Count, CountHop, note_requests, TypeOK
        <3>2. Pending(d)' = Pending(d)
            BY <2>1, <2>4, OthersPendingSame
        <3> QED
            BY <3>1, <3>2
    <2> QED
        BY <2>3, <2>4
<1>5. ASSUME NEW c \in Client, NEW k \in Caller,
             \/ _persist_request_count(c, k)
             \/ EndRequest(c, k)
             \/ AbandonRequest(c, k)
      PROVE  made'[d] + Cardinality(Pending(d)') <= Bound(w)
    <2>1. PICK place \in {"idle", "persisting", "sending"} : GoTo(c, k, place)
        BY <1>5 DEF _persist_request_count, EndRequest, AbandonRequest
    <2>2. made'[d] = made[d]
        BY <1>5 DEF _persist_request_count, EndRequest, AbandonRequest
    <2>3. Cardinality(Pending(d)') <= Cardinality(Pending(d))
        BY <2>1, PendingShrinks
    <2> QED
        BY <2>2, <2>3
<1> QED
    BY <1>1, <1>2, <1>3, <1>4, <1>5 DEF Next, Request

\* What a caller is about to write, and the row, come from some guard's count.
LEMMA CountsStep ==
    ASSUME NEW w \in Nat \ {0}, Limit # 0, TypeOK, BudgetInv(w), Crowd(w)', Next
    PROVE  /\ \A d \in Client : \A j \in Caller : count'[d][j] <= Bound(w)
           /\ persisted' <= Bound(w)
<1>0. \A c \in Client : made[c] \in Nat /\ made[c] <= Bound(w)
    BY PendingSize, BoundIsNat DEF TypeOK, BudgetInv
<1>1. CASE UNCHANGED <<persisted, count>>
    BY <1>1 DEF BudgetInv
<1>2. ASSUME NEW c \in Client, _persist_exact_count(c)
      PROVE  persisted' = made[c] /\ count' = count
    BY <1>2 DEF _persist_exact_count
<1>3. ASSUME NEW c \in Client, NEW k \in Caller, _persist_request_count(c, k)
      PROVE  persisted' = count[c][k] /\ count' = count
    BY <1>3 DEF _persist_request_count
<1>4. ASSUME NEW c \in Client, NEW k \in Caller, Count(c, k)
      PROVE  /\ persisted' = persisted
             /\ \A d \in Client : \A j \in Caller : count'[d][j] <= Bound(w)
    <2>1. made'[c] = made[c] + 1
        BY <1>4 DEF Count, note_requests, TypeOK
    <2>2. made'[c] <= Bound(w)
        BY <2>1, SumStep, PendingSizeNext, BoundIsNat, <1>0
    <2>3. count' = [count EXCEPT ![c][k] = made[c] + 1] /\ persisted' = persisted
        BY <1>4 DEF Count
    <2> QED
        BY <2>1, <2>2, <2>3 DEF TypeOK, BudgetInv
<1>5. \/ UNCHANGED <<persisted, count>>
      \/ \E c \in Client : _persist_exact_count(c)
      \/ \E c \in Client : \E k \in Caller : _persist_request_count(c, k)
      \/ \E c \in Client : \E k \in Caller : Count(c, k)
    BY DEF Next, Request, OpenClient, CloseClient, Admit, EndRequest, Redirect,
       CountHop, AbandonRequest
<1> QED
    BY <1>0, <1>1, <1>2, <1>3, <1>4, <1>5 DEF BudgetInv

\* A client that has not been opened has no callers inside it.
LEMMA UnusedStep ==
    ASSUME NEW w, TypeOK, BudgetInv(w), Next, NEW d \in Client, client'[d] = "new",
           NEW j \in Caller
    PROVE  at'[d][j] = "idle"
<1>1. client[d] = "new"
    BY DEF TypeOK, Next, Request, OpenClient, CloseClient, _persist_exact_count,
       Admit, Count, _persist_request_count, EndRequest, Redirect, CountHop,
       AbandonRequest
<1>2. at[d][j] = "idle"
    BY <1>1 DEF BudgetInv
<1>3. ASSUME NEW c \in Client,
             OpenClient(c) \/ CloseClient(c) \/ _persist_exact_count(c)
      PROVE  at' = at
    BY <1>3 DEF OpenClient, CloseClient, _persist_exact_count
<1>4. ASSUME NEW c \in Client, NEW k \in Caller, Request(c, k)
      PROVE  c # d /\ \E place : GoTo(c, k, place)
    <2>1. c # d
        BY <1>4, <1>1 DEF BudgetInv, Request, Admit, Count,
           _persist_request_count, EndRequest, Redirect, CountHop, AbandonRequest
    <2>2. \E place : GoTo(c, k, place)
        BY <1>4 DEF Request, Admit, Count, _persist_request_count, EndRequest,
           Redirect, CountHop, AbandonRequest
    <2> QED
        BY <2>1, <2>2
<1> QED
    BY <1>2, <1>3, <1>4 DEF Next, GoTo, TypeOK

\* Every step keeps what is counted and what is on its way within the bound.
LEMMA BudgetStep ==
    ASSUME NEW w \in Nat \ {0}, Limit # 0, TypeOK, BudgetInv(w), Crowd(w)', [Next]_vars
    PROVE  BudgetInv(w)'
<1>1. CASE Next
    <2>1. \A c \in Client : made'[c] + Cardinality(Pending(c)') <= Bound(w)
        BY <1>1, SumStep
    <2>2. \A c \in Client : client'[c] = "new" => \A k \in Caller : at'[c][k] = "idle"
        BY <1>1, UnusedStep
    <2> QED
        BY <1>1, <2>1, <2>2, CountsStep DEF BudgetInv, Bound, Limit
<1>2. CASE UNCHANGED vars
    BY <1>2 DEF vars, BudgetInv, Bound, Limit, Pending
<1> QED
    BY <1>1, <1>2

\* No more callers wait at the limiter together than there are.
LEMMA AllCallersAreACrowd ==
    /\ Cardinality(Caller) \in Nat \ {0}
    /\ Crowd(Cardinality(Caller))
    /\ Crowd(Cardinality(Caller))'
BY CallerSize, PendingSize, PendingSizeNext DEF Crowd

\* That all of them wait together is the worst that can happen.
LEMMA BudgetIsAlwaysKept ==
    ASSUME Limit # 0
    PROVE  Spec => []BudgetInv(Cardinality(Caller))
<1>1. Init => BudgetInv(Cardinality(Caller))
    BY BudgetInit, AllCallersAreACrowd
<1>2. TypeOK /\ BudgetInv(Cardinality(Caller)) /\ [Next]_vars => BudgetInv(Cardinality(Caller))'
    BY BudgetStep, AllCallersAreACrowd
<1> QED
    BY <1>1, <1>2, TypeCorrect, PTL DEF Spec

\* The agents of a client exceed its limit by less than their number, however
\* they interleave at the rate limiter and whatever redirects they follow.
THEOREM GuardOvershootsByCallers == Spec => []OvershootIsBounded
<1>1. CASE Limit = 0
    <2>1. OvershootIsBounded
        BY <1>1 DEF OvershootIsBounded
    <2> QED
        BY <2>1, PTL
<1>2. CASE Limit # 0
    <2>1. TypeOK /\ BudgetInv(Cardinality(Caller)) => OvershootIsBounded
        BY PendingSize, CallerSize, BoundIsNat DEF TypeOK, BudgetInv, OvershootIsBounded
    <2> QED
        BY <1>2, <2>1, TypeCorrect, BudgetIsAlwaysKept, PTL
<1> QED
    BY <1>1, <1>2

\* The edges of the record's column: with 0 the guard refuses nothing, whatever
\* the settings say, and with less it lets nothing through.
THEOREM ZeroIsNoLimit ==
    ASSUME TypeOK, NEW c \in Client, MaxPerAssessment >= 0
    PROVE  /\ MaxRequests = 0 => check_budget(c)
           /\ MaxRequests < 0 => ~check_budget(c)
BY BudgetAssumption DEF BudgetAssumption, TypeOK, check_budget, Limit

(***************************************************************************)
(* The row.                                                                 *)
(***************************************************************************)
LEMMA ClaimStep == TypeOK /\ ClaimInv /\ [Next]_vars => ClaimInv'
<1> SUFFICES ASSUME TypeOK, ClaimInv, [Next]_vars PROVE ClaimInv'
    OBVIOUS
<1> USE DEF TypeOK, ClaimInv
<1>1. ASSUME NEW c \in Client, OpenClient(c)
      PROVE  ClaimInv'
    BY <1>1 DEF OpenClient
<1>2. ASSUME NEW c \in Client, CloseClient(c)
      PROVE  ClaimInv'
    BY <1>2 DEF CloseClient
<1>3. ASSUME NEW c \in Client, _persist_exact_count(c)
      PROVE  ClaimInv'
    BY <1>3 DEF _persist_exact_count
<1>4. ASSUME NEW c \in Client, NEW k \in Caller, Count(c, k)
      PROVE  ClaimInv'
    <2>1. /\ noted' = noted + 1
          /\ made' = [made EXCEPT ![c] = made[c] + 1]
          /\ count' = [count EXCEPT ![c][k] = made[c] + 1]
          /\ persisted' = persisted
        BY <1>4 DEF Count, note_requests
    <2>2. made[c] + 1 <= noted'
        BY <2>1
    <2> QED
        BY <2>1, <2>2
<1>5. ASSUME NEW c \in Client, NEW k \in Caller, CountHop(c, k)
      PROVE  ClaimInv'
    BY <1>5 DEF CountHop, note_requests
<1>6. ASSUME NEW c \in Client, NEW k \in Caller, _persist_request_count(c, k)
      PROVE  ClaimInv'
    BY <1>6 DEF _persist_request_count
<1>7. CASE UNCHANGED <<made, count, persisted, noted>>
    BY <1>7
<1>8. \/ UNCHANGED <<made, count, persisted, noted>>
      \/ \E c \in Client : OpenClient(c) \/ CloseClient(c) \/ _persist_exact_count(c)
      \/ \E c \in Client : \E k \in Caller :
             Count(c, k) \/ CountHop(c, k) \/ _persist_request_count(c, k)
    BY DEF vars, Next, Request, Admit, EndRequest, Redirect, AbandonRequest
<1> QED
    BY <1>1, <1>2, <1>3, <1>4, <1>5, <1>6, <1>7, <1>8

\* The row may lag behind, but it never claims requests nobody made: a client
\* that starts from it is never refused for requests that did not happen.
THEOREM RowIsHonest == Spec => []RowClaimsNoMore
<1>1. Init => ClaimInv
    BY DEF Init, ClaimInv
<1>2. ClaimInv => RowClaimsNoMore
    BY DEF ClaimInv, RowClaimsNoMore
<1> QED
    BY TypeCorrect, <1>1, ClaimStep, <1>2, PTL DEF Spec

(***************************************************************************)
(* All clients together.  A sum over the clients would need induction; the  *)
(* requests are numbered instead, each by its client and by the count of    *)
(* its guard, and the numbers that exist bound the requests made.           *)
(***************************************************************************)
Numbers(w) == {n \in Opened \X (1..Bound(w)) : n[2] <= made[n[1]]}

\* Every request has a number of its own.
JointInv(w) ==
    /\ IsFiniteSet(Opened)
    /\ noted <= Cardinality(Numbers(w))

\* The numbers are as many as clients times the bound, at most.
LEMMA NumbersFit ==
    ASSUME NEW w \in Nat \ {0}, IsFiniteSet(Opened)
    PROVE  /\ IsFiniteSet(Numbers(w))
           /\ Cardinality(Numbers(w)) \in Nat
           /\ Cardinality(Numbers(w)) <= Cardinality(Opened) * Bound(w)
<1>1. IsFiniteSet(1..Bound(w)) /\ Cardinality(1..Bound(w)) = Bound(w)
    BY BoundIsNat, FS_Interval
<1>2. /\ IsFiniteSet(Opened \X (1..Bound(w)))
      /\ Cardinality(Opened \X (1..Bound(w))) = Cardinality(Opened) * Bound(w)
    BY <1>1, FS_Product
<1>3. Numbers(w) \in SUBSET (Opened \X (1..Bound(w)))
    BY DEF Numbers
<1>4. /\ IsFiniteSet(Numbers(w))
      /\ Cardinality(Numbers(w)) <= Cardinality(Opened \X (1..Bound(w)))
    BY <1>2, <1>3, FS_Subset
<1> QED
    BY <1>2, <1>4, FS_CardinalityType

\* Numbers are never taken back.
LEMMA NumbersGrow ==
    ASSUME NEW w, IsFiniteSet(Opened'), IsFiniteSet(Numbers(w)'), Numbers(w) \subseteq Numbers(w)'
    PROVE  Cardinality(Numbers(w)) <= Cardinality(Numbers(w)')
    BY FS_Subset

\* Every step leaves finitely many clients open, and a number for each request.
LEMMA JointStep ==
    ASSUME NEW w \in Nat \ {0}, TypeOK, BudgetInv(w), BudgetInv(w)', JointInv(w),
           [Next]_vars, IsFiniteSet(Opened') => IsFiniteSet(Numbers(w)')
    PROVE  JointInv(w)'
<1>0. /\ IsFiniteSet(Opened) /\ noted \in Nat /\ noted <= Cardinality(Numbers(w))
      /\ IsFiniteSet(Numbers(w)) /\ Cardinality(Numbers(w)) \in Nat
    BY NumbersFit DEF JointInv, TypeOK
<1>1. ASSUME Opened' = Opened, Numbers(w)' = Numbers(w), noted' = noted
      PROVE  JointInv(w)'
    BY <1>0, <1>1 DEF JointInv
<1>2. ASSUME NEW c \in Client, OpenClient(c) PROVE JointInv(w)'
    <2>1. Opened' = Opened \cup {c} /\ noted' = noted
        BY <1>2 DEF OpenClient, Opened, TypeOK
    <2>2. IsFiniteSet(Opened') /\ IsFiniteSet(Numbers(w)')
        BY <1>0, <2>1, FS_AddElement
    <2>3. Numbers(w) \subseteq Numbers(w)'
        <3>1. \A d \in Opened : made'[d] = made[d]
            BY <1>2 DEF OpenClient, Opened, TypeOK
        <3> QED
            BY <2>1, <3>1 DEF Numbers, Bound, Limit
    <2>4. Cardinality(Numbers(w)) <= Cardinality(Numbers(w)')
        BY <2>2, <2>3, NumbersGrow
    <2>5. Cardinality(Numbers(w)') \in Nat
        BY <2>2, FS_CardinalityType
    <2> QED
        BY <1>0, <2>1, <2>2, <2>4, <2>5 DEF JointInv
<1>3. ASSUME NEW c \in Client, CloseClient(c) \/ _persist_exact_count(c)
      PROVE  JointInv(w)'
    <2>1. Opened' = Opened /\ made' = made /\ noted' = noted
        BY <1>3 DEF CloseClient, _persist_exact_count, Opened, TypeOK
    <2> QED
        BY <1>1, <2>1 DEF Numbers, Bound, Limit
<1>4. ASSUME NEW c \in Client, NEW k \in Caller, Count(c, k) \/ CountHop(c, k)
      PROVE  JointInv(w)'
    <2>1. /\ c \in Opened
          /\ Opened' = Opened
          /\ made' = [made EXCEPT ![c] = made[c] + 1]
          /\ noted' = noted + 1
        BY <1>4 DEF Count, CountHop, note_requests, Opened, BudgetInv
    <2>2. made[c] + 1 \in 1..Bound(w)
        <3>1. made'[c] = made[c] + 1 /\ made[c] \in Nat
            BY <2>1 DEF TypeOK
        <3>2. made'[c] + Cardinality(Pending(c)') <= Bound(w)
            BY DEF BudgetInv, Bound, Limit
        <3> QED
            BY <3>1, <3>2, PendingSizeNext, BoundIsNat
    <2>3. Numbers(w)' = Numbers(w) \cup {<<c, made[c] + 1>>}
        BY <2>1, <2>2 DEF Numbers, Bound, Limit, TypeOK
    <2>4. <<c, made[c] + 1>> \notin Numbers(w)
        BY DEF Numbers, TypeOK
    <2>5. Cardinality(Numbers(w)') = Cardinality(Numbers(w)) + 1
        BY <1>0, <2>3, <2>4, FS_AddElement
    <2> QED
        BY <1>0, <2>1, <2>5 DEF JointInv
<1>5. ASSUME NEW c \in Client, NEW k \in Caller,
             \/ Admit(c, k) \/ _persist_request_count(c, k)
             \/ EndRequest(c, k) \/ Redirect(c, k) \/ AbandonRequest(c, k)
      PROVE  JointInv(w)'
    <2>1. UNCHANGED <<client, made, noted>>
        BY <1>5 DEF Admit, _persist_request_count, EndRequest, Redirect, AbandonRequest
    <2> QED
        BY <1>1, <2>1 DEF Numbers, Opened, Bound, Limit
<1>6. CASE UNCHANGED vars
    BY <1>1, <1>6 DEF vars, Numbers, Opened, Bound, Limit
<1> QED
    BY <1>2, <1>3, <1>4, <1>5, <1>6 DEF Next, Request

\* Initially no client is open and nothing has been requested.
LEMMA JointInit ==
    ASSUME NEW w \in Nat \ {0}, Init
    PROVE  JointInv(w)
<1>1. Opened = {} /\ noted = 0
    BY DEF Init, Opened
<1>2. IsFiniteSet(Opened)
    BY <1>1, FS_EmptySet
<1> QED
    BY <1>1, <1>2, NumbersFit DEF JointInv

\* With a number for each, the requests are as many as fit.
LEMMA JointBound ==
    ASSUME NEW w \in Nat \ {0}, TypeOK, JointInv(w)
    PROVE  noted <= Cardinality(Opened) * Bound(w)
<1> DEFINE Most == Cardinality(Opened) * Bound(w)
<1>1. /\ noted \in Nat /\ noted <= Cardinality(Numbers(w))
      /\ Cardinality(Numbers(w)) \in Nat /\ Cardinality(Numbers(w)) <= Most
    BY NumbersFit DEF JointInv, TypeOK
<1>2. Most \in Nat
    <2>1. Cardinality(Opened) \in Nat
        BY FS_CardinalityType DEF JointInv
    <2> QED
        BY <2>1, BoundIsNat
<1> HIDE DEF Most
<1>3. noted <= Most
    BY <1>1, <1>2
<1> QED
    BY <1>3 DEF Most

\* Finitely many open clients have finitely many numbers, in the next state as well.
LEMMA NumbersFitNext ==
    ASSUME NEW w \in Nat \ {0}
    PROVE  (IsFiniteSet(Opened) => IsFiniteSet(Numbers(w)))'
<1>1. IsFiniteSet(Opened) => IsFiniteSet(Numbers(w))
    BY NumbersFit
<1> QED
    BY <1>1, PTL

\* The clients of an assessment together make at most as many requests as each of
\* them alone may make, times the clients that were opened, in every order in which
\* they read and overwrite the row.
THEOREM ClientsOvershootTogether == Spec => []JointOvershootIsBounded
<1>1. CASE Limit = 0
    <2>1. JointOvershootIsBounded
        BY <1>1 DEF JointOvershootIsBounded
    <2> QED
        BY <2>1, PTL
<1>2. CASE Limit # 0
    <2> DEFINE All == Cardinality(Caller)
    <2>0. All \in Nat \ {0}
        BY CallerSize
    <2>1. Init => JointInv(All)
        BY <2>0, JointInit
    <2>2. TypeOK /\ BudgetInv(All) /\ BudgetInv(All)' /\ JointInv(All) /\ [Next]_vars
              => JointInv(All)'
        BY <2>0, NumbersFitNext, JointStep
    <2>3. TypeOK /\ JointInv(All) => JointOvershootIsBounded
        BY <2>0, JointBound DEF JointOvershootIsBounded
    <2> QED
        BY <1>2, <2>1, <2>2, <2>3, BudgetIsAlwaysKept, TypeCorrect, PTL DEF Spec
<1> QED
    BY <1>1, <1>2

\* Both bounds for those that are at work together: however many agents a run starts
\* one after the other, if no more than w of a client wait at the limiter at any time,
\* only w count.
THEOREM OnlyTheCrowdOvershoots ==
    ASSUME NEW w \in Nat \ {0}, Limit > 0
    PROVE  Spec /\ []Crowd(w) => [](/\ \A c \in Client : made[c] <= Limit + w - 1
                                   /\ noted <= Cardinality(Opened) * (Limit + w - 1))
<1>0. Limit # 0 /\ Bound(w) = Limit + w - 1
    BY LimitIsInt DEF Bound
<1>1. Init => BudgetInv(w) /\ JointInv(w)
    BY BudgetInit, JointInit
<1>2. TypeOK /\ BudgetInv(w) /\ Crowd(w)' /\ [Next]_vars => BudgetInv(w)'
    BY <1>0, BudgetStep
<1>3. TypeOK /\ BudgetInv(w) /\ BudgetInv(w)' /\ JointInv(w) /\ [Next]_vars => JointInv(w)'
    BY NumbersFitNext, JointStep
<1>4. TypeOK /\ BudgetInv(w) => \A c \in Client : made[c] <= Limit + w - 1
    BY <1>0, PendingSize, BoundIsNat, LimitIsInt DEF TypeOK, BudgetInv
<1>5. TypeOK /\ JointInv(w) => noted <= Cardinality(Opened) * (Limit + w - 1)
    BY <1>0, JointBound
<1> QED
    BY <1>1, <1>2, <1>3, <1>4, <1>5, TypeCorrect, PTL DEF Spec

(***************************************************************************)
(* The nodes of the graph engine.  They run one after the other, and each   *)
(* writes the exact count before the next one opens its client; that is     *)
(* all it takes to share the budget which BudgetIsShared finds exceeded.    *)
(***************************************************************************)
AtWork(c) == client[c] \in {"open", "closed"}

\* No node opens its client before the last one has written its count, and a
\* node that has written it leaves no caller behind.
Sequential ==
    /\ \A c \in Client : \A d \in Client : AtWork(c) /\ AtWork(d) => c = d
    /\ \A c \in Client : client[c] = "settled" => \A k \in Caller : at[c][k] = "idle"

\* The guard at work counts all requests made so far, and between two nodes
\* the row does.
SharedInv ==
    /\ \A c \in Client : AtWork(c) => made[c] = noted
    /\ (\A c \in Client : ~AtWork(c)) => persisted = noted

\* A caller is inside a client that is at work.
LEMMA CallersAreInClientsAtWork ==
    ASSUME NEW w, TypeOK, BudgetInv(w), Sequential, NEW c \in Client, NEW k \in Caller,
           at[c][k] # "idle"
    PROVE  AtWork(c)
BY DEF TypeOK, BudgetInv, Sequential, AtWork

\* Every step hands the count on: from the row to the guard, to the caller that
\* counts, and back to the row.
LEMMA SharedStep ==
    ASSUME NEW w, TypeOK, BudgetInv(w), Sequential, Sequential', SharedInv, [Next]_vars
    PROVE  SharedInv'
<1>1. ASSUME NEW c \in Client, OpenClient(c) PROVE SharedInv'
    <2>1. AtWork(c)' /\ ~AtWork(c) /\ \A d \in Client \ {c} : AtWork(d)' <=> AtWork(d)
        BY <1>1 DEF OpenClient, AtWork, TypeOK
    <2>2. \A d \in Client \ {c} : ~AtWork(d)'
        BY <2>1 DEF Sequential
    <2>3. persisted = noted
        BY <2>1, <2>2 DEF SharedInv
    <2>4. made'[c] = persisted /\ noted' = noted
        BY <1>1 DEF OpenClient, TypeOK
    <2> QED
        BY <2>1, <2>2, <2>3, <2>4 DEF SharedInv
<1>2. ASSUME NEW c \in Client, CloseClient(c) PROVE SharedInv'
    <2>1. \A d \in Client : AtWork(d)' <=> AtWork(d)
        BY <1>2 DEF CloseClient, AtWork, TypeOK
    <2>2. UNCHANGED <<made, noted, persisted>>
        BY <1>2 DEF CloseClient
    <2> QED
        BY <2>1, <2>2 DEF SharedInv
<1>3. ASSUME NEW c \in Client, _persist_exact_count(c) PROVE SharedInv'
    <2>1. AtWork(c) /\ ~AtWork(c)' /\ \A d \in Client \ {c} : AtWork(d)' <=> AtWork(d)
        BY <1>3 DEF _persist_exact_count, AtWork, TypeOK
    <2>2. persisted' = made[c] /\ made' = made /\ noted' = noted
        BY <1>3 DEF _persist_exact_count
    <2> QED
        BY <2>1, <2>2 DEF SharedInv
<1>4. ASSUME NEW c \in Client, NEW k \in Caller, Count(c, k) \/ CountHop(c, k)
      PROVE  SharedInv'
    <2>1. AtWork(c)
        BY <1>4, CallersAreInClientsAtWork DEF Count, CountHop
    <2>2. made[c] = noted
        BY <2>1 DEF SharedInv
    <2>3. made'[c] = made[c] + 1 /\ noted' = noted + 1
        BY <1>4 DEF Count, CountHop, note_requests, TypeOK
    <2>4. \A d \in Client : AtWork(d)' <=> AtWork(d)
        BY <1>4 DEF Count, CountHop, AtWork
    <2>5. \A d \in Client \ {c} : ~AtWork(d)
        BY <2>1 DEF Sequential
    <2> QED
        BY <2>1, <2>2, <2>3, <2>4, <2>5 DEF SharedInv
<1>5. ASSUME NEW c \in Client, NEW k \in Caller, _persist_request_count(c, k)
      PROVE  SharedInv'
    <2>1. AtWork(c)
        BY <1>5, CallersAreInClientsAtWork DEF _persist_request_count
    <2>2. \A d \in Client : AtWork(d)' <=> AtWork(d)
        BY <1>5 DEF _persist_request_count, AtWork
    <2>3. made' = made /\ noted' = noted
        BY <1>5 DEF _persist_request_count
    <2> QED
        BY <2>1, <2>2, <2>3 DEF SharedInv
<1>6. CASE UNCHANGED <<persisted, client, made, noted>>
    BY <1>6 DEF SharedInv, AtWork
<1>7. \/ UNCHANGED <<persisted, client, made, noted>>
      \/ \E c \in Client : OpenClient(c) \/ CloseClient(c) \/ _persist_exact_count(c)
      \/ \E c \in Client : \E k \in Caller :
             Count(c, k) \/ CountHop(c, k) \/ _persist_request_count(c, k)
    BY DEF vars, Next, Request, Admit, EndRequest, Redirect, AbandonRequest
<1> QED
    BY <1>1, <1>2, <1>3, <1>4, <1>5, <1>6, <1>7

\* What the exact count of a graph node is for: nodes that run one after the other
\* spend a single budget, however many there are, and exceed it together by no more
\* than the callers that wait at the limiter at the same time; with one at a time
\* they keep to it.
THEOREM SequentialNodesShareTheBudget ==
    ASSUME NEW w \in Nat \ {0}, Limit > 0
    PROVE  Spec /\ []Crowd(w) /\ []Sequential => [](noted <= Limit + w - 1)
<1>0. Limit # 0 /\ Bound(w) = Limit + w - 1
    BY LimitIsInt DEF Bound
<1>1. Init => BudgetInv(w) /\ SharedInv
    BY BudgetInit DEF Init, SharedInv, AtWork
<1>2. TypeOK /\ BudgetInv(w) /\ Crowd(w)' /\ [Next]_vars => BudgetInv(w)'
    BY <1>0, BudgetStep
<1>3. TypeOK /\ BudgetInv(w) /\ Sequential /\ Sequential' /\ SharedInv /\ [Next]_vars
          => SharedInv'
    BY SharedStep
<1>4. TypeOK /\ BudgetInv(w) /\ SharedInv => noted <= Limit + w - 1
    <2> SUFFICES ASSUME TypeOK, BudgetInv(w), SharedInv PROVE noted <= Bound(w)
        BY <1>0
    <2>1. ASSUME NEW c \in Client, AtWork(c) PROVE noted <= Bound(w)
        <3>1. made[c] = noted /\ made[c] \in Nat
            BY <2>1 DEF SharedInv, TypeOK
        <3>2. made[c] + Cardinality(Pending(c)) <= Bound(w)
            BY DEF BudgetInv
        <3> QED
            BY <3>1, <3>2, PendingSize, BoundIsNat
    <2>2. CASE \A c \in Client : ~AtWork(c)
        BY <2>2 DEF SharedInv, BudgetInv
    <2> QED
        BY <2>1, <2>2
<1> QED
    BY <1>1, <1>2, <1>3, <1>4, TypeCorrect, PTL DEF Spec
=============================================================================
