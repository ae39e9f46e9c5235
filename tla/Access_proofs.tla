---------------------------- MODULE Access_proofs ----------------------------
(* However long the caches live and however requests, status changes,       *)
(* restarts and time interleave, no request is granted on a standing that   *)
(* ended longer ago than the two lifetimes and two resolutions.             *)
EXTENDS Access, TLAPS

(* The users above a user are users, and all of them are cached. *)
LEMMA ChainTypes ==
    \A u \in User : /\ Chain[u] \in Seq(User)
                    /\ Len(Chain[u]) \in Nat
                    /\ \A i \in 1 .. Len(Chain[u]) : Chain[u][i] \in Parents
                    /\ Above(u) = {Chain[u][i] : i \in 1 .. Len(Chain[u])}
<1>1. \A u \in User : Chain[u] \in Seq(User)
  BY AccessAssumption
<1>2. \A u \in User : Len(Chain[u]) \in Nat /\ DOMAIN Chain[u] = 1 .. Len(Chain[u])
  BY <1>1
<1> QED
  BY <1>1, <1>2 DEF Parents, Above

LEMMA ParentsAreUsers == Parents \subseteq User
<1> SUFFICES ASSUME NEW w \in Parents PROVE w \in User
  OBVIOUS
<1>1. PICK u \in User : w \in Above(u)
  BY DEF Parents
<1>2. PICK i \in DOMAIN Chain[u] : w = Chain[u][i]
  BY <1>1 DEF Above
<1>3. Chain[u] \in Seq(User)
  BY AccessAssumption
<1> QED
  BY <1>2, <1>3

LEMMA NeededAreUsers == \A u \in Client : u \in User /\ \A w \in Needed(u) : w \in User
<1> SUFFICES ASSUME NEW u \in Client PROVE u \in User /\ \A w \in Needed(u) : w \in User
  OBVIOUS
<1>1. u \in User
  BY AccessAssumption
<1>2. ASSUME NEW w \in Above(u) PROVE w \in User
  <2>1. PICK i \in 1 .. Len(Chain[u]) : w = Chain[u][i]
    BY <1>1, <1>2, ChainTypes
  <2> QED
    BY <1>1, <2>1, ChainTypes, ParentsAreUsers
<1> QED
  BY <1>1, <1>2 DEF Needed

LEMMA InitInvariant == Init => IInv
<1> SUFFICES ASSUME Init PROVE IInv
  OBVIOUS
<1> USE AccessAssumption DEF Init
<1>1. TypeOK
  BY DEF TypeOK, Status, Kind, Idle, Fresh, Quiet, Unknown, RequestState, AdminState
<1>2. Resolving
  BY DEF Resolving, Idle, Fresh, Running, Checking
<1>3. VouchedByEntry /\ VouchedByQuery /\ VouchedByRequest /\ VouchedByAuth
  BY DEF VouchedByEntry, VouchedByQuery, VouchedByRequest, VouchedByAuth, Unknown, Idle, Fresh, Checking
<1>4. BoundedStaleness /\ ActiveIsUp
  BY DEF BoundedStaleness, ActiveIsUp, Idle, Fresh
<1> QED
  BY <1>1, <1>2, <1>3, <1>4 DEF IInv
(* What a request knows when its first n - 1 checks have passed. *)
Passed(r, n) ==
    /\ Running(r)
    /\ n \in 1 .. Len(Chain[req[r].user]) + 1
    /\ down[req[r].user] <= req[r].age
    /\ \A i \in 1 .. n - 1 :
           down[Chain[req[r].user][i]] <= LineageTTL - 1 + MaxRun + req[r].age

LEMMA Facts ==
    ASSUME IInv
    PROVE  /\ Horizon \in Nat /\ MaxRun \in Nat
           /\ LineageTTL \in Nat \ {0} /\ AuthTTL \in Nat \ {0}
           /\ down \in [User -> 0 .. Horizon]
           /\ \A w \in User : down[w] \in Nat
           /\ \A r \in Request : /\ req[r] \in RequestState
                                 /\ req[r].age \in Nat /\ req[r].age <= MaxRun
                                 /\ Running(r) => /\ req[r].user \in Client
                                                  /\ req[r].user \in User
                                                  /\ req[r].proc \in Proc
                                                  /\ Len(Chain[req[r].user]) \in Nat
                                 /\ Checking(r) => /\ Running(r)
                                                   /\ Asked(r) \in Parents
                                                   /\ Asked(r) \in User
  BY AccessAssumption, ChainTypes, ParentsAreUsers
     DEF IInv, TypeOK, Resolving, Checking, Running, RequestState, Asked

(* Once all checks have passed, everyone the user needs is within a bound. *)
LEMMA AllPassed ==
    ASSUME IInv, NEW r \in Request, Passed(r, Len(Chain[req[r].user]) + 1)
    PROVE  \A w \in Needed(req[r].user) :
               w \in User /\ down[w] <= LineageTTL - 1 + 2 * MaxRun
<1> DEFINE u == req[r].user
           n == Len(Chain[u])
<1>1. /\ u \in User /\ n \in Nat /\ down[u] <= req[r].age
      /\ \A i \in 1 .. n : down[Chain[u][i]] <= LineageTTL - 1 + MaxRun + req[r].age
  BY SMTT(30), Facts DEF Passed
<1> SUFFICES ASSUME NEW w \in Needed(u)
             PROVE  w \in User /\ down[w] <= LineageTTL - 1 + 2 * MaxRun
  OBVIOUS
<1>2. CASE w = u
  BY SMTT(30), <1>1, <1>2, Facts
<1>3. CASE w # u
  <2>1. PICK i \in 1 .. n : w = Chain[u][i]
    BY <1>1, <1>3, ChainTypes DEF Needed
  <2>2. w \in User
    BY <1>1, <2>1, ChainTypes, ParentsAreUsers
  <2>3. down[w] <= LineageTTL - 1 + MaxRun + req[r].age
    BY <1>1, <2>1
  <2> QED
    BY <2>2, <2>3, Facts
<1> QED
  BY <1>2, <1>3

(* The part of the invariant that an answer to a check can disturb. *)
AnswerPart == /\ req \in [Request -> RequestState]
              /\ auth \in [Proc -> [Client -> 0 .. AuthTTL]]
              /\ Resolving /\ VouchedByQuery /\ VouchedByRequest /\ VouchedByAuth
              /\ BoundedStaleness

LEMMA RefusalKeeps ==
    ASSUME IInv, NEW r \in Request, Running(r), Reply(r, "refused"),
           auth' = auth, down' = down
    PROVE  AnswerPart'
<1>1. req' = [req EXCEPT ![r] = Fresh("refused", req[r].user, None)]
  BY DEF Reply
<1>2. /\ req \in [Request -> RequestState] /\ req[r].user \in Client
      /\ auth \in [Proc -> [Client -> 0 .. AuthTTL]]
  BY Facts DEF IInv, TypeOK
<1>3. /\ req'[r] = [pc |-> "refused", user |-> req[r].user, proc |-> None,
                    at |-> 0, seen |-> FALSE, age |-> 0]
      /\ \A q \in Request \ {r} : req'[q] = req[q]
  BY <1>1, <1>2 DEF Fresh
<1>4. req' \in [Request -> RequestState]
  <2>1. req'[r] \in RequestState
    BY <1>2, <1>3, AccessAssumption DEF RequestState
  <2> QED
    BY <1>1, <1>2, <2>1
<1>5. Resolving'
  BY SMTT(30), <1>2, <1>3, Facts DEF IInv, Resolving, Running, Checking
<1>6. VouchedByQuery' /\ VouchedByRequest' /\ BoundedStaleness'
  BY <1>3 DEF IInv, VouchedByQuery, VouchedByRequest, BoundedStaleness, Checking, Asked
<1>7. VouchedByAuth'
  BY DEF IInv, VouchedByAuth
<1> QED
  BY <1>2, <1>4, <1>5, <1>6, <1>7 DEF AnswerPart

LEMMA ProceedKeeps ==
    ASSUME IInv, NEW r \in Request, NEW n, Passed(r, n), Proceed(r, n), down' = down
    PROVE  AnswerPart'
<1> DEFINE u == req[r].user
<1>1. /\ req \in [Request -> RequestState] /\ u \in Client /\ u \in User
      /\ auth \in [Proc -> [Client -> 0 .. AuthTTL]] /\ req[r].proc \in Proc
      /\ n \in 1 .. Len(Chain[u]) + 1 /\ Len(Chain[u]) \in Nat /\ n \in Nat
  BY Facts DEF IInv, TypeOK, Passed
<1>2. CASE n > Len(Chain[u])
  <2>1. /\ req' = [req EXCEPT ![r] = Fresh("granted", u, None)]
        /\ auth' = [auth EXCEPT ![req[r].proc][u] = AuthTTL]
        /\ n = Len(Chain[u]) + 1
    BY <1>1, <1>2 DEF Proceed, GrantAndCache, Reply
  <2>2. \A w \in Needed(u) : w \in User /\ down[w] <= LineageTTL - 1 + 2 * MaxRun
    BY <2>1, AllPassed
  <2>3. /\ req'[r] = [pc |-> "granted", user |-> u, proc |-> None,
                      at |-> 0, seen |-> FALSE, age |-> 0]
        /\ \A q \in Request \ {r} : req'[q] = req[q]
    BY <1>1, <2>1 DEF Fresh
  <2>4. req' \in [Request -> RequestState]
    <3>1. req'[r] \in RequestState
      BY <1>1, <2>3 DEF RequestState
    <3> QED
      BY <1>1, <2>1, <3>1
  <2>5. auth' \in [Proc -> [Client -> 0 .. AuthTTL]]
    BY <1>1, <2>1, AccessAssumption
  <2>6. Resolving'
    BY SMTT(30), <1>1, <2>3, Facts DEF IInv, Resolving, Running, Checking
  <2>7. VouchedByQuery' /\ VouchedByRequest'
    BY <2>3 DEF IInv, VouchedByQuery, VouchedByRequest, Checking, Asked
  <2>8. VouchedByAuth'
    <3> SUFFICES ASSUME NEW p \in Proc, NEW v \in Client, auth'[p][v] > 0, NEW w \in Needed(v)
                 PROVE  down[w] + auth'[p][v] <= AuthTTL + LineageTTL - 1 + 2 * MaxRun
      BY DEF VouchedByAuth
    <3>1. CASE p = req[r].proc /\ v = u
      BY <1>1, <2>1, <2>2, <3>1, Facts
    <3>2. CASE ~(p = req[r].proc /\ v = u)
      BY <1>1, <2>1, <3>2 DEF IInv, VouchedByAuth
    <3> QED
      BY <3>1, <3>2
  <2>9. BoundedStaleness'
    <3> SUFFICES ASSUME NEW q \in Request, req'[q].pc = "granted", NEW w \in Needed(req'[q].user)
                 PROVE  down[w] <= (AuthTTL - 1) + (LineageTTL - 1) + 2 * MaxRun
      BY DEF BoundedStaleness
    <3>1. CASE q = r
      BY <2>2, <2>3, <3>1, Facts
    <3>2. CASE q # r
      BY <2>3, <3>2 DEF IInv, BoundedStaleness
    <3> QED
      BY <3>1, <3>2
  <2> QED
    BY <2>4, <2>5, <2>6, <2>7, <2>8, <2>9 DEF AnswerPart
<1>3. CASE ~(n > Len(Chain[u]))
  <2>1. /\ req' = [req EXCEPT ![r].pc = "check", ![r].at = n, ![r].seen = FALSE]
        /\ auth' = auth
    BY <1>3 DEF Proceed
  <2>2. /\ req'[r].pc = "check" /\ req'[r].at = n /\ req'[r].user = u
        /\ req'[r].age = req[r].age /\ req'[r].proc = req[r].proc
        /\ req'[r] \in RequestState
        /\ \A q \in Request \ {r} : req'[q] = req[q]
    BY <1>1, <2>1 DEF RequestState
  <2>3. req' \in [Request -> RequestState]
    BY <1>1, <2>1, <2>2
  <2>4. Resolving'
    BY <1>1, <1>3, <2>2 DEF IInv, Resolving, Running, Checking
  <2>5. VouchedByQuery' /\ BoundedStaleness'
    BY <2>2 DEF IInv, VouchedByQuery, BoundedStaleness, Asked
  <2>6. VouchedByRequest'
    BY <2>2 DEF IInv, VouchedByRequest, Passed, Checking
  <2>7. VouchedByAuth'
    BY <2>1 DEF IInv, VouchedByAuth
  <2> QED
    BY <1>1, <2>1, <2>3, <2>4, <2>5, <2>6, <2>7 DEF AnswerPart
<1> QED
  BY <1>2, <1>3

(* A check that passes adds the user it asked about. *)
LEMMA PassedOneMore ==
    ASSUME IInv, NEW r \in Request, Checking(r),
           down[Asked(r)] <= LineageTTL - 1 + MaxRun + req[r].age
    PROVE  Passed(r, req[r].at + 1)
<1>1. /\ req[r].at \in 1 .. Len(Chain[req[r].user]) /\ Running(r)
      /\ Len(Chain[req[r].user]) \in Nat
  BY Facts DEF IInv, Resolving
<1>2. down[req[r].user] <= req[r].age
  BY DEF IInv, VouchedByRequest
<1>3. ASSUME NEW i \in 1 .. req[r].at
      PROVE  down[Chain[req[r].user][i]] <= LineageTTL - 1 + MaxRun + req[r].age
  <2>1. CASE i = req[r].at
    BY <2>1 DEF Asked
  <2>2. CASE i # req[r].at
    <3>1. i \in 1 .. req[r].at - 1
      BY <1>1, <2>2
    <3> QED
      BY <3>1 DEF IInv, VouchedByRequest
  <2> QED
    BY <2>1, <2>2
<1> QED
  BY <1>1, <1>2, <1>3 DEF Passed

(* A request that only moves on within a check keeps what it knows. *)
LEMMA AskKeeps ==
    ASSUME IInv, NEW r \in Request, Checking(r), NEW pc \in {"query", "store"},
           NEW seen \in BOOLEAN, pc = "store" /\ seen => down[Asked(r)] = 0,
           req' = [req EXCEPT ![r].pc = pc, ![r].seen = seen],
           auth' = auth, down' = down
    PROVE  AnswerPart'
<1>1. /\ req \in [Request -> RequestState]
      /\ auth \in [Proc -> [Client -> 0 .. AuthTTL]]
  BY DEF IInv, TypeOK
<1>2. /\ req'[r].pc = pc /\ req'[r].seen = seen /\ req'[r].at = req[r].at
      /\ req'[r].user = req[r].user /\ req'[r].age = req[r].age
      /\ req'[r].proc = req[r].proc /\ req'[r] \in RequestState
      /\ \A q \in Request \ {r} : req'[q] = req[q]
  BY <1>1 DEF RequestState
<1>3. req' \in [Request -> RequestState]
  BY <1>1, <1>2
<1>4. Resolving'
  BY <1>2 DEF IInv, Resolving, Running, Checking
<1>5. VouchedByQuery'
  <2> SUFFICES ASSUME NEW q \in Request, req'[q].pc = "store", req'[q].seen
               PROVE  down[Asked(q)'] <= req'[q].age
    BY DEF VouchedByQuery
  <2>1. CASE q = r
    <3>1. Asked(q)' = Asked(r) /\ req'[q].age \in Nat /\ down[Asked(r)] = 0
      BY <1>2, <2>1, Facts DEF Asked
    <3> QED
      BY <3>1
  <2>2. CASE q # r
    BY <1>2, <2>2 DEF IInv, VouchedByQuery, Asked
  <2> QED
    BY <2>1, <2>2
<1>6. VouchedByRequest' /\ BoundedStaleness'
  BY ZenonT(30), <1>2 DEF IInv, VouchedByRequest, BoundedStaleness, Checking
<1>7. VouchedByAuth'
  BY DEF IInv, VouchedByAuth
<1> QED
  BY <1>1, <1>3, <1>4, <1>5, <1>6, <1>7 DEF AnswerPart

(* A request resolving: what it is told, what it caches. *)
LEMMA ResolveKeeps == ASSUME IInv, NEW r \in Request, Resolve(r) PROVE IInv'
<1>1. CASE ReadUser(r)
  <2>1. AnswerPart'
    <3>1. CASE status[req[r].user] = "active"
      <4>1. Proceed(r, 1) /\ down' = down
        BY <1>1, <3>1 DEF ReadUser
      <4>2. Passed(r, 1)
        BY <1>1, <3>1, Facts DEF ReadUser, Passed, Running, IInv, ActiveIsUp
      <4> QED
        BY <4>1, <4>2, ProceedKeeps
    <3>2. CASE status[req[r].user] # "active"
      BY <1>1, <3>2, RefusalKeeps DEF ReadUser, Running
    <3> QED
      BY <3>1, <3>2
  <2>2. UNCHANGED <<status, down, lineage, admin>>
    BY <1>1 DEF ReadUser
  <2> QED
    BY <2>1, <2>2 DEF IInv, TypeOK, AnswerPart, VouchedByEntry, ActiveIsUp
<1>2. CASE Check(r)
  <2>1. Checking(r) /\ Running(r) /\ UNCHANGED <<status, down, lineage, admin>>
    BY <1>2 DEF Check, Checking, Running
  <2>2. AnswerPart'
    <3>1. CASE lineage[req[r].proc][Asked(r)].life > 0
      <4>1. CASE lineage[req[r].proc][Asked(r)].ok
        <5>1. Proceed(r, req[r].at + 1)
          BY <1>2, <3>1, <4>1 DEF Check, AnswerCheck
        <5>2. down[Asked(r)] <= LineageTTL - 1 + MaxRun + req[r].age
          <6> DEFINE e == lineage[req[r].proc][Asked(r)]
          <6>1. down[Asked(r)] + e.life <= LineageTTL + MaxRun
            BY <2>1, <3>1, <4>1, Facts DEF IInv, VouchedByEntry
          <6>2. e.life \in Nat
            BY <2>1, Facts DEF IInv, TypeOK
          <6> QED
            BY SMTT(30), <2>1, <3>1, <6>1, <6>2, Facts
        <5>3. Passed(r, req[r].at + 1)
          BY <2>1, <5>2, PassedOneMore
        <5> QED
          BY <2>1, <5>1, <5>3, ProceedKeeps
      <4>2. CASE ~lineage[req[r].proc][Asked(r)].ok
        BY <1>2, <2>1, <3>1, <4>2, RefusalKeeps DEF Check, AnswerCheck
      <4> QED
        BY <4>1, <4>2
    <3>2. CASE ~(lineage[req[r].proc][Asked(r)].life > 0)
      <4>1. Ask(r) /\ auth' = auth
        BY <1>2, <3>2 DEF Check
      <4> QED
        BY <2>1, <4>1, AskKeeps DEF Ask
    <3> QED
      BY <3>1, <3>2
  <2> QED
    BY <2>1, <2>2 DEF IInv, TypeOK, AnswerPart, VouchedByEntry, ActiveIsUp
<1>3. CASE Query(r)
  <2>1. /\ Checking(r) /\ UNCHANGED <<status, down, auth, lineage, admin>>
        /\ req' = [req EXCEPT ![r].pc = "store", ![r].seen = status[Asked(r)] = "active"]
    BY <1>3 DEF Query, Checking
  <2>2. (status[Asked(r)] = "active") => down[Asked(r)] = 0
    BY <2>1, Facts DEF IInv, ActiveIsUp
  <2>3. AnswerPart'
    BY <2>1, <2>2, AskKeeps
  <2> QED
    BY <2>1, <2>3 DEF IInv, TypeOK, AnswerPart, VouchedByEntry, ActiveIsUp
<1>4. CASE Store(r)
  <2>1. Checking(r) /\ Running(r) /\ UNCHANGED <<status, down, admin>>
    BY <1>4 DEF Store, Checking, Running
  <2>2. AnswerPart'
    <3>1. CASE req[r].seen
      <4>1. Proceed(r, req[r].at + 1)
        BY <1>4, <3>1 DEF Store, AnswerCheck
      <4>2. down[Asked(r)] <= LineageTTL - 1 + MaxRun + req[r].age
        <5>1. down[Asked(r)] <= req[r].age
          BY <1>4, <3>1 DEF Store, IInv, VouchedByQuery
        <5> QED
          BY <2>1, <5>1, Facts
      <4>3. Passed(r, req[r].at + 1)
        BY <2>1, <4>2, PassedOneMore
      <4> QED
        BY <2>1, <4>1, <4>3, ProceedKeeps
    <3>2. CASE ~req[r].seen
      BY <1>4, <2>1, <3>2, RefusalKeeps DEF Store, AnswerCheck
    <3> QED
      BY <3>1, <3>2
  <2>3. /\ lineage \in [Proc -> [Parents -> [life : 0 .. LineageTTL, ok : BOOLEAN]]]
        /\ lineage' = [lineage EXCEPT ![req[r].proc][Asked(r)] =
                           [life |-> LineageTTL, ok |-> req[r].seen]]
        /\ req[r].proc \in Proc /\ Asked(r) \in Parents /\ req[r].seen \in BOOLEAN
    BY <1>4, <2>1, Facts DEF IInv, TypeOK, Store, RequestState
  <2>4. lineage' \in [Proc -> [Parents -> [life : 0 .. LineageTTL, ok : BOOLEAN]]]
    BY <2>3, AccessAssumption
  <2>5. VouchedByEntry'
    <3> SUFFICES ASSUME NEW p \in Proc, NEW w \in Parents,
                        lineage'[p][w].life > 0, lineage'[p][w].ok
                 PROVE  down[w] + lineage'[p][w].life <= LineageTTL + MaxRun
      BY <2>1 DEF VouchedByEntry
    <3>1. CASE p = req[r].proc /\ w = Asked(r)
      <4>1. lineage'[p][w] = [life |-> LineageTTL, ok |-> req[r].seen]
        BY <2>3, <3>1
      <4>2. down[w] <= req[r].age
        BY <1>4, <3>1, <4>1 DEF Store, IInv, VouchedByQuery
      <4> QED
        BY <2>1, <3>1, <4>1, <4>2, Facts
    <3>2. CASE ~(p = req[r].proc /\ w = Asked(r))
      BY <2>3, <3>2 DEF IInv, VouchedByEntry
    <3> QED
      BY <3>1, <3>2
  <2> QED
    BY <2>1, <2>2, <2>4, <2>5 DEF IInv, TypeOK, AnswerPart, ActiveIsUp
<1> QED
  BY <1>1, <1>2, <1>3, <1>4 DEF Resolve

(* A request arriving, its reply delivered. *)
LEMMA StartKeeps ==
    ASSUME IInv, NEW r \in Request, NEW p \in Proc, NEW u \in Client, Start(r, p, u)
    PROVE  IInv'
<1>1. /\ UNCHANGED <<status, down, auth, lineage, admin>>
      /\ req \in [Request -> RequestState]
      /\ u \in User
  BY AccessAssumption DEF Start, IInv, TypeOK
<1>2. PICK pc \in {"granted", "user"}, q \in Proc \cup {None} :
          /\ req' = [req EXCEPT ![r] = Fresh(pc, u, q)]
          /\ pc = "granted" => auth[p][u] > 0
          /\ pc = "user" => q = p
  BY DEF Start, CacheHit
<1>3. /\ req'[r] = [pc |-> pc, user |-> u, proc |-> q, at |-> 0, seen |-> FALSE, age |-> 0]
      /\ \A s \in Request \ {r} : req'[s] = req[s]
  BY <1>1, <1>2 DEF Fresh
<1>4. req' \in [Request -> RequestState]
  <2>1. req'[r] \in RequestState
    BY <1>1, <1>3 DEF RequestState
  <2> QED
    BY <1>1, <1>2, <2>1
<1>5. Resolving'
  BY <1>2, <1>3, Facts DEF IInv, Resolving, Running, Checking
<1>6. VouchedByQuery' /\ VouchedByRequest'
  BY <1>1, <1>3 DEF IInv, VouchedByQuery, VouchedByRequest, Checking, Asked
<1>7. BoundedStaleness'
  <2> SUFFICES ASSUME NEW s \in Request, req'[s].pc = "granted", NEW w \in Needed(req'[s].user)
               PROVE  down[w] <= (AuthTTL - 1) + (LineageTTL - 1) + 2 * MaxRun
    BY <1>1 DEF BoundedStaleness
  <2>1. CASE s = r
    <3>1. auth[p][u] \in Nat /\ auth[p][u] > 0 /\ w \in Needed(u)
      BY <1>2, <1>3, <2>1, Facts DEF IInv, TypeOK
    <3>2. down[w] + auth[p][u] <= AuthTTL + LineageTTL - 1 + 2 * MaxRun
      BY <3>1 DEF IInv, VouchedByAuth
    <3>3. w \in User
      BY <3>1, NeededAreUsers
    <3> QED
      BY SMTT(30), <3>1, <3>2, <3>3, Facts
  <2>2. CASE s # r
    BY <1>3, <2>2 DEF IInv, BoundedStaleness
  <2> QED
    BY <2>1, <2>2
<1> QED
  BY <1>1, <1>4, <1>5, <1>6, <1>7
     DEF IInv, TypeOK, VouchedByEntry, VouchedByAuth, ActiveIsUp

LEMMA FinishKeeps == ASSUME IInv, NEW r \in Request, Finish(r) PROVE IInv'
<1>1. /\ UNCHANGED <<status, down, auth, lineage, admin>>
      /\ req \in [Request -> RequestState]
      /\ req' = [req EXCEPT ![r] = Idle]
  BY DEF Finish, IInv, TypeOK
<1>2. /\ req'[r] = [pc |-> "idle", user |-> None, proc |-> None,
                    at |-> 0, seen |-> FALSE, age |-> 0]
      /\ \A s \in Request \ {r} : req'[s] = req[s]
  BY <1>1 DEF Idle, Fresh
<1>3. req' \in [Request -> RequestState]
  <2>1. req'[r] \in RequestState
    BY <1>2 DEF RequestState
  <2> QED
    BY <1>1, <2>1
<1>4. Resolving'
  BY <1>2, Facts DEF IInv, Resolving, Running, Checking
<1>5. VouchedByQuery' /\ VouchedByRequest' /\ BoundedStaleness'
  BY <1>1, <1>2 DEF IInv, VouchedByQuery, VouchedByRequest, BoundedStaleness, Checking, Asked
<1> QED
  BY <1>1, <1>3, <1>4, <1>5 DEF IInv, TypeOK, VouchedByEntry, VouchedByAuth, ActiveIsUp

(* Bringing users up can only help. *)
LEMMA LowerKeeps ==
    ASSUME IInv, UNCHANGED <<auth, lineage, req>>, TypeOK', ActiveIsUp',
           \A w \in User : down'[w] <= down[w]
    PROVE  IInv'
<1>1. /\ down \in [User -> 0 .. Horizon] /\ down' \in [User -> 0 .. Horizon]
      /\ \A w \in User : down[w] \in Nat /\ down'[w] \in Nat
  BY Facts DEF IInv, TypeOK
<1>2. \A u \in Client : u \in User /\ \A w \in Needed(u) : w \in User
  BY NeededAreUsers
<1>3. Resolving'
  BY DEF IInv, Resolving, Running, Checking
<1>4. VouchedByEntry'
  <2> SUFFICES ASSUME NEW p \in Proc, NEW w \in Parents, lineage[p][w].life > 0, lineage[p][w].ok
               PROVE  down'[w] + lineage[p][w].life <= LineageTTL + MaxRun
    BY DEF VouchedByEntry
  <2>1. down[w] + lineage[p][w].life <= LineageTTL + MaxRun /\ w \in User
    BY ParentsAreUsers DEF IInv, VouchedByEntry
  <2>2. lineage[p][w].life \in Nat
    BY Facts DEF IInv, TypeOK
  <2> QED
    BY SMTT(30), <1>1, <2>1, <2>2, Facts
<1>5. VouchedByQuery'
  <2> SUFFICES ASSUME NEW r \in Request, req[r].pc = "store", req[r].seen
               PROVE  down'[Asked(r)] <= req[r].age
    BY DEF VouchedByQuery, Asked
  <2>1. Asked(r) \in User /\ down[Asked(r)] <= req[r].age /\ req[r].age \in Nat
    BY Facts DEF IInv, VouchedByQuery, Checking
  <2> QED
    BY <1>1, <2>1
<1>6. VouchedByRequest'
  <2> SUFFICES ASSUME NEW r \in Request, Checking(r)
               PROVE  /\ down'[req[r].user] <= req[r].age
                      /\ \A i \in 1 .. req[r].at - 1 :
                             down'[Chain[req[r].user][i]] <= LineageTTL - 1 + MaxRun + req[r].age
    BY DEF VouchedByRequest, Checking
  <2>1. /\ down[req[r].user] <= req[r].age /\ req[r].age \in Nat /\ req[r].user \in User
        /\ req[r].at \in 1 .. Len(Chain[req[r].user]) /\ Len(Chain[req[r].user]) \in Nat
    BY Facts DEF IInv, VouchedByRequest, Resolving
  <2>2. ASSUME NEW i \in 1 .. req[r].at - 1
        PROVE  down'[Chain[req[r].user][i]] <= LineageTTL - 1 + MaxRun + req[r].age
    <3>1. PICK w : w = Chain[req[r].user][i]
      OBVIOUS
    <3>2. w \in User
      BY <2>1, <3>1, ChainTypes, ParentsAreUsers
    <3>3. down[w] <= LineageTTL - 1 + MaxRun + req[r].age
      BY <3>1 DEF IInv, VouchedByRequest
    <3>4. down'[w] <= LineageTTL - 1 + MaxRun + req[r].age
      BY SMTT(30), <1>1, <2>1, <3>2, <3>3, Facts
    <3> QED
      BY <3>1, <3>4
  <2> QED
    BY <1>1, <2>1, <2>2
<1>7. VouchedByAuth'
  <2> SUFFICES ASSUME NEW p \in Proc, NEW u \in Client, auth[p][u] > 0, NEW w \in Needed(u)
               PROVE  down'[w] + auth[p][u] <= AuthTTL + LineageTTL - 1 + 2 * MaxRun
    BY DEF VouchedByAuth
  <2>1. down[w] + auth[p][u] <= AuthTTL + LineageTTL - 1 + 2 * MaxRun /\ auth[p][u] \in Nat
    BY Facts DEF IInv, VouchedByAuth, TypeOK
  <2> QED
    BY <1>1, <1>2, <2>1, Facts
<1>8. BoundedStaleness'
  <2> SUFFICES ASSUME NEW r \in Request, req[r].pc = "granted", NEW w \in Needed(req[r].user)
               PROVE  down'[w] <= (AuthTTL - 1) + (LineageTTL - 1) + 2 * MaxRun
    BY DEF BoundedStaleness
  <2>1. req[r].user \in Client
    BY DEF IInv, Resolving
  <2>2. down[w] <= (AuthTTL - 1) + (LineageTTL - 1) + 2 * MaxRun
    BY DEF IInv, BoundedStaleness
  <2> QED
    BY <1>1, <1>2, <2>1, <2>2, Facts
<1> QED
  BY <1>3, <1>4, <1>5, <1>6, <1>7, <1>8 DEF IInv

(* The handlers: a status moves, its user may come up, caches only shrink. *)
LEMMA AdminKeeps ==
    ASSUME IInv, NEW h \in Admin,
           \/ \E p \in Proc, u \in Changing, k \in Kind : Open(h, p, u, k)
           \/ WriteStatus(h)
           \/ Evict(h)
    PROVE  IInv'
<1> USE DEF Kind, Status, AdminState
<1>1. admin \in [Admin -> AdminState] /\ req' = req
  BY DEF IInv, TypeOK, Open, WriteStatus, Evict
<1>2. ASSUME NEW p \in Proc, NEW u \in Changing, NEW k \in Kind, Open(h, p, u, k)
      PROVE  IInv'
  <2>1. /\ UNCHANGED <<status, down, auth, lineage, req>>
        /\ admin' \in [Admin -> AdminState]
    <3>1. [pc |-> "write", user |-> u, proc |-> p, kind |-> k,
           changed |-> k \in {"suspend", "activate"} => status[u] # NewStatus(k)] \in AdminState
      BY AccessAssumption
    <3> QED
      BY <1>1, <1>2, <3>1 DEF Open
  <2> QED
    BY <2>1 DEF IInv, TypeOK, Resolving, VouchedByEntry, VouchedByQuery, VouchedByRequest,
               VouchedByAuth, BoundedStaleness, ActiveIsUp, Checking, Running, Asked
<1>3. CASE WriteStatus(h)
  <2> DEFINE u == admin[h].user
             new == IF status[u] = "deleted" THEN "deleted" ELSE NewStatus(admin[h].kind)
  <2>1. /\ UNCHANGED <<auth, lineage, req>>
        /\ status' = [status EXCEPT ![u] = new]
        /\ down' = [down EXCEPT ![u] = IF new = "active" THEN 0 ELSE @]
        /\ admin' = [admin EXCEPT ![h].pc = "evict"]
    BY <1>3 DEF WriteStatus
  <2>2. /\ status' \in [User -> Status] /\ down' \in [User -> 0 .. Horizon]
        /\ admin' \in [Admin -> AdminState]
        /\ \A w \in User : down'[w] <= down[w]
        /\ ActiveIsUp'
    <3>1. new \in Status
      BY DEF NewStatus
    <3>2. status \in [User -> Status] /\ ActiveIsUp
      BY DEF IInv, TypeOK
    <3>3. status' \in [User -> Status] /\ down' \in [User -> 0 .. Horizon]
      <4> HIDE DEF new
      <4>1. status' \in [User -> Status]
        BY <2>1, <3>1, <3>2
      <4>2. down' \in [User -> 0 .. Horizon]
        <5>1. down \in [User -> 0 .. Horizon] /\ Horizon \in Nat
          BY Facts
        <5>2. \A x \in User : (IF new = "active" THEN 0 ELSE down[x]) \in 0 .. Horizon
          BY <5>1
        <5> QED
          BY <2>1, <5>1, <5>2
      <4> QED
        BY <4>1, <4>2
    <3>4. admin' \in [Admin -> AdminState]
      BY <1>1, <2>1
    <3>5. \A w \in User : down'[w] <= down[w]
      BY <2>1, Facts
    <3>6. ActiveIsUp'
      BY <2>1, <3>2, Facts DEF ActiveIsUp
    <3> QED
      BY <3>3, <3>4, <3>5, <3>6
  <2> QED
    BY <2>1, <2>2, LowerKeeps DEF IInv, TypeOK
<1>4. CASE Evict(h)
  <2>1. UNCHANGED <<status, down, req>>
    BY <1>4 DEF Evict
  <2>2. /\ admin' \in [Admin -> AdminState]
        /\ auth' \in [Proc -> [Client -> 0 .. AuthTTL]]
        /\ \A p \in Proc, v \in Client : auth'[p][v] > 0 => auth'[p][v] = auth[p][v]
        /\ lineage' \in [Proc -> [Parents -> [life : 0 .. LineageTTL, ok : BOOLEAN]]]
        /\ \A p \in Proc, w \in Parents :
               lineage'[p][w].life > 0 => lineage'[p][w] = lineage[p][w]
    <3>1. /\ auth \in [Proc -> [Client -> 0 .. AuthTTL]] /\ AuthTTL \in Nat
          /\ lineage \in [Proc -> [Parents -> [life : 0 .. LineageTTL, ok : BOOLEAN]]]
          /\ LineageTTL \in Nat
      BY Facts DEF IInv, TypeOK
    <3>2. admin' \in [Admin -> AdminState]
      <4>1. Quiet \in AdminState
        BY DEF Quiet
      <4> QED
        BY <1>1, <1>4, <4>1 DEF Evict
    <3>3. /\ auth' \in [Proc -> [Client -> 0 .. AuthTTL]]
          /\ \A p \in Proc, v \in Client : auth'[p][v] > 0 => auth'[p][v] = auth[p][v]
      <4>1. \/ auth' = [auth EXCEPT ![admin[h].proc][admin[h].user] = 0]
            \/ auth' = auth
        BY <1>4 DEF Evict
      <4>2. CASE auth' = auth
        BY <3>1, <4>2
      <4>3. CASE auth' = [auth EXCEPT ![admin[h].proc][admin[h].user] = 0]
        <5> SUFFICES ASSUME NEW p \in Proc
                     PROVE  /\ auth'[p] \in [Client -> 0 .. AuthTTL]
                            /\ \A v \in Client : auth'[p][v] > 0 => auth'[p][v] = auth[p][v]
          BY <3>1, <4>3
        <5>1. CASE p = admin[h].proc
          <6>1. auth'[p] = [auth[p] EXCEPT ![admin[h].user] = 0]
            BY <3>1, <4>3, <5>1
          <6>2. auth[p] \in [Client -> 0 .. AuthTTL] /\ 0 \in 0 .. AuthTTL
            BY <3>1
          <6>3. auth'[p] \in [Client -> 0 .. AuthTTL]
            BY <6>1, <6>2
          <6>4. \A v \in Client : auth'[p][v] = IF v = admin[h].user THEN 0 ELSE auth[p][v]
            BY <6>1, <6>2
          <6>5. \A v \in Client : auth'[p][v] > 0 => auth'[p][v] = auth[p][v]
            BY <6>4
          <6> QED
            BY <6>3, <6>5
        <5>2. CASE p # admin[h].proc
          BY <3>1, <4>3, <5>2
        <5> QED
          BY <5>1, <5>2
      <4> QED
        BY <4>1, <4>2, <4>3
    <3>4. /\ lineage' \in [Proc -> [Parents -> [life : 0 .. LineageTTL, ok : BOOLEAN]]]
          /\ \A p \in Proc, w \in Parents :
                 lineage'[p][w].life > 0 => lineage'[p][w] = lineage[p][w]
      <4>1. \/ lineage' = [lineage EXCEPT ![admin[h].proc] =
                               [w \in Parents |-> [life |-> 0, ok |-> FALSE]]]
            \/ lineage' = lineage
        BY <1>4 DEF Evict, Unknown
      <4>2. CASE lineage' = lineage
        BY <3>1, <4>2
      <4>3. CASE lineage' = [lineage EXCEPT ![admin[h].proc] =
                                [w \in Parents |-> [life |-> 0, ok |-> FALSE]]]
        <5> SUFFICES ASSUME NEW p \in Proc
                     PROVE  /\ lineage'[p] \in [Parents -> [life : 0 .. LineageTTL, ok : BOOLEAN]]
                            /\ \A w \in Parents :
                                   lineage'[p][w].life > 0 => lineage'[p][w] = lineage[p][w]
          BY <3>1, <4>3
        <5>1. CASE p = admin[h].proc
          BY <3>1, <4>3, <5>1
        <5>2. CASE p # admin[h].proc
          BY <3>1, <4>3, <5>2
        <5> QED
          BY <5>1, <5>2
      <4> QED
        BY <4>1, <4>2, <4>3
    <3> QED
      BY <3>2, <3>3, <3>4
  <2> QED
    BY <2>1, <2>2 DEF IInv, TypeOK, Resolving, VouchedByEntry, VouchedByQuery, VouchedByRequest,
               VouchedByAuth, BoundedStaleness, ActiveIsUp, Checking, Running, Asked
<1> QED
  BY <1>2, <1>3, <1>4

LEMMA RestartKeeps == ASSUME IInv, NEW p \in Proc, Restart(p) PROVE IInv'
<1>1. /\ UNCHANGED <<status, down>>
      /\ req \in [Request -> RequestState] /\ admin \in [Admin -> AdminState]
      /\ auth \in [Proc -> [Client -> 0 .. AuthTTL]] /\ AuthTTL \in Nat
      /\ lineage \in [Proc -> [Parents -> [life : 0 .. LineageTTL, ok : BOOLEAN]]]
      /\ LineageTTL \in Nat
  BY Facts DEF Restart, IInv, TypeOK
<1>2. /\ \A r \in Request : \/ req'[r] = req[r]
                            \/ req'[r] = [pc |-> "idle", user |-> None, proc |-> None,
                                          at |-> 0, seen |-> FALSE, age |-> 0]
      /\ req' \in [Request -> RequestState]
  <2>1. Idle = [pc |-> "idle", user |-> None, proc |-> None, at |-> 0, seen |-> FALSE, age |-> 0]
    BY DEF Idle, Fresh
  <2>2. Idle \in RequestState
    BY <2>1 DEF RequestState
  <2> QED
    BY <1>1, <2>1, <2>2 DEF Restart
<1>3. admin' \in [Admin -> AdminState]
  <2>1. Quiet \in AdminState
    BY DEF Quiet, AdminState, Kind
  <2> QED
    BY <1>1, <2>1 DEF Restart
<1>4. /\ auth' \in [Proc -> [Client -> 0 .. AuthTTL]]
      /\ \A q \in Proc, v \in Client : auth'[q][v] > 0 => auth'[q][v] = auth[q][v]
  BY <1>1 DEF Restart
<1>5. /\ lineage' \in [Proc -> [Parents -> [life : 0 .. LineageTTL, ok : BOOLEAN]]]
      /\ \A q \in Proc, w \in Parents :
             lineage'[q][w].life > 0 => lineage'[q][w] = lineage[q][w]
  BY <1>1 DEF Restart, Unknown
<1>6. TypeOK' /\ ActiveIsUp'
  BY <1>1, <1>2, <1>3, <1>4, <1>5 DEF IInv, TypeOK, ActiveIsUp
<1>7. Resolving'
  BY <1>2, Facts DEF IInv, Resolving, Running, Checking
<1>8. /\ VouchedByQuery'
      /\ VouchedByRequest'
      /\ BoundedStaleness'
  <2>1. \A r \in Request : req'[r].pc # "idle" => req'[r] = req[r]
    BY <1>2
  <2>2. VouchedByQuery'
    BY <1>1, <2>1 DEF IInv, VouchedByQuery, Asked
  <2>3. VouchedByRequest'
    BY <1>1, <2>1 DEF IInv, VouchedByRequest, Checking
  <2>4. BoundedStaleness'
    BY <1>1, <2>1 DEF IInv, BoundedStaleness
  <2> QED
    BY <2>2, <2>3, <2>4
<1>9. VouchedByEntry' /\ VouchedByAuth'
  BY <1>1, <1>4, <1>5 DEF IInv, VouchedByEntry, VouchedByAuth
<1> QED
  BY <1>6, <1>7, <1>8, <1>9 DEF IInv

(* A tick costs every entry what it adds to an absence. *)
LEMMA TickKeeps == ASSUME IInv, Tick PROVE IInv'
<1>1. /\ UNCHANGED <<status, admin>>
      /\ req \in [Request -> RequestState]
      /\ auth \in [Proc -> [Client -> 0 .. AuthTTL]] /\ AuthTTL \in Nat
      /\ lineage \in [Proc -> [Parents -> [life : 0 .. LineageTTL, ok : BOOLEAN]]]
      /\ LineageTTL \in Nat \ {0} /\ MaxRun \in Nat /\ Horizon \in Nat
      /\ \A w \in User : down[w] \in 0 .. Horizon /\ down[w] \in Nat
  BY Facts DEF Tick, IInv, TypeOK
<1>2. /\ down' \in [User -> 0 .. Horizon]
      /\ \A w \in User : down'[w] \in Nat /\ down'[w] <= down[w] + 1
      /\ ActiveIsUp'
  <2>1. down' = [u \in User |-> IF status[u] = "active" THEN 0
                                ELSE IF down[u] < Horizon THEN down[u] + 1 ELSE Horizon]
    BY DEF Tick
  <2> QED
    BY <1>1, <2>1 DEF ActiveIsUp
<1>3. /\ auth' \in [Proc -> [Client -> 0 .. AuthTTL]]
      /\ \A p \in Proc, u \in Client : auth'[p][u] > 0 => auth'[p][u] = auth[p][u] - 1
  <2>1. auth' = [p \in Proc |-> [u \in Client |-> IF auth[p][u] > 0 THEN auth[p][u] - 1 ELSE 0]]
    BY DEF Tick, AgedAuth, Older
  <2>2. \A p \in Proc, u \in Client : auth[p][u] \in 0 .. AuthTTL
    BY <1>1
  <2> QED
    BY <1>1, <2>1, <2>2
<1>4. /\ lineage' \in [Proc -> [Parents -> [life : 0 .. LineageTTL, ok : BOOLEAN]]]
      /\ \A p \in Proc, w \in Parents : lineage'[p][w].life > 0 =>
             /\ lineage'[p][w].life = lineage[p][w].life - 1
             /\ lineage'[p][w].ok = lineage[p][w].ok
             /\ lineage[p][w].life > 0
  <2>1. lineage' = [p \in Proc |-> [w \in Parents |-> AgedLineage(p, w)]]
    BY DEF Tick
  <2>2. ASSUME NEW p \in Proc, NEW w \in Parents
        PROVE  /\ AgedLineage(p, w) \in [life : 0 .. LineageTTL, ok : BOOLEAN]
               /\ AgedLineage(p, w).life > 0 =>
                      /\ AgedLineage(p, w).life = lineage[p][w].life - 1
                      /\ AgedLineage(p, w).ok = lineage[p][w].ok
                      /\ lineage[p][w].life > 0
    <3>1. /\ lineage[p][w] \in [life : 0 .. LineageTTL, ok : BOOLEAN]
          /\ lineage[p][w].life \in 0 .. LineageTTL
      BY <1>1
    <3>2. CASE lineage[p][w].life > 1
      <4>1. AgedLineage(p, w) = [lineage[p][w] EXCEPT !.life = lineage[p][w].life - 1]
        BY <3>2 DEF AgedLineage
      <4> QED
        BY <1>1, <3>1, <3>2, <4>1
    <3>3. CASE ~(lineage[p][w].life > 1)
      <4>1. AgedLineage(p, w) = [life |-> 0, ok |-> FALSE]
        BY <3>3 DEF AgedLineage, Unknown
      <4> QED
        BY <1>1, <4>1
    <3> QED
      BY <3>2, <3>3
  <2> QED
    BY <2>1, <2>2
<1>5. \A r \in Request :
          /\ ~Running(r) => req'[r] = req[r] /\ req[r].pc = "idle"
          /\ Running(r) => /\ req'[r] = [req[r] EXCEPT !.age = @ + 1]
                           /\ req[r].age < MaxRun
  <2>1. req' = [r \in Request |-> IF Running(r) THEN [req[r] EXCEPT !.age = @ + 1] ELSE req[r]]
    BY DEF Tick
  <2>2. \A r \in Request : req[r].pc = "idle" \/ (Running(r) /\ req[r].age < MaxRun)
    BY DEF Tick
  <2>3. \A r \in Request : Running(r) => req[r].pc # "idle"
    BY DEF Running
  <2> QED
    BY <2>1, <2>2, <2>3
<1>6. \A r \in Request : Running(r) =>
          /\ req'[r].pc = req[r].pc /\ req'[r].user = req[r].user /\ req'[r].proc = req[r].proc
          /\ req'[r].at = req[r].at /\ req'[r].seen = req[r].seen
          /\ req'[r].age = req[r].age + 1 /\ req[r].age \in Nat
          /\ req'[r] \in RequestState
  <2> SUFFICES ASSUME NEW r \in Request, Running(r)
               PROVE  /\ req'[r].pc = req[r].pc /\ req'[r].user = req[r].user
                      /\ req'[r].proc = req[r].proc
                      /\ req'[r].at = req[r].at /\ req'[r].seen = req[r].seen
                      /\ req'[r].age = req[r].age + 1 /\ req[r].age \in Nat
                      /\ req'[r] \in RequestState
    OBVIOUS
  <2>1. req[r] \in RequestState /\ req[r].age \in Nat
    BY <1>1 DEF RequestState
  <2>2. req'[r] = [req[r] EXCEPT !.age = req[r].age + 1]
    BY <1>5
  <2> QED
    BY <2>1, <2>2 DEF RequestState
<1>7. req' \in [Request -> RequestState]
  <2>1. \A r \in Request : req'[r] \in RequestState
    BY <1>1, <1>5, <1>6
  <2> QED
    BY <2>1 DEF Tick
<1>8. TypeOK'
  BY <1>1, <1>2, <1>3, <1>4, <1>7 DEF IInv, TypeOK
<1>9. Resolving'
  <2> SUFFICES ASSUME NEW r \in Request
               PROVE  /\ req'[r].age <= MaxRun
                      /\ req'[r].pc # "idle" => req'[r].user \in Client
                      /\ Running(r)' => req'[r].proc \in Proc
                      /\ Checking(r)' => req'[r].at \in 1 .. Len(Chain[req'[r].user])
    BY DEF Resolving
  <2>1. CASE Running(r)
    <3>1. req[r].age < MaxRun /\ req'[r].age = req[r].age + 1 /\ req[r].age \in Nat
      BY <1>5, <1>6, <2>1
    <3>2. req'[r].age <= MaxRun
      BY <1>1, <3>1
    <3> QED
      BY <1>6, <2>1, <3>2 DEF IInv, Resolving, Running, Checking
  <2>2. CASE ~Running(r)
    BY <1>5, <2>2 DEF IInv, Resolving, Running, Checking
  <2> QED
    BY <2>1, <2>2
<1>10. VouchedByEntry'
  <2> SUFFICES ASSUME NEW p \in Proc, NEW w \in Parents, lineage'[p][w].life > 0, lineage'[p][w].ok
               PROVE  down'[w] + lineage'[p][w].life <= LineageTTL + MaxRun
    BY DEF VouchedByEntry
  <2>1. /\ lineage[p][w].life > 0 /\ lineage[p][w].ok /\ lineage[p][w].life \in Nat
        /\ lineage'[p][w].life = lineage[p][w].life - 1
    BY <1>1, <1>4
  <2>2. down[w] + lineage[p][w].life <= LineageTTL + MaxRun
    BY <2>1 DEF IInv, VouchedByEntry
  <2>3. w \in User
    BY ParentsAreUsers
  <2> QED
    BY <1>1, <1>2, <2>1, <2>2, <2>3
<1>11. VouchedByQuery'
  <2> SUFFICES ASSUME NEW r \in Request, req'[r].pc = "store", req'[r].seen
               PROVE  down'[Asked(r)'] <= req'[r].age
    BY DEF VouchedByQuery
  <2>1. Running(r)
    BY <1>5 DEF Running
  <2>2. /\ Asked(r)' = Asked(r) /\ Checking(r) /\ req[r].pc = "store" /\ req[r].seen
        /\ req'[r].age = req[r].age + 1 /\ req[r].age \in Nat
    BY <1>6, <2>1 DEF Asked, Checking
  <2>3. down[Asked(r)] <= req[r].age /\ Asked(r) \in User
    BY <2>2, Facts DEF IInv, VouchedByQuery
  <2> QED
    BY <1>1, <1>2, <2>2, <2>3
<1>12. VouchedByRequest'
  <2> SUFFICES ASSUME NEW r \in Request, Checking(r)'
               PROVE  /\ down'[req'[r].user] <= req'[r].age
                      /\ \A i \in 1 .. req'[r].at - 1 :
                             down'[Chain[req'[r].user][i]]
                                 <= LineageTTL - 1 + MaxRun + req'[r].age
    BY DEF VouchedByRequest
  <2>1. Running(r)
    BY <1>5 DEF Running, Checking
  <2>2. /\ Checking(r) /\ req'[r].user = req[r].user /\ req'[r].at = req[r].at
        /\ req'[r].age = req[r].age + 1 /\ req[r].age \in Nat
    BY <1>6, <2>1 DEF Checking
  <2>3. /\ down[req[r].user] <= req[r].age /\ req[r].user \in User
        /\ req[r].at \in 1 .. Len(Chain[req[r].user]) /\ Len(Chain[req[r].user]) \in Nat
    BY <2>2, Facts DEF IInv, VouchedByRequest, Resolving
  <2>4. down'[req[r].user] <= req[r].age + 1
    BY <1>1, <1>2, <2>2, <2>3
  <2>5. ASSUME NEW i \in 1 .. req[r].at - 1
        PROVE  down'[Chain[req[r].user][i]] <= LineageTTL - 1 + MaxRun + (req[r].age + 1)
    <3>1. PICK w : w = Chain[req[r].user][i]
      OBVIOUS
    <3>2. w \in User
      BY <2>3, <3>1, ChainTypes, ParentsAreUsers
    <3>3. down[w] <= LineageTTL - 1 + MaxRun + req[r].age
      BY <2>2, <3>1 DEF IInv, VouchedByRequest
    <3>4. down'[w] <= LineageTTL - 1 + MaxRun + (req[r].age + 1)
      BY <1>1, <1>2, <2>2, <3>2, <3>3
    <3> QED
      BY <3>1, <3>4
  <2> QED
    BY <2>2, <2>4, <2>5
<1>13. VouchedByAuth'
  <2> SUFFICES ASSUME NEW p \in Proc, NEW u \in Client, auth'[p][u] > 0, NEW w \in Needed(u)
               PROVE  down'[w] + auth'[p][u] <= AuthTTL + LineageTTL - 1 + 2 * MaxRun
    BY DEF VouchedByAuth
  <2>1. auth[p][u] \in Nat /\ auth'[p][u] = auth[p][u] - 1 /\ auth[p][u] > 0 /\ w \in User
    BY <1>1, <1>3, NeededAreUsers
  <2>2. down[w] + auth[p][u] <= AuthTTL + LineageTTL - 1 + 2 * MaxRun
    BY <2>1 DEF IInv, VouchedByAuth
  <2> QED
    BY <1>1, <1>2, <2>1, <2>2
<1>14. BoundedStaleness'
  <2>1. \A r \in Request : req'[r].pc # "granted"
    BY <1>5, <1>6 DEF Running
  <2> QED
    BY <2>1 DEF BoundedStaleness
<1> QED
  BY <1>2, <1>8, <1>9, <1>10, <1>11, <1>12, <1>13, <1>14 DEF IInv

(* Every grant rests on standings no older than the two caches and two      *)
(* resolutions allow: resolveAuthFromToken with authCache and lineage.      *)
THEOREM AccessInvariant == Spec => []IInv
<1>1. IInv /\ [Next]_vars => IInv'
  <2> SUFFICES ASSUME IInv, [Next]_vars PROVE IInv'
    OBVIOUS
  <2>1. ASSUME NEW r \in Request, NEW p \in Proc, NEW u \in Client, Start(r, p, u) PROVE IInv'
    BY <2>1, StartKeeps
  <2>2. ASSUME NEW r \in Request, Resolve(r) PROVE IInv'
    BY <2>2, ResolveKeeps
  <2>3. ASSUME NEW r \in Request, Finish(r) PROVE IInv'
    BY <2>3, FinishKeeps
  <2>4. ASSUME NEW h \in Admin,
               \/ \E p \in Proc, u \in Changing, k \in Kind : Open(h, p, u, k)
               \/ WriteStatus(h)
               \/ Evict(h)
        PROVE  IInv'
    BY <2>4, AdminKeeps
  <2>5. ASSUME NEW p \in Proc, Restart(p) PROVE IInv'
    BY <2>5, RestartKeeps
  <2>6. CASE Tick
    BY <2>6, TickKeeps
  <2>7. CASE UNCHANGED vars
    BY <2>7 DEF vars, IInv, TypeOK, Resolving, VouchedByEntry, VouchedByQuery, VouchedByRequest,
                VouchedByAuth, BoundedStaleness, ActiveIsUp, Checking, Running, Asked
  <2> QED
    BY <2>1, <2>2, <2>3, <2>4, <2>5, <2>6, <2>7 DEF Next
<1> QED
  BY InitInvariant, <1>1, PTL DEF Spec

(* No request is granted on a standing that ended longer ago than that.     *)
THEOREM StalenessIsBounded == Spec => []BoundedStaleness
<1>1. IInv => BoundedStaleness
  BY DEF IInv
<1> QED
  BY AccessInvariant, <1>1, PTL
=============================================================================
