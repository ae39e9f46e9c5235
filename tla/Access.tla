------------------------------- MODULE Access -------------------------------
(***************************************************************************)
(* Who may still act after an account stops being active.  Every request   *)
(* resolves its user through the auth cache of its process or, on a miss,  *)
(* reads the user and asks for the standing of everyone above it, which    *)
(* the lineage cache of the process may answer.  Both caches are private   *)
(* to a process, and the handlers that change a status clean only the      *)
(* caches of the process that runs them.                                   *)
(*                                                                         *)
(* Time passes in ticks.  A cached entry carries the ticks it has left, a  *)
(* request the ticks it has run.  An account that others depend on is not  *)
(* deleted here, so that the code of an agency is always found.            *)
(***************************************************************************)
EXTENDS Integers, Sequences, FiniteSets

CONSTANTS User, Proc, Request, Admin,
          Client,       \* the users whose requests are followed
          Changing,     \* the users whose status the handlers change
          Chain,        \* the users above a user, nearest first
          AuthTTL, LineageTTL,
          MaxRun,       \* the ticks a request may take to resolve
          Horizon,      \* the ticks of inactivity the model tells apart
          None          \* no user

Above(u) == {Chain[u][i] : i \in DOMAIN Chain[u]}
Parents == UNION {Above(u) : u \in User}

ASSUME AccessAssumption ==
    /\ Client \subseteq User /\ Changing \subseteq User
    /\ Chain \in [User -> Seq(User)]
    /\ AuthTTL \in Nat \ {0} /\ LineageTTL \in Nat \ {0}
    /\ MaxRun \in Nat
    /\ Horizon \in Nat /\ Horizon >= AuthTTL + LineageTTL + 2 * MaxRun - 1
    /\ None \notin User

VARIABLES status,   \* the committed status of every user
          down,     \* ticks since the user was last active, up to Horizon
          auth,     \* the auth cache of a process: life left of a user's entry
          lineage,  \* its lineage cache: life left and answer for a user
          req,      \* the requests being resolved
          admin     \* the handlers changing a status

vars == <<status, down, auth, lineage, req, admin>>

Status == {"pending", "active", "suspended", "deleted"}
Kind == {"suspend", "activate", "rejectMediator", "rejectUser",
         "approveMediator", "delete"}
Fresh(pc, u, p) == [pc |-> pc, user |-> u, proc |-> p, at |-> 0, seen |-> FALSE, age |-> 0]
Idle == Fresh("idle", None, None)
Quiet == [pc |-> "idle", user |-> None, proc |-> None, kind |-> "suspend", changed |-> FALSE]
Unknown == [life |-> 0, ok |-> FALSE]

RequestState == [pc : {"idle", "user", "check", "query", "store", "granted", "refused"},
                 user : User \cup {None}, proc : Proc \cup {None},
                 at : Nat, seen : BOOLEAN, age : Nat]
AdminState == [pc : {"idle", "write", "evict"}, user : User \cup {None},
               proc : Proc \cup {None}, kind : Kind, changed : BOOLEAN]

TypeOK ==
    /\ status \in [User -> Status]
    /\ down \in [User -> 0 .. Horizon]
    /\ auth \in [Proc -> [Client -> 0 .. AuthTTL]]
    /\ lineage \in [Proc -> [Parents -> [life : 0 .. LineageTTL, ok : BOOLEAN]]]
    /\ req \in [Request -> RequestState]
    /\ admin \in [Admin -> AdminState]

Init ==
    /\ status \in [User -> {"pending", "active"}]
    /\ \A u \in User \ Changing : status[u] = "active"
    /\ down = [u \in User |-> IF status[u] = "active" THEN 0 ELSE Horizon]
    /\ auth = [p \in Proc |-> [u \in Client |-> 0]]
    /\ lineage = [p \in Proc |-> [w \in Parents |-> Unknown]]
    /\ req = [r \in Request |-> Idle]
    /\ admin = [h \in Admin |-> Quiet]
-----------------------------------------------------------------------------
(* resolveAuthFromToken. *)
Reply(r, answer) == req' = [req EXCEPT ![r] = Fresh(answer, req[r].user, None)]

(* authCacheGet. *)
CacheHit(p, u) == auth[p][u] > 0

StartRenews(r, p, u) ==
    /\ req[r].pc = "idle"
    /\ req' = [req EXCEPT ![r] = IF CacheHit(p, u)
                                  THEN Fresh("granted", u, None)
                                  ELSE Fresh("user", u, p)]
    /\ auth' = IF CacheHit(p, u) THEN [auth EXCEPT ![p][u] = AuthTTL] ELSE auth
    /\ UNCHANGED <<status, down, lineage, admin>>
Start(r, p, u) ==
    /\ req[r].pc = "idle"
    /\ req' = [req EXCEPT ![r] = IF CacheHit(p, u)
                                  THEN Fresh("granted", u, None)
                                  ELSE Fresh("user", u, p)]
    /\ UNCHANGED <<status, down, auth, lineage, admin>>

(* The last check passed: the answer goes into the auth cache. *)
GrantAndCache(r) ==
    /\ Reply(r, "granted")
    /\ auth' = [auth EXCEPT ![req[r].proc][req[r].user] = AuthTTL]

(* The check at position n of the chain is next, if there is one. *)
Proceed(r, n) ==
    IF n > Len(Chain[req[r].user])
    THEN GrantAndCache(r)
    ELSE /\ req' = [req EXCEPT ![r].pc = "check", ![r].at = n, ![r].seen = FALSE]
         /\ UNCHANGED auth

ReadUser(r) ==
    /\ req[r].pc = "user"
    /\ IF status[req[r].user] = "active"
       THEN Proceed(r, 1)
       ELSE Reply(r, "refused") /\ UNCHANGED auth
    /\ UNCHANGED <<status, down, lineage, admin>>

(* isAgencyActive and isMediatorActive: a cached answer, or a query whose   *)
(* answer is cached after the wait, whatever happened to the cache meanwhile. *)
Asked(r) == Chain[req[r].user][req[r].at]

AnswerCheck(r, ok) == IF ok THEN Proceed(r, req[r].at + 1)
                            ELSE Reply(r, "refused") /\ UNCHANGED auth

Ask(r) == req' = [req EXCEPT ![r].pc = "query", ![r].seen = FALSE]

CheckRenews(r) ==
    /\ req[r].pc = "check"
    /\ LET p == req[r].proc
           entry == lineage[p][Asked(r)]
       IN  IF entry.life > 0
           THEN /\ AnswerCheck(r, entry.ok)
                /\ lineage' = [lineage EXCEPT ![p][Asked(r)].life = LineageTTL]
           ELSE Ask(r) /\ UNCHANGED <<auth, lineage>>
    /\ UNCHANGED <<status, down, admin>>
Check(r) ==
    /\ req[r].pc = "check"
    /\ LET entry == lineage[req[r].proc][Asked(r)]
       IN  IF entry.life > 0
           THEN AnswerCheck(r, entry.ok)
           ELSE Ask(r) /\ UNCHANGED auth
    /\ UNCHANGED <<status, down, lineage, admin>>

Query(r) ==
    /\ req[r].pc = "query"
    /\ req' = [req EXCEPT ![r].pc = "store", ![r].seen = status[Asked(r)] = "active"]
    /\ UNCHANGED <<status, down, auth, lineage, admin>>

Store(r) ==
    /\ req[r].pc = "store"
    /\ lineage' = [lineage EXCEPT ![req[r].proc][Asked(r)] =
                       [life |-> LineageTTL, ok |-> req[r].seen]]
    /\ AnswerCheck(r, req[r].seen)
    /\ UNCHANGED <<status, down, admin>>

Finish(r) ==
    /\ req[r].pc \in {"granted", "refused"}
    /\ req' = [req EXCEPT ![r] = Idle]
    /\ UNCHANGED <<status, down, auth, lineage, admin>>

Resolve(r) == ReadUser(r) \/ Check(r) \/ Query(r) \/ Store(r)
-----------------------------------------------------------------------------
(* The handlers that change a status: updateUserStatus, rejectMediator,     *)
(* approveMediator, rejectUser, deleteUser.                                 *)
NewStatus(kind) == CASE kind \in {"suspend", "rejectMediator", "rejectUser"} -> "suspended"
                     [] kind \in {"activate", "approveMediator"} -> "active"
                     [] OTHER -> "deleted"
EvictsAuth(kind) == kind \in {"suspend", "activate", "rejectMediator", "rejectUser"}
ClearsLineage(kind) == kind # "rejectUser"

Concerns(kind, u) == CASE kind \in {"rejectMediator", "approveMediator"} -> u \in Parents
                       [] kind \in {"rejectUser", "delete"} -> u \notin Parents
                       [] OTHER -> TRUE

(* The handler finds the user; updateUserStatus will compare the status it  *)
(* found with the one it wrote, the others clean up in any case.            *)
Open(h, p, u, kind) ==
    /\ admin[h].pc = "idle"
    /\ status[u] # "deleted" /\ Concerns(kind, u)
    /\ admin' = [admin EXCEPT ![h] =
           [pc |-> "write", user |-> u, proc |-> p, kind |-> kind,
            changed |-> kind \in {"suspend", "activate"} => status[u] # NewStatus(kind)]]
    /\ UNCHANGED <<status, down, auth, lineage, req>>

WriteStatus(h) ==
    /\ admin[h].pc = "write"
    /\ LET u == admin[h].user
           new == IF status[u] = "deleted" THEN "deleted" ELSE NewStatus(admin[h].kind)
       IN  /\ status' = [status EXCEPT ![u] = new]
           /\ down' = [down EXCEPT ![u] = IF new = "active" THEN 0 ELSE @]
    /\ admin' = [admin EXCEPT ![h].pc = "evict"]
    /\ UNCHANGED <<auth, lineage, req>>

(* authCacheInvalidate and clearLineageCache, on this process only. *)
Evict(h) ==
    /\ admin[h].pc = "evict"
    /\ LET p == admin[h].proc
           a == admin[h]
       IN  /\ auth' = IF a.changed /\ EvictsAuth(a.kind) /\ a.user \in Client
                      THEN [auth EXCEPT ![p][a.user] = 0] ELSE auth
           /\ lineage' = IF a.changed /\ ClearsLineage(a.kind)
                         THEN [lineage EXCEPT ![p] = [w \in Parents |-> Unknown]] ELSE lineage
    /\ admin' = [admin EXCEPT ![h] = Quiet]
    /\ UNCHANGED <<status, down, req>>

(* The process dies and comes back with empty caches. *)
Restart(p) ==
    /\ auth' = [auth EXCEPT ![p] = [u \in Client |-> 0]]
    /\ lineage' = [lineage EXCEPT ![p] = [w \in Parents |-> Unknown]]
    /\ req' = [r \in Request |-> IF req[r].proc = p THEN Idle ELSE req[r]]
    /\ admin' = [h \in Admin |-> IF admin[h].proc = p THEN Quiet ELSE admin[h]]
    /\ UNCHANGED <<status, down>>

OlderByOne(n) == n - 1
Older(n) == IF n > 0 THEN n - 1 ELSE 0
AgedAuth(p, u) == Older(auth[p][u])
AgedLineage(p, w) == IF lineage[p][w].life > 1
                     THEN [lineage[p][w] EXCEPT !.life = @ - 1] ELSE Unknown
Running(r) == req[r].pc \in {"user", "check", "query", "store"}

(* One tick; a reply takes none. *)
Tick ==
    /\ \A r \in Request : \/ req[r].pc = "idle"
                          \/ Running(r) /\ req[r].age < MaxRun
    /\ down' = [u \in User |-> IF status[u] = "active" THEN 0
                               ELSE IF down[u] < Horizon THEN down[u] + 1 ELSE Horizon]
    /\ auth' = [p \in Proc |-> [u \in Client |-> AgedAuth(p, u)]]
    /\ lineage' = [p \in Proc |-> [w \in Parents |-> AgedLineage(p, w)]]
    /\ req' = [r \in Request |-> IF Running(r) THEN [req[r] EXCEPT !.age = @ + 1] ELSE req[r]]
    /\ UNCHANGED <<status, admin>>

Next == \/ \E r \in Request : \/ \E p \in Proc, u \in Client : Start(r, p, u)
                              \/ Resolve(r)
                              \/ Finish(r)
        \/ \E h \in Admin : \/ \E p \in Proc, u \in Changing, k \in Kind : Open(h, p, u, k)
                            \/ WriteStatus(h)
                            \/ Evict(h)
        \/ \E p \in Proc : Restart(p)
        \/ Tick

Spec == Init /\ [][Next]_vars
Fairness == /\ SF_vars(Tick)
            /\ \A r \in Request : WF_vars(Resolve(r)) /\ WF_vars(Finish(r))
LiveSpec == Spec /\ Fairness
-----------------------------------------------------------------------------
(* The user and everyone it depends on. *)
Needed(u) == {u} \cup Above(u)

(* "Buyer loses access immediately when their mediator or agency is         *)
(* suspended" holds up to the caches: no request is granted to a user when  *)
(* it, or anyone above it, has been inactive for longer than both lifetimes *)
(* and two resolutions together, in any process.                            *)
BoundedStaleness ==
    \A r \in Request : req[r].pc = "granted" =>
        \A w \in Needed(req[r].user) : down[w] <= (AuthTTL - 1) + (LineageTTL - 1) + 2 * MaxRun

(* auth.ts: "Buyer loses access immediately when their mediator or agency is *)
(* suspended": once no handler is about to evict, a cached answer is true.  *)
MayAct(u) == \A w \in Needed(u) : status[w] = "active"
CachedMayAct == (\A h \in Admin : admin[h].pc # "evict") =>
                    \A p \in Proc, u \in Client : auth[p][u] > 0 => MayAct(u)

(* Where the bound comes from: how long a user can have been inactive when  *)
(* a request, an entry of the lineage cache or one of the auth cache still  *)
(* vouches for it.                                                          *)
Checking(r) == req[r].pc \in {"check", "query", "store"}
ActiveIsUp == \A u \in User : status[u] = "active" => down[u] = 0
VouchedByEntry ==
    \A p \in Proc, w \in Parents :
        lineage[p][w].life > 0 /\ lineage[p][w].ok =>
            down[w] + lineage[p][w].life <= LineageTTL + MaxRun
VouchedByQuery ==
    \A r \in Request : req[r].pc = "store" /\ req[r].seen => down[Asked(r)] <= req[r].age
VouchedByRequest ==
    \A r \in Request : Checking(r) =>
        /\ down[req[r].user] <= req[r].age
        /\ \A i \in 1 .. req[r].at - 1 :
               down[Chain[req[r].user][i]] <= LineageTTL - 1 + MaxRun + req[r].age
VouchedByAuth ==
    \A p \in Proc, u \in Client : auth[p][u] > 0 =>
        \A w \in Needed(u) : down[w] + auth[p][u] <= AuthTTL + LineageTTL - 1 + 2 * MaxRun

Resolving ==
    \A r \in Request :
        /\ req[r].age <= MaxRun
        /\ req[r].pc # "idle" => req[r].user \in Client
        /\ Running(r) => req[r].proc \in Proc
        /\ Checking(r) => req[r].at \in 1 .. Len(Chain[req[r].user])

(* The inductive invariant of the bound. *)
IInv == /\ TypeOK /\ Resolving /\ ActiveIsUp
        /\ VouchedByEntry /\ VouchedByQuery /\ VouchedByRequest /\ VouchedByAuth
        /\ BoundedStaleness

(* The caches do not keep a user out who may act again: once everyone the   *)
(* user needs stays active, its requests are granted from some point on.    *)
AccessReturns ==
    \A u \in Client :
        <>[]MayAct(u) => <>[](\A r \in Request :
                                  req[r].pc = "refused" => req[r].user # u)
=============================================================================
