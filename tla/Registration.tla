---------------------------- MODULE Registration ----------------------------
(***************************************************************************)
(* Joining the platform: register, registerOps and registerBrand with an   *)
(* invite or with the code of an upstream member, against the invite's     *)
(* revocation, deletion and expiry and the suspension of its upstream.     *)
(*                                                                         *)
(* A registration is one transaction at READ COMMITTED: it reads the       *)
(* invite, inserts the user, whose mobile number is unique, reads the      *)
(* invite again and updates it on conditions.  What it has written is      *)
(* visible, and the rows it has written are free, when it commits.         *)
(* An invite that expires is marked on another connection.                 *)
(***************************************************************************)
EXTENDS Integers, FiniteSets

CONSTANTS Invite, Person, Caller, Admin,
          MaxUses,   \* [Invite -> Nat \ {0}]
          Direct,    \* no invite: the code of an upstream member
          Expiring,  \* the invites with an expiry that may pass
          Watched    \* the invites and codes whose upstream may be suspended

ASSUME RegistrationAssumption ==
    /\ MaxUses \in [Invite -> Nat \ {0}]
    /\ Direct \notin Invite /\ Expiring \subseteq Invite
    /\ Watched \subseteq Invite \cup {Direct}

VARIABLES invite,    \* the committed invites
          member,    \* the committed members and how each joined
          upstream,  \* the invites and codes whose upstream is active
          late,      \* the invites whose expiry has passed
          reg,       \* the registrations in flight
          admin      \* the handlers that revoke or delete an invite

vars == <<invite, member, upstream, late, reg, admin>>

Code == Invite \cup {Direct}
Status == {"active", "used", "revoked", "expired"}
Row == [status : Status, count : Nat, uses : SUBSET Person]
Idle == [pc |-> "idle"]
Reg == {Idle} \cup [pc : {"open", "create", "consume", "expire", "write", "commit"},
                    who : Person, via : Code, row : Row]

TypeOK ==
    /\ invite \in [Invite -> Row]
    /\ member \subseteq [who : Person, via : Code]
    /\ upstream \subseteq Code /\ late \subseteq Invite
    /\ reg \in [Caller -> Reg]
    /\ admin \in [Admin -> {Idle} \cup [pc : {"revoke", "delete"}, on : Invite]]

Fresh == [status |-> "active", count |-> 0, uses |-> {}]
Init == /\ invite = [i \in Invite |-> Fresh]
        /\ member = {}
        /\ upstream = Code
        /\ late = {}
        /\ reg = [c \in Caller |-> Idle]
        /\ admin = [h \in Admin |-> Idle]
-----------------------------------------------------------------------------
Goto(c, pc) == reg' = [reg EXCEPT ![c].pc = pc]
Rollback(c) == reg' = [reg EXCEPT ![c] = Idle]
At(c, pc) == reg[c].pc = pc

(* Rows that another transaction has written and not committed. *)
NumberHeldByAny(c, p) == \E d \in Caller :
    reg[d].pc \in {"create", "consume", "expire", "write", "commit"} /\ reg[d].who = p
NumberHeld(c, p) == \E d \in Caller \ {c} :
    reg[d].pc \in {"consume", "expire", "write", "commit"} /\ reg[d].who = p
InviteHeld(i) == \E d \in Caller : At(d, "commit") /\ reg[d].via = i
Members == {m.who : m \in member}

(* The mobile number is looked up before the transaction. *)
Begin(c, p, v) ==
    /\ reg[c] = Idle
    /\ p \notin Members
    /\ reg' = [reg EXCEPT ![c] = [pc |-> "open", who |-> p, via |-> v, row |-> Fresh]]
    /\ UNCHANGED <<invite, member, upstream, late, admin>>

Exhausted(i) == invite[i].count >= MaxUses[i]

(* The first reads: the invite and the upstream. *)
Open(c) ==
    /\ At(c, "open")
    /\ LET v == reg[c].via
       IN  IF v \in upstream /\ (v \in Invite => invite[v].status = "active" /\ ~Exhausted(v))
           THEN Goto(c, "create")
           ELSE Rollback(c)
    /\ UNCHANGED <<invite, member, upstream, late, admin>>

CreateUnchecked(c) ==
    /\ At(c, "create")
    /\ ~NumberHeld(c, reg[c].who)
    /\ Goto(c, IF reg[c].via \in Invite THEN "consume" ELSE "commit")
    /\ UNCHANGED <<invite, member, upstream, late, admin>>

(* The insert waits for a transaction that holds the number, and fails when *)
(* the number is taken.                                                     *)
Create(c) ==
    /\ At(c, "create")
    /\ ~NumberHeld(c, reg[c].who)
    /\ IF reg[c].who \in Members THEN Rollback(c)
       ELSE Goto(c, IF reg[c].via \in Invite THEN "consume" ELSE "commit")
    /\ UNCHANGED <<invite, member, upstream, late, admin>>

(* consumeInvite: its read and its checks. *)
Consume(c) ==
    /\ At(c, "consume")
    /\ LET i == reg[c].via
       IN  IF invite[i].status # "active" THEN Rollback(c)
           ELSE IF i \in late THEN Goto(c, "expire")
           ELSE IF Exhausted(i) \/ i \notin upstream THEN Rollback(c)
           ELSE reg' = [reg EXCEPT ![c].pc = "write", ![c].row = invite[i]]
    /\ UNCHANGED <<invite, member, upstream, late, admin>>

(* The mark is unconditional and survives the rollback. *)
MarkExpired(c) ==
    /\ At(c, "expire")
    /\ ~InviteHeld(reg[c].via)
    /\ invite' = [invite EXCEPT ![reg[c].via].status = "expired"]
    /\ Rollback(c)
    /\ UNCHANGED <<member, upstream, late, admin>>

(* The conditional update, computed from the row that was read. *)
CountsDown(i, row, p) ==
    [status |-> "active", count |-> row.count - 1, uses |-> row.uses \cup {p}]
NextRow(i, row, p) ==
    [status |-> IF row.count + 1 >= MaxUses[i] THEN "used" ELSE "active",
     count |-> row.count + 1, uses |-> row.uses \cup {p}]
StillRoom(i) == ~Exhausted(i)
StillWaiting(i) == invite[i].status # "revoked"
StillOpen(i) == invite[i].status = "active" /\ ~Exhausted(i)

WriteAtOnce(c) ==
    /\ At(c, "write")
    /\ LET i == reg[c].via
       IN  IF StillOpen(i)
           THEN /\ invite' = [invite EXCEPT ![i] = NextRow(i, @, reg[c].who)]
                /\ reg' = [reg EXCEPT ![c].pc = "commit",
                                      ![c].row = NextRow(i, invite[i], reg[c].who)]
           ELSE Rollback(c) /\ UNCHANGED invite
    /\ UNCHANGED <<member, upstream, late, admin>>

Write(c) ==
    /\ At(c, "write")
    /\ ~InviteHeld(reg[c].via)
    /\ LET i == reg[c].via
       IN  IF StillOpen(i)
           THEN reg' = [reg EXCEPT ![c].pc = "commit",
                                   ![c].row = NextRow(i, reg[c].row, reg[c].who)]
           ELSE Rollback(c)
    /\ UNCHANGED <<invite, member, upstream, late, admin>>

Commit(c) ==
    /\ At(c, "commit")
    /\ LET v == reg[c].via
       IN  /\ member' = member \cup {[who |-> reg[c].who, via |-> v]}
           /\ invite' = IF v \in Invite THEN [invite EXCEPT ![v] = reg[c].row] ELSE invite
    /\ Rollback(c)
    /\ UNCHANGED <<upstream, late, admin>>

(* The transaction times out, or its process dies. *)
Abort(c) ==
    /\ reg[c] # Idle
    /\ Rollback(c)
    /\ UNCHANGED <<invite, member, upstream, late, admin>>

Step(c) == \/ Open(c) \/ Create(c) \/ Consume(c) \/ MarkExpired(c)
           \/ Write(c) \/ Commit(c)
-----------------------------------------------------------------------------
(* revokeInvite and adminDeleteInvite: a read with its checks, then an      *)
(* unconditional update.                                                    *)
Unused(i) == invite[i].count = 0 /\ invite[i].uses = {}

AdminRead(h, i, kind) ==
    /\ admin[h] = Idle
    /\ invite[i].status = "active"
    /\ kind = "delete" => Unused(i)
    /\ admin' = [admin EXCEPT ![h] = [pc |-> kind, on |-> i]]
    /\ UNCHANGED <<invite, member, upstream, late, reg>>

AdminWrite(h) ==
    /\ admin[h] # Idle
    /\ ~InviteHeld(admin[h].on)
    /\ invite' = [invite EXCEPT ![admin[h].on].status = "revoked"]
    /\ admin' = [admin EXCEPT ![h] = Idle]
    /\ UNCHANGED <<member, upstream, late, reg>>

(* The upstream member, or the issuer, is suspended or reactivated. *)
ToggleUpstream(v) ==
    /\ upstream' = IF v \in upstream THEN upstream \ {v} ELSE upstream \cup {v}
    /\ UNCHANGED <<invite, member, late, reg, admin>>

Expire(i) ==
    /\ i \notin late
    /\ late' = late \cup {i}
    /\ UNCHANGED <<invite, member, upstream, reg, admin>>

Next == \/ \E c \in Caller : \/ \E p \in Person, v \in Code : Begin(c, p, v)
                             \/ Step(c)
                             \/ Abort(c)
        \/ \E h \in Admin : \/ \E i \in Invite, k \in {"revoke", "delete"} : AdminRead(h, i, k)
                            \/ AdminWrite(h)
        \/ \E v \in Watched : ToggleUpstream(v)
        \/ \E i \in Expiring : Expire(i)

Spec == Init /\ [][Next]_vars

(* A waiting statement is queued on the lock, and the database hands a free *)
(* lock to the one that waited longest: strong fairness.                    *)
LiveSpec == Spec /\ \A c \in Caller : SF_vars(Step(c))
-----------------------------------------------------------------------------
JoinedBy(i) == {m \in member : m.via = i}

(* One account per mobile number, and an invite made for one use admits one *)
(* member, however many register with it at once.                           *)
OneAccountEach == \A m, n \in member : m.who = n.who => m = n
SingleUse == \A i \in Invite : MaxUses[i] = 1 => Cardinality(JoinedBy(i)) <= 1

(* An invite shows that it was used exactly when someone joined by it, and  *)
(* everyone it lists did join.                                              *)
UsesAreMembers ==
    \A i \in Invite : /\ invite[i].count > 0 <=> JoinedBy(i) # {}
                      /\ invite[i].uses \subseteq {m.who : m \in JoinedBy(i)}

(* Nobody joins by an invite that was revoked, used up or expired first,    *)
(* and such an invite never opens again, not by a write in flight either.   *)
ClosedStaysClosed ==
    [][\A i \in Invite : invite[i].status # "active" =>
           invite'[i].status # "active" /\ JoinedBy(i)' = JoinedBy(i)]_vars

(* No registration waits for ever on the number or the invite of another.   *)
EveryRegistrationEnds == \A c \in Caller : reg[c] # Idle ~> reg[c] = Idle

(* DATABASE_DOCUMENTATION.md: "Invite over-consumption | Atomic             *)
(* `use_count` check in transaction".                                       *)
NoOverConsumption == \A i \in Invite : Cardinality(JoinedBy(i)) <= MaxUses[i]

(* adminDeleteInvite: "Cannot delete an invite that has been used".         *)
DeletesOnlyUnused ==
    [][\A h \in Admin : admin[h] # Idle /\ admin[h].pc = "delete" /\ admin'[h] = Idle
                           => Unused(admin[h].on)]_vars
=============================================================================
