------------------------ MODULE Registration_proofs ------------------------
(* However many people register at once, with any invites: one account per *)
(* number, one member per invite for one use, and none by a closed invite. *)
EXTENDS Registration, FiniteSetTheorems, TLAPS

(* The registrations whose user is inserted and not committed: no other    *)
(* one holds the number, and nobody has it.                                *)
Holding(c) == reg[c].pc \in {"consume", "expire", "write", "commit"}
NumbersAreHeld ==
    \A c \in Caller : Holding(c) =>
        /\ reg[c].who \notin Members
        /\ \A d \in Caller \ {c} : Holding(d) => reg[d].who # reg[c].who

(* What a registration read of an invite has happened: everyone listed     *)
(* joined by it.                                                           *)
Joined(i) == {m.who : m \in JoinedBy(i)}
ReadsAreMembers ==
    \A c \in Caller : reg[c].pc = "write" => reg[c].row.uses \subseteq Joined(reg[c].via)

(* The row of an invite that waits for its commit: the invite is open and  *)
(* the row is locked, so it stays so.                                      *)
RowsAreHeld ==
    \A c \in Caller : reg[c].pc = "commit" /\ reg[c].via \in Invite =>
        /\ invite[reg[c].via].status = "active" /\ ~Exhausted(reg[c].via)
        /\ reg[c].row.count > 0
        /\ reg[c].row.uses \subseteq Joined(reg[c].via) \cup {reg[c].who}
        /\ \A d \in Caller \ {c} : reg[d].pc = "commit" => reg[d].via # reg[c].via

FromInvites == \A c \in Caller : reg[c].pc \in {"consume", "expire", "write"} => reg[c].via \in Invite

IInv == /\ TypeOK /\ FromInvites /\ NumbersAreHeld /\ ReadsAreMembers /\ RowsAreHeld
        /\ OneAccountEach /\ SingleUse /\ UsesAreMembers
-----------------------------------------------------------------------------
(* What each kind of step does to the registrations. *)
Others(c) == \A d \in Caller \ {c} : reg'[d] = reg[d]

LEMMA GotoFields ==
    ASSUME NEW k \in Reg, k # Idle, NEW pc \in {"create", "consume", "expire", "write", "commit"}
    PROVE  /\ [k EXCEPT !.pc = pc] \in Reg
           /\ [k EXCEPT !.pc = pc].pc = pc
           /\ [k EXCEPT !.pc = pc].who = k.who
           /\ [k EXCEPT !.pc = pc].via = k.via
           /\ [k EXCEPT !.pc = pc].row = k.row
  BY DEF Reg, Idle

LEMMA Fields ==
    ASSUME TypeOK, NEW c \in Caller, reg[c] # Idle
    PROVE  /\ reg[c] \in Reg /\ reg[c].who \in Person /\ reg[c].via \in Code /\ reg[c].row \in Row
           /\ reg[c].pc # "idle"
  BY DEF TypeOK, Reg, Idle

LEMMA GotoFacts ==
    ASSUME TypeOK, NEW c \in Caller, reg[c] # Idle,
           NEW pc \in {"create", "consume", "expire", "write", "commit"}, Goto(c, pc)
    PROVE  /\ reg' \in [Caller -> Reg] /\ Others(c)
           /\ reg'[c].pc = pc /\ reg'[c].who = reg[c].who
           /\ reg'[c].via = reg[c].via /\ reg'[c].row = reg[c].row
<1> DEFINE k == [reg[c] EXCEPT !.pc = pc]
<1>1. reg[c] \in Reg
  BY DEF TypeOK
<1>2. k \in Reg /\ k.pc = pc /\ k.who = reg[c].who /\ k.via = reg[c].via /\ k.row = reg[c].row
  BY <1>1, GotoFields
<1>3. reg' = [reg EXCEPT ![c] = k]
  BY DEF Goto
<1> HIDE DEF k
<1> QED
  BY <1>2, <1>3 DEF TypeOK, Others

LEMMA RollbackFacts ==
    ASSUME TypeOK, NEW c \in Caller, Rollback(c)
    PROVE  reg' \in [Caller -> Reg] /\ Others(c) /\ reg'[c] = Idle /\ reg'[c].pc = "idle"
  BY DEF TypeOK, Rollback, Others, Reg, Idle

(* A step of one registration that leaves what is committed alone. *)
LEMMA RegStep ==
    ASSUME IInv, NEW c \in Caller, UNCHANGED <<invite, member, upstream, late, admin>>,
           reg' \in [Caller -> Reg], Others(c),
           reg'[c].pc \in {"consume", "expire", "write"} => reg'[c].via \in Invite,
           Holding(c)' => /\ reg'[c].who \notin Members
                          /\ \A d \in Caller \ {c} : Holding(d) => reg[d].who # reg'[c].who,
           reg'[c].pc = "write" => reg'[c].row.uses \subseteq Joined(reg'[c].via),
           reg'[c].pc = "commit" /\ reg'[c].via \in Invite =>
               /\ invite[reg'[c].via].status = "active" /\ ~Exhausted(reg'[c].via)
               /\ reg'[c].row.count > 0
               /\ reg'[c].row.uses \subseteq Joined(reg'[c].via) \cup {reg'[c].who}
               /\ \A d \in Caller \ {c} : reg[d].pc = "commit" => reg[d].via # reg'[c].via
    PROVE  IInv'
<1>1. TypeOK' /\ FromInvites'
  BY DEF IInv, TypeOK, FromInvites, Others
<1>2. NumbersAreHeld'
  BY DEF IInv, NumbersAreHeld, Others, Holding, Members
<1>3. ReadsAreMembers'
  BY DEF IInv, ReadsAreMembers, Others, Joined, JoinedBy
<1>4. RowsAreHeld'
  <2> SUFFICES ASSUME NEW e \in Caller, reg'[e].pc = "commit", reg'[e].via \in Invite
               PROVE  /\ invite[reg'[e].via].status = "active" /\ ~Exhausted(reg'[e].via)
                      /\ reg'[e].row.count > 0
                      /\ reg'[e].row.uses \subseteq Joined(reg'[e].via) \cup {reg'[e].who}
                      /\ \A d \in Caller \ {e} : reg'[d].pc = "commit" => reg'[d].via # reg'[e].via
    BY DEF RowsAreHeld, Joined, JoinedBy, Exhausted
  <2>1. CASE e = c
    BY <2>1 DEF Others
  <2>2. CASE e # c
    BY <2>2 DEF Others, IInv, RowsAreHeld
  <2> QED
    BY <2>1, <2>2
<1>5. OneAccountEach' /\ SingleUse' /\ UsesAreMembers'
  BY DEF IInv, OneAccountEach, SingleUse, UsesAreMembers, JoinedBy
<1> QED
  BY <1>1, <1>2, <1>3, <1>4, <1>5 DEF IInv

LEMMA RollbackKeeps ==
    ASSUME IInv, NEW c \in Caller, Rollback(c), UNCHANGED <<invite, member, upstream, late, admin>>
    PROVE  IInv'
  BY RollbackFacts, RegStep DEF IInv, Holding
-----------------------------------------------------------------------------
LEMMA BeginKeeps ==
    ASSUME IInv, NEW c \in Caller, NEW p \in Person, NEW v \in Code, Begin(c, p, v)
    PROVE  IInv'
<1> DEFINE k == [pc |-> "open", who |-> p, via |-> v, row |-> Fresh]
<1>1. k \in Reg
  BY DEF Reg, Fresh, Row, Status
<1>2. reg' \in [Caller -> Reg] /\ Others(c) /\ reg'[c].pc = "open"
  BY <1>1 DEF Begin, IInv, TypeOK, Others
<1> QED
  BY <1>2, RegStep DEF Begin, Holding

LEMMA OpenKeeps == ASSUME IInv, NEW c \in Caller, Open(c) PROVE IInv'
<1>1. reg[c] # Idle /\ TypeOK /\ (Goto(c, "create") \/ Rollback(c))
  BY DEF Open, At, Idle, IInv
<1>2. CASE Rollback(c)
  BY <1>2, RollbackKeeps DEF Open
<1>3. CASE Goto(c, "create")
  <2>1. reg' \in [Caller -> Reg] /\ Others(c) /\ reg'[c].pc = "create"
    BY <1>1, <1>3, GotoFacts
  <2> QED
    BY <2>1, RegStep DEF Open, Holding
<1> QED
  BY <1>1, <1>2, <1>3

LEMMA CreateKeeps == ASSUME IInv, NEW c \in Caller, Create(c) PROVE IInv'
<1>1. reg[c] # Idle /\ TypeOK
  BY DEF Create, At, Idle, IInv
<1>2. CASE reg[c].who \in Members
  BY <1>2, RollbackKeeps DEF Create
<1>3. CASE reg[c].who \notin Members
  <2>1. PICK pc \in {"consume", "commit"} :
          Goto(c, pc) /\ (IF reg[c].via \in Invite THEN pc = "consume" ELSE pc = "commit")
    BY <1>3 DEF Create
  <2>2. /\ reg' \in [Caller -> Reg] /\ Others(c)
        /\ reg'[c].pc = pc /\ reg'[c].who = reg[c].who /\ reg'[c].via = reg[c].via
    BY <1>1, <2>1, GotoFacts
  <2>3. \A d \in Caller \ {c} : Holding(d) => reg[d].who # reg[c].who
    BY DEF Create, NumberHeld, Holding
  <2> QED
    BY <1>3, <2>1, <2>2, <2>3, RegStep DEF Create
<1> QED
  BY <1>2, <1>3

LEMMA ConsumeKeeps == ASSUME IInv, NEW c \in Caller, Consume(c) PROVE IInv'
<1> DEFINE i == reg[c].via
<1>1. reg[c] # Idle /\ TypeOK /\ i \in Invite /\ Holding(c) /\ reg[c].pc = "consume"
  BY DEF Consume, At, Idle, IInv, FromInvites, Holding
<1>2. CASE Rollback(c)
  BY <1>2, RollbackKeeps DEF Consume
<1>3. CASE Goto(c, "expire")
  <2>1. /\ reg' \in [Caller -> Reg] /\ Others(c)
        /\ reg'[c].pc = "expire" /\ reg'[c].who = reg[c].who /\ reg'[c].via = i
    BY <1>1, <1>3, GotoFacts
  <2> QED
    BY <1>1, <2>1, RegStep DEF Consume, IInv, NumbersAreHeld
<1>4. CASE reg' = [reg EXCEPT ![c].pc = "write", ![c].row = invite[i]]
  <2> DEFINE k == [[reg[c] EXCEPT !.pc = "write"] EXCEPT !.row = invite[i]]
  <2>1. invite[i] \in Row /\ reg[c] \in Reg
    BY <1>1 DEF TypeOK
  <2>2. k \in Reg /\ k.pc = "write" /\ k.who = reg[c].who /\ k.via = i /\ k.row = invite[i]
    BY <1>1, <2>1 DEF Reg, Idle
  <2>3. reg' = [reg EXCEPT ![c] = k]
    BY <1>4
  <2> HIDE DEF k
  <2>4. reg' \in [Caller -> Reg] /\ Others(c) /\ reg'[c] = k
    BY <2>2, <2>3 DEF IInv, TypeOK, Others
  <2>5. invite[i].uses \subseteq Joined(i)
    BY <1>1 DEF IInv, UsesAreMembers, Joined
  <2> QED
    BY <1>1, <2>2, <2>4, <2>5, RegStep DEF Consume, IInv, NumbersAreHeld
<1> QED
  BY <1>2, <1>3, <1>4 DEF Consume

LEMMA WriteKeeps == ASSUME IInv, NEW c \in Caller, Write(c) PROVE IInv'
<1> DEFINE i == reg[c].via
           n == NextRow(i, reg[c].row, reg[c].who)
<1>1. reg[c] # Idle /\ TypeOK /\ i \in Invite /\ Holding(c) /\ reg[c].pc = "write"
  BY DEF Write, At, Idle, IInv, FromInvites, Holding
<1>2. CASE ~StillOpen(i)
  BY <1>2, RollbackKeeps DEF Write
<1>3. CASE StillOpen(i)
  <2> DEFINE k == [[reg[c] EXCEPT !.pc = "commit"] EXCEPT !.row = n]
  <2>1. reg[c] \in Reg /\ reg[c].row \in Row /\ reg[c].who \in Person
    BY <1>1, Fields
  <2>2. n \in Row /\ n.count > 0 /\ n.uses = reg[c].row.uses \cup {reg[c].who}
    BY <2>1 DEF NextRow, Row, Status
  <2> HIDE DEF n
  <2>3. k \in Reg /\ k.pc = "commit" /\ k.who = reg[c].who /\ k.via = i /\ k.row = n
    BY <1>1, <2>1, <2>2 DEF Reg, Idle
  <2>4. reg' = [reg EXCEPT ![c] = k]
    BY <1>3 DEF Write, n
  <2> HIDE DEF k
  <2>5. reg' \in [Caller -> Reg] /\ Others(c) /\ reg'[c] = k
    BY <2>3, <2>4 DEF IInv, TypeOK, Others
  <2>6. n.uses \subseteq Joined(i) \cup {reg[c].who}
    BY <1>1, <2>2 DEF IInv, ReadsAreMembers
  <2>7. \A d \in Caller \ {c} : reg[d].pc = "commit" => reg[d].via # i
    BY DEF Write, InviteHeld, At
  <2> QED
    BY <1>1, <1>3, <2>2, <2>3, <2>5, <2>6, <2>7, RegStep
       DEF Write, StillOpen, IInv, NumbersAreHeld
<1> QED
  BY <1>2, <1>3

(* An invite that is marked or revoked: no registration has its row. *)
LEMMA MarkKeeps ==
    ASSUME IInv, NEW i \in Invite, NEW s \in Status \ {"active"}, ~InviteHeld(i),
           invite' = [invite EXCEPT ![i].status = s], member' = member,
           upstream' = upstream, late' = late, reg' \in [Caller -> Reg],
           \A c \in Caller : reg'[c] \in {reg[c], Idle},
           admin' \in [Admin -> {Idle} \cup [pc : {"revoke", "delete"}, on : Invite]]
    PROVE  IInv'
<1> DEFINE k == [invite[i] EXCEPT !.status = s]
<1>1. k \in Row /\ k.count = invite[i].count /\ k.uses = invite[i].uses
  BY DEF IInv, TypeOK, Row
<1>2. invite' = [invite EXCEPT ![i] = k]
  OBVIOUS
<1> HIDE DEF k
<1>3. /\ invite' \in [Invite -> Row]
      /\ \A j \in Invite : /\ invite'[j].count = invite[j].count
                           /\ invite'[j].uses = invite[j].uses
                           /\ j # i => invite'[j] = invite[j]
  BY <1>1, <1>2 DEF IInv, TypeOK
<1>4. \A c \in Caller : reg'[c] = reg[c] \/ reg'[c].pc = "idle"
  BY DEF Idle
<1>5. TypeOK' /\ FromInvites'
  BY <1>3, <1>4 DEF IInv, TypeOK, FromInvites
<1>6. NumbersAreHeld'
  BY <1>4 DEF IInv, NumbersAreHeld, Holding, Members
<1>7. ReadsAreMembers'
  BY <1>4 DEF IInv, ReadsAreMembers, Joined, JoinedBy
<1>8. RowsAreHeld'
  <2> SUFFICES ASSUME NEW e \in Caller, NEW j \in Invite, reg'[e].pc = "commit", reg'[e].via = j
               PROVE  /\ invite'[j].status = "active" /\ ~Exhausted(j)'
                      /\ reg'[e].row.count > 0
                      /\ reg'[e].row.uses \subseteq Joined(j)' \cup {reg'[e].who}
                      /\ \A d \in Caller \ {e} : reg'[d].pc = "commit" => reg'[d].via # j
    BY DEF RowsAreHeld, Exhausted, Joined, JoinedBy
  <2>1. reg'[e] = reg[e] /\ j # i
    BY <1>4 DEF InviteHeld, At
  <2>2. /\ invite[j].status = "active" /\ ~Exhausted(j)
        /\ reg[e].row.count > 0
        /\ reg[e].row.uses \subseteq Joined(j) \cup {reg[e].who}
        /\ \A d \in Caller \ {e} : reg[d].pc = "commit" => reg[d].via # j
    BY <2>1 DEF IInv, RowsAreHeld
  <2>3. invite'[j] = invite[j] /\ Joined(j)' = Joined(j)
    BY <1>3, <2>1 DEF Joined, JoinedBy
  <2> QED
    BY <1>4, <2>1, <2>2, <2>3 DEF Exhausted
<1>9. OneAccountEach' /\ SingleUse' /\ UsesAreMembers'
  <2>1. \A j \in Invite : JoinedBy(j)' = JoinedBy(j)
    BY DEF JoinedBy
  <2> QED
    BY <1>3, <2>1 DEF IInv, OneAccountEach, SingleUse, UsesAreMembers
<1> QED
  BY <1>5, <1>6, <1>7, <1>8, <1>9 DEF IInv

LEMMA MarkExpiredKeeps == ASSUME IInv, NEW c \in Caller, MarkExpired(c) PROVE IInv'
<1>1. reg[c].via \in Invite /\ TypeOK
  BY DEF MarkExpired, At, IInv, FromInvites
<1>2. reg' \in [Caller -> Reg] /\ \A d \in Caller : reg'[d] \in {reg[d], Idle}
  BY <1>1, RollbackFacts DEF MarkExpired, Others
<1>3. "expired" \in Status \ {"active"}
  BY DEF Status
<1> QED
  BY <1>1, <1>2, <1>3, MarkKeeps DEF MarkExpired, IInv, TypeOK

LEMMA AdminKeeps ==
    ASSUME IInv, NEW h \in Admin,
           AdminWrite(h) \/ \E i \in Invite, kind \in {"revoke", "delete"} : AdminRead(h, i, kind)
    PROVE  IInv'
<1>1. CASE AdminWrite(h)
  <2>1. admin[h].on \in Invite /\ admin' \in [Admin -> {Idle} \cup [pc : {"revoke", "delete"}, on : Invite]]
    BY <1>1 DEF AdminWrite, IInv, TypeOK
  <2>2. "revoked" \in Status \ {"active"}
    BY DEF Status
  <2> QED
    BY <1>1, <2>1, <2>2, MarkKeeps DEF AdminWrite, IInv, TypeOK
<1>2. CASE \E i \in Invite, kind \in {"revoke", "delete"} : AdminRead(h, i, kind)
  <2>1. /\ UNCHANGED <<invite, member, upstream, late, reg>>
        /\ admin' \in [Admin -> {Idle} \cup [pc : {"revoke", "delete"}, on : Invite]]
    BY <1>2 DEF AdminRead, IInv, TypeOK
  <2> QED
    BY <2>1 DEF IInv, TypeOK, FromInvites, NumbersAreHeld, Holding, Members, ReadsAreMembers,
                RowsAreHeld, Exhausted, Joined, JoinedBy, OneAccountEach, SingleUse, UsesAreMembers
<1> QED
  BY <1>1, <1>2

LEMMA CommitKeeps == ASSUME IInv, NEW c \in Caller, Commit(c) PROVE IInv'
<1>0. reg[c] # Idle /\ TypeOK /\ reg[c].row \in Row
  BY Fields DEF Commit, At, Idle, IInv
<1>2. PICK p \in Person, v \in Code : p = reg[c].who /\ v = reg[c].via
  BY <1>0, Fields
<1> DEFINE m == [who |-> p, via |-> v]
<1>1. /\ TypeOK /\ reg[c].pc = "commit" /\ Holding(c)
      /\ member' = member \cup {m}
      /\ invite' = IF v \in Invite THEN [invite EXCEPT ![v] = reg[c].row] ELSE invite
      /\ UNCHANGED <<upstream, late, admin>>
  BY <1>0, <1>2 DEF Commit, At, Holding
<1>3. reg' \in [Caller -> Reg] /\ Others(c) /\ reg'[c].pc = "idle"
  BY <1>1, RollbackFacts DEF Commit
<1>4. p \notin Members /\ \A d \in Caller \ {c} : Holding(d) => reg[d].who # p
  BY <1>1, <1>2 DEF IInv, NumbersAreHeld
<1>5. /\ \A i \in Invite : i # v => invite'[i] = invite[i] /\ JoinedBy(i)' = JoinedBy(i)
      /\ v \in Invite => invite'[v] = reg[c].row
      /\ JoinedBy(v)' = JoinedBy(v) \cup {m}
      /\ \A i \in Invite : Joined(i) \subseteq Joined(i)'
      /\ p \in Joined(v)'
  <2>1. m.via = v /\ m.who = p
    OBVIOUS
  <2> HIDE DEF m
  <2>2. \A i \in Code : JoinedBy(i)' = IF i = v THEN JoinedBy(i) \cup {m} ELSE JoinedBy(i)
    BY <1>1, <2>1 DEF JoinedBy
  <2>3. /\ \A i \in Invite : i # v => invite'[i] = invite[i]
        /\ v \in Invite => invite'[v] = reg[c].row
    BY <1>1 DEF TypeOK
  <2>4. \A i \in Code : JoinedBy(i) \subseteq JoinedBy(i)'
    BY <2>2
  <2>5. \A i \in Code : Joined(i) \subseteq Joined(i)'
    BY <2>4 DEF Joined
  <2>6. p \in Joined(v)'
    BY <1>2, <2>1, <2>2 DEF Joined
  <2> QED
    BY <1>2, <2>2, <2>3, <2>5, <2>6 DEF Code
<1>6. v \in Invite => /\ invite[v].status = "active" /\ ~Exhausted(v) /\ reg[c].row.count > 0
                      /\ reg[c].row.uses \subseteq Joined(v) \cup {p}
                      /\ \A d \in Caller \ {c} : reg[d].pc = "commit" => reg[d].via # v
  BY <1>1, <1>2 DEF IInv, RowsAreHeld
<1>7. TypeOK'
  BY <1>0, <1>1, <1>3 DEF TypeOK
<1>8. FromInvites'
  BY <1>3 DEF IInv, FromInvites, Others
<1>9. NumbersAreHeld'
  <2>1. \A q \in Members' : q \in Members \/ q = p
    BY <1>1 DEF Members
  <2> QED
    BY <1>3, <1>4, <2>1 DEF IInv, NumbersAreHeld, Holding, Others
<1>10. ReadsAreMembers'
  BY <1>3, <1>5 DEF IInv, FromInvites, ReadsAreMembers, Others
<1>11. RowsAreHeld'
  <2> SUFFICES ASSUME NEW e \in Caller, NEW j \in Invite, reg'[e].pc = "commit", reg'[e].via = j
               PROVE  /\ invite'[j].status = "active" /\ ~Exhausted(j)'
                      /\ reg'[e].row.count > 0
                      /\ reg'[e].row.uses \subseteq Joined(j)' \cup {reg'[e].who}
                      /\ \A d \in Caller \ {e} : reg'[d].pc = "commit" => reg'[d].via # j
    BY DEF RowsAreHeld, Exhausted, Joined, JoinedBy
  <2>1. e # c /\ reg'[e] = reg[e] /\ j # v
    BY <1>3, <1>6 DEF Others
  <2>2. /\ invite[j].status = "active" /\ ~Exhausted(j)
        /\ reg[e].row.count > 0
        /\ reg[e].row.uses \subseteq Joined(j) \cup {reg[e].who}
        /\ \A d \in Caller \ {e} : reg[d].pc = "commit" => reg[d].via # j
    BY <2>1 DEF IInv, RowsAreHeld
  <2>3. invite'[j] = invite[j] /\ Joined(j) \subseteq Joined(j)'
    BY <1>5, <2>1
  <2> QED
    BY <1>3, <2>1, <2>2, <2>3 DEF Exhausted, Others
<1>12. OneAccountEach'
  BY <1>1, <1>4 DEF IInv, OneAccountEach, Members
<1>13. UsesAreMembers'
  <2> SUFFICES ASSUME NEW i \in Invite
               PROVE  /\ invite'[i].count > 0 <=> JoinedBy(i)' # {}
                      /\ invite'[i].uses \subseteq Joined(i)'
    BY DEF UsesAreMembers, Joined
  <2>1. CASE i = v
    <3>1. (invite'[i].count > 0) /\ (JoinedBy(i)' # {})
      BY <1>5, <1>6, <2>1
    <3>2. invite'[i].uses \subseteq Joined(i)'
      BY <1>5, <1>6, <2>1
    <3> QED
      BY <3>1, <3>2
  <2>2. CASE i # v
    BY <1>5, <2>2 DEF IInv, UsesAreMembers, Joined
  <2> QED
    BY <2>1, <2>2
<1>14. SingleUse'
  <2> SUFFICES ASSUME NEW i \in Invite, MaxUses[i] = 1
               PROVE  Cardinality(JoinedBy(i)') <= 1
    BY DEF SingleUse
  <2>1. CASE i = v
    <3>1. ~(invite[i].count > 0)
      BY <1>1, <1>6, <2>1 DEF Exhausted, TypeOK, Row
    <3>2. JoinedBy(i) = {}
      BY <3>1 DEF IInv, UsesAreMembers
    <3>3. JoinedBy(i)' = {m}
      BY <1>5, <2>1, <3>2
    <3>4. Cardinality({m}) = 1
      BY FS_Singleton
    <3> HIDE DEF m
    <3> QED
      BY <3>3, <3>4
  <2>2. CASE i # v
    BY <1>5, <2>2 DEF IInv, SingleUse
  <2> QED
    BY <2>1, <2>2
<1> QED
  BY <1>7, <1>8, <1>9, <1>10, <1>11, <1>12, <1>13, <1>14 DEF IInv

LEMMA InitInvariant == Init => IInv
<1> SUFFICES ASSUME Init PROVE IInv
  OBVIOUS
<1>1. TypeOK
  BY DEF Init, TypeOK, Row, Status, Fresh, Reg, Idle
<1>2. FromInvites /\ NumbersAreHeld /\ ReadsAreMembers /\ RowsAreHeld
  BY DEF Init, FromInvites, NumbersAreHeld, Holding, ReadsAreMembers, RowsAreHeld, Idle
<1>3. \A i \in Invite : JoinedBy(i) = {}
  BY DEF Init, JoinedBy
<1>4. OneAccountEach /\ SingleUse /\ UsesAreMembers
  BY <1>3, FS_EmptySet DEF Init, OneAccountEach, SingleUse, UsesAreMembers, Fresh
<1> QED
  BY <1>1, <1>2, <1>4 DEF IInv

LEMMA NextInvariant == IInv /\ [Next]_vars => IInv'
<1> SUFFICES ASSUME IInv, [Next]_vars PROVE IInv'
  OBVIOUS
<1>1. ASSUME NEW c \in Caller, Step(c) \/ Abort(c) \/ \E p \in Person, v \in Code : Begin(c, p, v)
      PROVE  IInv'
  BY <1>1, BeginKeeps, OpenKeeps, CreateKeeps, ConsumeKeeps, MarkExpiredKeeps, WriteKeeps,
     CommitKeeps, RollbackKeeps DEF Step, Abort
<1>2. CASE \/ \E v \in Watched : ToggleUpstream(v)
           \/ \E i \in Expiring : Expire(i)
           \/ UNCHANGED vars
  <2>1. UNCHANGED <<invite, member, reg, admin>> /\ upstream' \subseteq Code /\ late' \subseteq Invite
    BY <1>2, RegistrationAssumption DEF ToggleUpstream, Expire, vars, IInv, TypeOK, Code
  <2> QED
    BY SMTT(30), <2>1 DEF IInv, TypeOK, FromInvites, NumbersAreHeld, Holding, Members, ReadsAreMembers,
                RowsAreHeld, Exhausted, Joined, JoinedBy, OneAccountEach, SingleUse, UsesAreMembers
<1> QED
  BY <1>1, <1>2, AdminKeeps DEF Next
-----------------------------------------------------------------------------
(* What is known in every state: a registration that has inserted its user *)
(* has the number to itself, what it read of an invite did happen, and the *)
(* invite it updated stays open and locked until it commits (register,     *)
(* registerOps and consumeInvite).                                         *)
THEOREM RegistrationInvariant == Spec => []IInv
<1> QED
  BY InitInvariant, NextInvariant, PTL DEF Spec

(* For any number of registrations, no two accounts have one mobile number *)
(* (the unique index and authController.ts register).                      *)
THEOREM AccountsAreUnique == Spec => []OneAccountEach
<1>1. IInv => OneAccountEach
  BY DEF IInv
<1> QED
  BY <1>1, RegistrationInvariant, PTL

(* For any number of registrations, an invite for one use admits at most   *)
(* one member (consumeInvite).                                             *)
THEOREM OneUseAdmitsOne == Spec => []SingleUse
<1>1. IInv => SingleUse
  BY DEF IInv
<1> QED
  BY <1>1, RegistrationInvariant, PTL

(* For any number of registrations, an invite counts a use exactly when    *)
(* somebody joined by it, and lists nobody who did not (consumeInvite and  *)
(* the transaction around it).                                             *)
THEOREM UsesAreReal == Spec => []UsesAreMembers
<1>1. IInv => UsesAreMembers
  BY DEF IInv
<1> QED
  BY <1>1, RegistrationInvariant, PTL

(* For any number of registrations, an invite that is used up, revoked or  *)
(* expired stays so and admits nobody, a write in flight included          *)
(* (consumeInvite, revokeInvite).                                          *)
THEOREM ClosedIsFinal == Spec => ClosedStaysClosed
<1> DEFINE A == \A i \in Invite : invite[i].status # "active" =>
                    invite'[i].status # "active" /\ JoinedBy(i)' = JoinedBy(i)
<1>1. ASSUME IInv, [Next]_vars PROVE A
  <2>1. CASE UNCHANGED <<invite, member>>
    BY <2>1 DEF JoinedBy
  <2>2. ASSUME NEW i \in Invite, NEW s \in Status \ {"active"}, member' = member,
               invite' = [invite EXCEPT ![i].status = s]
        PROVE  A
    <3>1. \A j \in Invite : invite'[j] = invite[j] \/ invite'[j] = [invite[i] EXCEPT !.status = s]
      BY <1>1, <2>2 DEF IInv, TypeOK
    <3>2. invite[i] \in Row
      BY <1>1 DEF IInv, TypeOK
    <3>3. [invite[i] EXCEPT !.status = s].status = s
      BY <3>2 DEF Row
    <3> QED
      BY <2>2, <3>1, <3>3 DEF JoinedBy
  <2>3. ASSUME NEW c \in Caller, Commit(c) PROVE A
    <3>1. reg[c].via \in Invite => invite[reg[c].via].status = "active"
      BY <1>1, <2>3 DEF Commit, At, IInv, RowsAreHeld
    <3> QED
      BY <1>1, <2>3, <3>1 DEF Commit, JoinedBy, IInv, TypeOK
  <2>4. ASSUME NEW c \in Caller, MarkExpired(c) PROVE A
    <3>1. reg[c].via \in Invite
      BY <1>1, <2>4 DEF MarkExpired, At, IInv, FromInvites
    <3>2. "expired" \in Status \ {"active"}
      BY DEF Status
    <3> QED
      BY <2>2, <2>4, <3>1, <3>2 DEF MarkExpired
  <2>5. ASSUME NEW h \in Admin, AdminWrite(h) PROVE A
    <3>1. admin[h].on \in Invite
      BY <1>1, <2>5 DEF AdminWrite, IInv, TypeOK
    <3>2. "revoked" \in Status \ {"active"}
      BY DEF Status
    <3> QED
      BY <2>2, <2>5, <3>1, <3>2 DEF AdminWrite
  <2>6. \/ UNCHANGED <<invite, member>>
        \/ \E c \in Caller : Commit(c) \/ MarkExpired(c)
        \/ \E h \in Admin : AdminWrite(h)
    BY <1>1 DEF Next, Step, vars, Begin, Open, Create, Consume, Write, Abort, AdminRead,
                ToggleUpstream, Expire
  <2> QED
    BY <2>1, <2>3, <2>4, <2>5, <2>6
<1> QED
  BY <1>1, RegistrationInvariant, PTL DEF Spec, ClosedStaysClosed
=============================================================================
