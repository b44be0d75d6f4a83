-------------------------- MODULE Receiver_proofs --------------------------
(***************************************************************************)
(* Proofs about Receiver: the active adapters follow the reservations.     *)
(*                                                                         *)
(* An operation first changes the database (Effect of FeSubscribe_proofs), *)
(* then the map of adapters.  The database part is summarised by the users *)
(* of each frontend (Moved): only the frontend of the subscription itself  *)
(* changes.  The second part is shown to make the same change to the map,  *)
(* for which every entry must stand for a reservation (Backed), unless its *)
(* subscription is over or about to be undone.                             *)
(***************************************************************************)
EXTENDS Receiver, FeSubscribe_proofs

UsersIn(db, p, f) == {id \in SubId : db[f].owner = p /\ holds(db[f], id)}

\* Subscription id of process p has reserved a service on frontend f.
Needs(db, p, f, id) ==
  /\ db[f].owner = p
  /\ \E i \in DOMAIN db[f].subs : /\ db[f].subs[i].subscription_id = id
                                  /\ db[f].subs[i].service # NoService

-----------------------------------------------------------------------------
(* The users of the frontends.                                             *)

\* Leaving removes no entry but the one of the subscription.
LEMMA HelperKeeps ==
  ASSUME NEW r \in SubType, NEW id \in SubId, holds(r, id),
         \A i, j \in DOMAIN r.subs :
            r.subs[i].subscription_id = r.subs[j].subscription_id => i = j,
         NEW k \in DOMAIN r.subs, r.subs[k].subscription_id # id
  PROVE  LET q == unsubscribe_helper(r, id) IN
         \E i \in DOMAIN q.subs : q.subs[i] = r.subs[k]
<1> DEFINE q == unsubscribe_helper(r, id)
           e == entry_index(r.subs, id)
           left == erase(r.subs, e)
<1>1. r.subs \in Seq(EntryType)
  BY DEF SubType, EntryType
<1>2. PICK i \in DOMAIN r.subs : r.subs[i].subscription_id = id
  BY DEF holds
<1>3. /\ i \in 1..Len(r.subs) /\ k \in 1..Len(r.subs) /\ Len(r.subs) \in Nat
      /\ DOMAIN r.subs = 1..Len(r.subs)
  BY <1>1, <1>2, LenProperties
<1>4. \A j \in 1..(i-1) : r.subs[j].subscription_id # id
  BY <1>2, <1>3
<1>5. e = i
  <2>1. e \in DOMAIN r.subs /\ r.subs[e].subscription_id = id
    BY <1>2, <1>4 DEF entry_index
  <2> QED BY <2>1, <1>2
<1>6. /\ left \in Seq(EntryType) /\ Len(left) = Len(r.subs) - 1
      /\ \A j \in DOMAIN left : left[j] = r.subs[IF j < i THEN j ELSE j + 1]
  BY <1>1, <1>2, <1>5, EraseProperties
<1>7. DOMAIN left = 1..(Len(r.subs) - 1)
  BY <1>6, LenProperties
<1>8. q = IF left = <<>> THEN NoSub ELSE [r EXCEPT !.subs = left]
  BY DEF unsubscribe_helper
<1> HIDE DEF left, e, q
<1> DEFINE j == IF k < i THEN k ELSE k - 1
<1>9. k # i
  BY <1>2
<1>10. j \in DOMAIN left /\ (IF j < i THEN j ELSE j + 1) = k
  BY <1>3, <1>7, <1>9
<1>11. left[j] = r.subs[k]
  BY <1>6, <1>10
<1>12. left # <<>>
  BY <1>10
<1>13. q.subs = left
  BY <1>8, <1>12 DEF SubType
<1> HIDE DEF j
<1> QED BY <1>10, <1>11, <1>13 DEF q

\* What leaving means for the users of the frontends.
LEMMA LeaveUsers ==
  ASSUME StateOK, NEW p \in Proc, NEW id \in SubId,
         NEW old \in fe_for_subscription(p, id)
  PROVE  LET db == unsubscribed(old, id) IN
         \A f \in Fe :
            /\ UsersIn(db, p, f) = UsersIn(sub, p, f) \ {id}
            /\ \A j : Needs(db, p, f, j) => j # id /\ Needs(sub, p, f, j)
            /\ id \in UsersIn(sub, p, f) <=> f = old
<1> DEFINE db == unsubscribed(old, id)
<1> SUFFICES ASSUME NEW f \in Fe
             PROVE  /\ UsersIn(db, p, f) = UsersIn(sub, p, f) \ {id}
                    /\ \A j : Needs(db, p, f, j) => j # id /\ Needs(sub, p, f, j)
                    /\ id \in UsersIn(sub, p, f) <=> f = old
  OBVIOUS
<1>0. /\ sub \in [Fe -> SubType] /\ Unique(sub) /\ p # None
      /\ NoFe \notin Fe /\ IInv(sub, status)
  BY RequestAssumption DEF StateOK, IInv, NoFe, Fe
<1>1. NoSub.owner = None /\ NoSub.subs = <<>> /\ DOMAIN <<>> = {}
  BY DEF NoSub
<1>2. /\ db[f] = NoSub \/ SameTuning(db[f], sub[f])
      /\ \A i \in DOMAIN db[f].subs :
            \E k \in DOMAIN sub[f].subs : db[f].subs[i] = sub[f].subs[k]
      /\ sub[f].owner # p => db[f] = sub[f]
  BY LeaveKeeps
<1>3. Absent(db, p, id)
  BY <1>0, LeaveOK
<1>4. db[f].owner = p => sub[f].owner = p
  BY <1>0, <1>1, <1>2 DEF SameTuning
<1>5. id \in UsersIn(sub, p, f) <=> f = old
  <2>1. ASSUME id \in UsersIn(sub, p, f)
        PROVE  f = old
    <3>1. sub[f].owner = p /\ holds(sub[f], id)
      BY <2>1 DEF UsersIn
    <3>2. old \in Fe /\ sub[old].owner = p /\ holds(sub[old], id)
      BY <3>1 DEF fe_for_subscription
    <3> QED BY <1>0, <3>1, <3>2 DEF Unique, holds
  <2>2. ASSUME f = old
        PROVE  id \in UsersIn(sub, p, f)
    BY <1>0, <2>2 DEF fe_for_subscription, UsersIn
  <2> QED BY <2>1, <2>2
<1>6. ASSUME NEW j \in UsersIn(db, p, f)
      PROVE  j \in UsersIn(sub, p, f) /\ j # id
  <2>1. j \in SubId /\ db[f].owner = p
    BY DEF UsersIn
  <2>2. PICK i \in DOMAIN db[f].subs : db[f].subs[i].subscription_id = j
    BY DEF UsersIn, holds
  <2>3. PICK k \in DOMAIN sub[f].subs : db[f].subs[i] = sub[f].subs[k]
    BY <1>2
  <2>4. j # id
    BY <1>3, <2>1, <2>2 DEF Absent
  <2>5. sub[f].subs[k].subscription_id = j
    BY <2>2, <2>3
  <2> HIDE DEF db
  <2> QED BY <1>4, <2>1, <2>4, <2>5 DEF UsersIn, holds
<1>7. ASSUME NEW j \in UsersIn(sub, p, f), j # id
      PROVE  j \in UsersIn(db, p, f)
  <2>1. j \in SubId /\ sub[f].owner = p /\ holds(sub[f], j)
    BY DEF UsersIn
  <2>2. CASE f # old
    <3>1. db[f] = sub[f]
      BY <1>0, <2>2 DEF unsubscribed
    <3> QED BY <2>1, <3>1 DEF UsersIn
  <2>3. CASE f = old
    <3>1. holds(sub[f], id) /\ sub[f] \in SubType
      BY <1>0, <1>5, <2>3 DEF UsersIn
    <3>2. \A i, k \in DOMAIN sub[f].subs :
             sub[f].subs[i].subscription_id = sub[f].subs[k].subscription_id => i = k
      BY <1>0 DEF Unique
    <3>3. db[f] = unsubscribe_helper(sub[f], id)
      BY <1>0, <2>3 DEF unsubscribed
    <3>4. PICK k \in DOMAIN sub[f].subs : sub[f].subs[k].subscription_id = j
      BY <2>1 DEF holds
    <3>5. \E i \in DOMAIN unsubscribe_helper(sub[f], id).subs :
             unsubscribe_helper(sub[f], id).subs[i] = sub[f].subs[k]
      BY <1>7, <3>1, <3>2, <3>4, HelperKeeps
    <3> HIDE DEF db
    <3>6. PICK i \in DOMAIN db[f].subs : db[f].subs[i] = sub[f].subs[k]
      BY <3>3, <3>5
    <3>7. holds(db[f], j)
      BY <3>4, <3>6 DEF holds
    <3>8. db[f] # NoSub
      BY <1>1, <3>6
    <3>9. db[f].owner = p
      BY <1>2, <2>1, <3>8 DEF SameTuning
    <3> QED BY <2>1, <3>7, <3>9 DEF UsersIn
  <2> QED BY <2>2, <2>3
<1>8. ASSUME NEW j, Needs(db, p, f, j)
      PROVE  j # id /\ Needs(sub, p, f, j)
  <2>1. PICK i \in DOMAIN db[f].subs : /\ db[f].subs[i].subscription_id = j
                                       /\ db[f].subs[i].service # NoService
    BY <1>8 DEF Needs
  <2>2. PICK k \in DOMAIN sub[f].subs : db[f].subs[i] = sub[f].subs[k]
    BY <1>2
  <2>3. db[f].owner = p
    BY <1>8 DEF Needs
  <2>4. j # id
    BY <1>3, <2>1, <2>3 DEF Absent
  <2> HIDE DEF db
  <2> QED BY <1>4, <2>1, <2>2, <2>3, <2>4 DEF Needs
<1> HIDE DEF db
<1>9. UsersIn(db, p, f) = UsersIn(sub, p, f) \ {id}
  BY <1>6, <1>7
<1> QED BY <1>5, <1>8, <1>9

\* Record rec, with the entry e more, is written to frontend f.
PutEntry(db, new, p, f, rec, e) ==
  /\ rec.owner = p /\ rec.subs = Append(db[f].subs, e) /\ (db[f].owner = p \/ db[f] = NoSub)
  /\ new[f] = rec /\ \A g \in Fe : g # f => new[g] = db[g]

AddsUser(db, new, p, id, f, service) ==
  \A g \in Fe :
     /\ UsersIn(new, p, g) = UsersIn(db, p, g) \cup (IF g = f THEN {id} ELSE {})
     /\ \A j : Needs(new, p, g, j) =>
           Needs(db, p, g, j) \/ (g = f /\ j = id /\ service # NoService)

\* What writing a record with one more entry means for the users.
LEMMA PutUsers ==
  ASSUME NEW db \in [Fe -> SubType], NEW p \in Proc, NEW id \in SubId, NEW f \in Fe,
         NEW rec \in SubType, NEW e \in EntryType, e.subscription_id = id,
         NEW new, PutEntry(db, new, p, f, rec, e)
  PROVE  AddsUser(db, new, p, id, f, e.service)
<1>0. /\ rec.owner = p /\ rec.subs = Append(db[f].subs, e)
      /\ db[f].owner = p \/ db[f] = NoSub
      /\ new[f] = rec /\ \A g \in Fe : g # f => new[g] = db[g]
  BY DEF PutEntry
<1> SUFFICES ASSUME NEW g \in Fe
             PROVE  /\ UsersIn(new, p, g) = UsersIn(db, p, g) \cup (IF g = f THEN {id} ELSE {})
                    /\ \A j : Needs(new, p, g, j) =>
                         Needs(db, p, g, j) \/ (g = f /\ j = id /\ e.service # NoService)
  BY DEF AddsUser
<1>1. CASE g # f
  <2>1. new[g] = db[g]
    BY <1>0, <1>1
  <2> QED BY <1>1, <2>1 DEF UsersIn, Needs
<1>2. CASE g = f
  <2> DEFINE q == db[f].subs
  <2>1. q \in Seq(EntryType)
    BY DEF SubType, EntryType
  <2>2. /\ Len(q) \in Nat /\ DOMAIN q = 1..Len(q) /\ DOMAIN Append(q, e) = 1..(Len(q) + 1)
        /\ \A j \in DOMAIN q : Append(q, e)[j] = q[j]
        /\ Append(q, e)[Len(q) + 1] = e
    BY <2>1, AppendEntry
  <2>3. rec.subs = Append(q, e)
    BY <1>0
  <2> HIDE DEF q
  <2>4. /\ Len(q) + 1 \in DOMAIN rec.subs /\ rec.subs[Len(q) + 1] = e
        /\ \A j \in DOMAIN q : j \in DOMAIN rec.subs /\ rec.subs[j] = q[j]
        /\ \A j \in DOMAIN rec.subs : j \in DOMAIN q \/ rec.subs[j] = e
    BY <2>2, <2>3
  <2>5. ASSUME NEW j \in DOMAIN q
        PROVE  db[f].owner = p
    BY <1>0 DEF q, NoSub
  <2>6. \A j : holds(rec, j) <=> holds(db[f], j) \/ j = id
    BY <2>4 DEF holds, q
  <2>7. \A j : holds(db[f], j) => db[f].owner = p
    BY <2>5 DEF holds, q
  <2>8. UsersIn(new, p, f) = UsersIn(db, p, f) \cup {id}
    BY <1>0, <2>6, <2>7 DEF UsersIn
  <2>9. ASSUME NEW j, Needs(new, p, f, j)
        PROVE  Needs(db, p, f, j) \/ (j = id /\ e.service # NoService)
    <3>1. PICK i \in DOMAIN rec.subs : /\ rec.subs[i].subscription_id = j
                                       /\ rec.subs[i].service # NoService
      BY <1>0, <2>9 DEF Needs
    <3>2. CASE rec.subs[i] = e
      BY <3>1, <3>2
    <3>3. CASE i \in DOMAIN q
      <4>1. rec.subs[i] = q[i] /\ db[f].owner = p
        BY <2>4, <2>5, <3>3
      <4> QED BY <3>1, <3>3, <4>1 DEF Needs, q
    <3> QED BY <2>4, <3>2, <3>3
  <2> QED BY <1>2, <2>8, <2>9
<1> QED BY <1>1, <1>2

-----------------------------------------------------------------------------
(* What an operation does to the users of the frontends.                   *)

\* Subscription id has moved to home, or to no frontend, and nobody else moved.
Moved(new, p, id, home, service) ==
  \A f \in Fe :
     /\ UsersIn(new, p, f) =
          (UsersIn(sub, p, f) \ {id}) \cup (IF f = home THEN {id} ELSE {})
     /\ \A j : Needs(new, p, f, j) =>
          \/ j # id /\ Needs(sub, p, f, j)
          \/ j = id /\ f = home /\ service # NoService

\* The result names the frontend that was left and one that can be shared, or
\* one without other users.
RetFits(p, id, old, ret_old, home, reuse) ==
  /\ ret_old = old \/ (ret_old = NoFe /\ old = home)
  /\ \/ reuse \in UsersIn(sub, p, home)
     \/ reuse = None /\ UsersIn(sub, p, home) \subseteq {id}

Returned(ret, ret_old, home, reuse) == ret = Ret(FALSE, ret_old, home, reuse)

Succeeds(p, id, old, service, out, home, ret_old, reuse) ==
  /\ Returned(out.ret, ret_old, home, reuse)
  /\ RetFits(p, id, old, ret_old, home, reuse)
  /\ Moved(out.sub, p, id, home, service)

Outcomes3(p, id, old, service, out) ==
  \/ out.sub = sub /\ out.ret = Failed(NoFe)
  \/ out.ret = Failed(old) /\ Moved(out.sub, p, id, NoFe, service)
  \/ \E home \in Fe : \E ret_old, reuse :
        Succeeds(p, id, old, service, out, home, ret_old, reuse)

\* Every operation that does not abort moves its subscription, and its result
\* says so.
LEMMA EffectMoves ==
  ASSUME StateOK, ~UnknownNetwork, NEW p \in Proc, NEW id \in SubId,
         NEW old \in fe_for_subscription(p, id), NEW service, NEW out,
         Effect(p, id, old, service, out), out.failed_assert = NoFailure
  PROVE  Outcomes3(p, id, old, service, out)
<1> DEFINE db == unsubscribed(old, id)
<1>0. /\ NoFe \notin Fe /\ p # None /\ sub \in [Fe -> SubType] /\ db \in [Fe -> SubType]
  BY LeaveOK, RequestAssumption DEF StateOK, IInv, NoFe, Fe
<1>1. \A f \in Fe : /\ UsersIn(db, p, f) = UsersIn(sub, p, f) \ {id}
                    /\ \A j : Needs(db, p, f, j) => j # id /\ Needs(sub, p, f, j)
                    /\ id \in UsersIn(sub, p, f) <=> f = old
  BY LeaveUsers
<1>2. \A f \in Fe : db[f] = NoSub \/ SameTuning(db[f], sub[f])
  BY LeaveKeeps
<1> HIDE DEF db
<1>3. ASSUME NEW f \in Fe, NEW rec \in SubType, NEW e \in EntryType,
             e.subscription_id = id, e.service = service,
             PutEntry(db, out.sub, p, f, rec, e)
      PROVE  Moved(out.sub, p, id, f, service)
  <2> SUFFICES ASSUME NEW g \in Fe
               PROVE  /\ UsersIn(out.sub, p, g) =
                          (UsersIn(sub, p, g) \ {id}) \cup (IF g = f THEN {id} ELSE {})
                      /\ \A j : Needs(out.sub, p, g, j) =>
                           \/ j # id /\ Needs(sub, p, g, j)
                           \/ j = id /\ g = f /\ service # NoService
    BY DEF Moved
  <2>1. AddsUser(db, out.sub, p, id, f, e.service)
    BY <1>0, <1>3, PutUsers
  <2> QED BY <1>1, <1>3, <2>1 DEF AddsUser
<1>4. CASE Unchanged(id, old, service, out)
  <2>1. CASE out.ret = Failed(NoFe)
    BY <1>4, <2>1 DEF Unchanged, Outcomes3
  <2>2. CASE old # NoFe /\ service # NoService /\ out.ret = Ret(FALSE, old, old, id)
    <3>1. out.sub = sub /\ old \in Fe
      BY <1>4, <2>2 DEF Unchanged, fe_for_subscription
    <3>2. \A f \in Fe : \A j : Needs(sub, p, f, j) => j # id \/ f = old
      <4> SUFFICES ASSUME NEW f \in Fe, Needs(sub, p, f, id)
                   PROVE  f = old
        OBVIOUS
      <4>1. id \in UsersIn(sub, p, f)
        BY DEF Needs, UsersIn, holds
      <4> QED BY <1>1, <4>1
    <3>3. \A f \in Fe : UsersIn(sub, p, f) =
             (UsersIn(sub, p, f) \ {id}) \cup (IF f = old THEN {id} ELSE {})
      BY <1>1
    <3>4. Moved(sub, p, id, old, service)
      BY <2>2, <3>2, <3>3 DEF Moved
    <3>5. Succeeds(p, id, old, service, out, old, old, id)
      BY <1>1, <2>2, <3>1, <3>4 DEF Succeeds, RetFits, Returned
    <3> QED BY <3>1, <3>5 DEF Outcomes3
  <2> QED BY <1>4, <2>1, <2>2 DEF Unchanged
<1>5. CASE Left(id, old, out)
  <2>1. out.sub = db /\ out.ret = Failed(old)
    BY <1>5 DEF Left, db
  <2>2. Moved(db, p, id, NoFe, service)
    BY <1>0, <1>1 DEF Moved
  <2> QED BY <2>1, <2>2 DEF Outcomes3
<1>6. CASE Joined(p, id, old, service, out)
  <2>1p. PICK f \in Fe, e \in EntryType : \E ret_old, reuse :
           JoinedAt(p, id, old, service, out, f, e, ret_old, reuse)
    BY <1>6 DEF Joined
  <2>1. PICK ret_old, reuse :
           JoinedAt(p, id, old, service, out, f, e, ret_old, reuse)
    BY <2>1p
  <2>2. JoinWrites(id, old, out, f, e)
    BY <2>1, JoinForm
  <2>3. /\ out.ret = Ret(FALSE, ret_old, f, reuse) /\ holds(sub[f], reuse)
        /\ ret_old = old \/ (ret_old = NoFe /\ old = f)
        /\ sub[f].owner = p /\ e.subscription_id = id /\ e.service = service
    BY <2>1 DEF JoinedAt
  <2>4. out.sub[f] \in SubType
    <3> DEFINE q == Append(db[f].subs, e)
    <3>1. db[f].subs \in Seq(EntryType) /\ sub[f] \in SubType
      BY <1>0 DEF SubType, EntryType
    <3>2. q \in Seq(EntryType)
      BY <3>1, AppendEntry
    <3> HIDE DEF q
    <3>3. [sub[f] EXCEPT !.subs = q] \in SubType
      BY <3>1, <3>2, UpdateSubs
    <3>4. out.sub = [db EXCEPT ![f] = [sub[f] EXCEPT !.subs = q]]
      BY <2>1 DEF JoinedAt, db, q
    <3> HIDE DEF db
    <3> QED BY <1>0, <3>3, <3>4
  <2>5. out.sub[f].owner = p
    BY <2>2, <2>3 DEF JoinWrites, SameTuning
  <2>6. db[f].owner = p \/ db[f] = NoSub
    BY <1>2, <2>3 DEF SameTuning
  <2>7. Moved(out.sub, p, id, f, service)
    <3>1. out.sub[f].subs = Append(db[f].subs, e) /\ \A g \in Fe : g # f => out.sub[g] = db[g]
      BY <2>2 DEF JoinWrites, db
    <3>2. PutEntry(db, out.sub, p, f, out.sub[f], e)
      BY <2>5, <2>6, <3>1 DEF PutEntry
    <3> QED BY <1>3, <2>3, <2>4, <3>2
  <2>8. reuse \in UsersIn(sub, p, f)
    <3>1. sub[f].subs \in Seq(EntryType)
      BY <1>0 DEF SubType, EntryType
    <3>2. PICK i \in DOMAIN sub[f].subs : sub[f].subs[i].subscription_id = reuse
      BY <2>3 DEF holds
    <3>3. sub[f].subs[i] \in EntryType
      BY <3>1, <3>2
    <3>4. reuse \in SubId
      BY <3>2, <3>3 DEF EntryType
    <3> QED BY <2>3, <3>4 DEF UsersIn
  <2>9. Succeeds(p, id, old, service, out, f, ret_old, reuse)
    BY <2>3, <2>7, <2>8 DEF Succeeds, RetFits, Returned
  <2> QED BY <2>9 DEF Outcomes3
<1>7. CASE ReservedNew(p, id, old, service, out)
  <2>1. PICK f \in Fe, rec \in SubType, e \in EntryType :
           ReservedAt(p, id, old, service, out, f, rec, e)
    BY <1>7 DEF ReservedNew
  <2>2. /\ out.ret = Ret(FALSE, old, f, None) /\ db[f] = NoSub
        /\ out.sub = [db EXCEPT ![f] = rec] /\ rec.owner = p /\ rec.subs = Append(<<>>, e)
        /\ e.subscription_id = id /\ e.service = service
    BY <2>1 DEF ReservedAt, db
  <2>3. out.sub[f] = rec /\ \A g \in Fe : g # f => out.sub[g] = db[g]
    BY <1>0, <2>2
  <2>4. db[f].subs = <<>>
    BY <2>2 DEF NoSub
  <2>5. Moved(out.sub, p, id, f, service)
    <3>1. PutEntry(db, out.sub, p, f, rec, e)
      BY <2>2, <2>3, <2>4 DEF PutEntry
    <3> QED BY <1>3, <2>2, <3>1
  <2>6. UsersIn(sub, p, f) \subseteq {id}
    <3>1. UsersIn(db, p, f) = {}
      BY <1>0, <2>2 DEF UsersIn, NoSub
    <3> QED BY <1>1, <3>1
  <2>7. Succeeds(p, id, old, service, out, f, old, None)
    BY <2>2, <2>5, <2>6 DEF Succeeds, RetFits, Returned
  <2> QED BY <2>7 DEF Outcomes3
<1>8. ~Aborted(p, out)
  BY DEF Aborted
<1> QED BY <1>4, <1>5, <1>6, <1>7, <1>8 DEF Effect

\* A frontend that was left is empty exactly when nobody else used it.
LEMMA LeftOn ==
  ASSUME StateOK, NEW p \in Proc, NEW id \in SubId,
         NEW old \in fe_for_subscription(p, id), old # NoFe
  PROVE  left_on(old, id) = <<>> <=> UsersIn(sub, p, old) \ {id} = {}
<1> DEFINE db == unsubscribed(old, id)
<1>0. old \in Fe /\ sub[old].owner = p /\ db \in [Fe -> SubType] /\ left_on(old, id) = db[old].subs
  BY LeaveOK DEF StateOK, IInv, left_on
<1>1. UsersIn(db, p, old) = UsersIn(sub, p, old) \ {id}
  BY <1>0, LeaveUsers
<1>2. db[old] = NoSub \/ SameTuning(db[old], sub[old])
  BY <1>0, LeaveKeeps
<1> HIDE DEF db
<1>3. db[old].subs \in Seq(EntryType)
  BY <1>0 DEF SubType, EntryType
<1>4. ASSUME db[old].subs = <<>>
      PROVE  UsersIn(db, p, old) = {}
  <2>1. DOMAIN db[old].subs = {}
    BY <1>4
  <2> QED BY <2>1 DEF UsersIn, holds
<1>5. ASSUME db[old].subs # <<>>
      PROVE  UsersIn(db, p, old) # {}
  <2>1. Len(db[old].subs) # 0 /\ Len(db[old].subs) \in Nat
        /\ DOMAIN db[old].subs = 1..Len(db[old].subs)
    BY <1>3, <1>5, EmptySeq, LenProperties
  <2>2. 1 \in DOMAIN db[old].subs
    BY <2>1
  <2>3. db[old].subs[1] \in EntryType
    BY <1>3, <2>2
  <2>4. db[old].subs[1].subscription_id \in SubId
    BY <2>3 DEF EntryType
  <2>5. db[old].owner = p
    BY <1>0, <1>2, <1>5 DEF SameTuning, NoSub
  <2>6. db[old].subs[1].subscription_id \in UsersIn(db, p, old)
    BY <2>2, <2>4, <2>5 DEF UsersIn, holds
  <2> QED BY <2>6
<1> QED BY <1>0, <1>1, <1>4, <1>5

-----------------------------------------------------------------------------
(* The adapters.                                                           *)

MapType     == [SubId -> Fe \cup {NoFe}]
ServiceType == [Fe -> [SubId -> Service \cup {NoService}]]
AdaptersType ==
  [adapter: MapType, tuners: SUBSET Fe, services: ServiceType, failed: {NoFailure}]

Serves(db, p, map) == \A f \in Fe : \A id \in UsersIn(db, p, f) : map[id] = f

Threads(db, p, running) == running = {f \in Fe : UsersIn(db, p, f) # {}}

\* Every entry stands for a reservation, but those of the ids in but.
Backed(db, p, map, but) ==
  \A id \in SubId : map[id] # NoFe /\ id \notin but => id \in UsersIn(db, p, map[id])

\* Everybody but the ids in but has the service that was reserved.
Runs(db, p, run, but) ==
  \A f \in Fe, id \in SubId :
     Needs(db, p, f, id) /\ id \notin but => run[f][id] # NoService

\* Stopping a tuner.
LEMMA StopTuner ==
  ASSUME NEW s \in AdaptersType, NEW f \in Fe
  PROVE  LET r == stop_tuner(s, f) IN
         /\ r \in AdaptersType /\ r.failed = s.failed /\ r.adapter = s.adapter
         /\ r.tuners = s.tuners \ {f}
         /\ \A g \in Fe : g # f => r.services[g] = s.services[g]
<1> DEFINE none == [i \in SubId |-> NoService]
           run  == [s.services EXCEPT ![f] = none]
           r    == [s EXCEPT !.tuners = s.tuners \ {f}, !.services = run]
<1>1. s.services \in ServiceType /\ s.tuners \in SUBSET Fe
  BY DEF AdaptersType
<1>2. none \in [SubId -> Service \cup {NoService}]
  OBVIOUS
<1> HIDE DEF none
<1>3. run \in ServiceType /\ \A g \in Fe : g # f => run[g] = s.services[g]
  BY <1>1, <1>2 DEF ServiceType
<1>4. stop_tuner(s, f) = r
  BY DEF stop_tuner, none
<1> HIDE DEF run
<1>5. /\ r \in AdaptersType /\ r.failed = s.failed /\ r.adapter = s.adapter
      /\ r.tuners = s.tuners \ {f} /\ r.services = run
  BY <1>1, <1>3 DEF AdaptersType
<1> HIDE DEF r
<1> QED BY <1>3, <1>4, <1>5

\* Changing one entry of the map.
LEMMA SetAdapter ==
  ASSUME NEW s \in AdaptersType, NEW id \in SubId, NEW f \in Fe \cup {NoFe}
  PROVE  LET r == [s EXCEPT !.adapter[id] = f] IN
         /\ r \in AdaptersType /\ r.failed = s.failed
         /\ r.adapter = [s.adapter EXCEPT ![id] = f]
         /\ r.tuners = s.tuners /\ r.services = s.services
<1> DEFINE map == [s.adapter EXCEPT ![id] = f]
           r   == [s EXCEPT !.adapter = map]
<1>1. map \in MapType
  BY DEF AdaptersType, MapType
<1> HIDE DEF map
<1>2. /\ r \in AdaptersType /\ r.failed = s.failed /\ r.adapter = map
      /\ r.tuners = s.tuners /\ r.services = s.services
  BY <1>1 DEF AdaptersType
<1> QED BY <1>2 DEF map

Released(s, id, old, left, r) ==
  /\ r \in AdaptersType /\ r.failed = s.failed
  /\ r.adapter = [s.adapter EXCEPT ![id] = NoFe]
  /\ r.tuners = IF left = <<>> THEN s.tuners \ {old} ELSE s.tuners
  /\ \A g \in Fe : (g = old /\ left = <<>>) \/ r.services[g] = s.services[g]

\* Releasing the adapter of a subscription that has one.
LEMMA ReleaseOK ==
  ASSUME NEW s \in AdaptersType, NEW id \in SubId, NEW old \in Fe, s.adapter[id] = old,
         NEW left
  PROVE  Released(s, id, old, left, release_active_adapter(s, id, left))
<1> DEFINE q == IF left = <<>> THEN stop_tuner(s, old) ELSE s
<1>1. /\ q \in AdaptersType /\ q.failed = s.failed /\ q.adapter = s.adapter
      /\ q.tuners = IF left = <<>> THEN s.tuners \ {old} ELSE s.tuners
      /\ \A g \in Fe : (g = old /\ left = <<>>) \/ q.services[g] = s.services[g]
  BY StopTuner
<1>2. release_active_adapter(s, id, left) = [q EXCEPT !.adapter[id] = NoFe]
  BY DEF release_active_adapter, Fe, NoFe
<1> HIDE DEF q
<1> DEFINE r == [q EXCEPT !.adapter[id] = NoFe]
<1>3. /\ r \in AdaptersType /\ r.failed = q.failed
      /\ r.adapter = [q.adapter EXCEPT ![id] = NoFe]
      /\ r.tuners = q.tuners /\ r.services = q.services
  BY <1>1, SetAdapter
<1> HIDE DEF r
<1>4. Released(s, id, old, left, r)
  BY <1>1, <1>3 DEF Released
<1> QED BY <1>2, <1>4 DEF r

\* The adapters of a process that is between two tasks.
LEMMA AdaptersFields ==
  ASSUME NEW p, adapter[p] \in MapType, tuners[p] \in SUBSET Fe, services[p] \in ServiceType
  PROVE  /\ Adapters(p) \in AdaptersType /\ Adapters(p).failed = NoFailure
         /\ Adapters(p).adapter = adapter[p] /\ Adapters(p).tuners = tuners[p]
         /\ Adapters(p).services = services[p]
BY DEF Adapters, AdaptersType

\* The map, the threads and the services fit the database; but: see Backed.
Fits(db, p, s, but, unserved) ==
  /\ s \in AdaptersType /\ s.failed = NoFailure
  /\ Serves(db, p, s.adapter) /\ Threads(db, p, s.tuners)
  /\ Backed(db, p, s.adapter, but) /\ Runs(db, p, s.services, unserved)

\* When the database moves the subscription to home, a map that has home for
\* it, with the threads that go with it, fits again.
LEMMA FitsAgain ==
  ASSUME NEW p, NEW id \in SubId, NEW but, NEW home \in Fe \cup {NoFe}, NEW service,
         NEW s, Fits(sub, p, s, but, {}), NEW new, Moved(new, p, id, home, service),
         NEW r \in AdaptersType, r.failed = NoFailure,
         r.adapter = [s.adapter EXCEPT ![id] = home],
         r.tuners = {f \in Fe : UsersIn(new, p, f) # {}},
         \A f \in Fe : UsersIn(new, p, f) \ {id} = {} \/ r.services[f] = s.services[f]
  PROVE  Fits(new, p, r, but, {id})
<1>0. s \in AdaptersType /\ s.adapter \in MapType /\ NoFe \notin Fe
  BY DEF Fits, AdaptersType, NoFe, Fe
<1>1. r.adapter[id] = home /\ \A j \in SubId : j # id => r.adapter[j] = s.adapter[j]
  BY <1>0 DEF MapType
<1>2. \A f \in Fe, j \in SubId :
         j \in UsersIn(new, p, f) <=> (j # id /\ j \in UsersIn(sub, p, f)) \/ (j = id /\ f = home)
  BY DEF Moved
<1>3. Serves(new, p, r.adapter)
  <2>1. \A f \in Fe : UsersIn(new, p, f) \subseteq SubId
    BY DEF UsersIn
  <2> QED BY <1>1, <1>2, <2>1 DEF Serves, Fits
<1>4. Backed(new, p, r.adapter, but)
  <2> SUFFICES ASSUME NEW j \in SubId, r.adapter[j] # NoFe, j \notin but
               PROVE  j \in UsersIn(new, p, r.adapter[j])
    BY DEF Backed
  <2>1. CASE j = id
    BY <1>1, <1>2, <2>1
  <2>2. CASE j # id
    <3>1. s.adapter[j] \in Fe /\ r.adapter[j] = s.adapter[j]
      BY <1>0, <1>1, <2>2 DEF MapType
    <3>2. j \in UsersIn(sub, p, s.adapter[j])
      BY <1>0, <3>1 DEF Backed, Fits
    <3> QED BY <1>2, <2>2, <3>1, <3>2
  <2> QED BY <2>1, <2>2
<1>5. Runs(new, p, r.services, {id})
  <2> SUFFICES ASSUME NEW f \in Fe, NEW j \in SubId, Needs(new, p, f, j), j # id
               PROVE  r.services[f][j] # NoService
    BY DEF Runs
  <2>1. Needs(sub, p, f, j)
    BY DEF Moved
  <2>2. j \in UsersIn(new, p, f)
    BY DEF Needs, UsersIn, holds
  <2>3. r.services[f] = s.services[f]
    BY <2>2
  <2>4. s.services[f][j] # NoService
    BY <2>1 DEF Fits, Runs
  <2> QED BY <2>3, <2>4
<1> QED BY <1>3, <1>4, <1>5 DEF Fits, Threads

-----------------------------------------------------------------------------
(* From the result of the reservation to the adapter.                      *)

\* The three ways to an adapter: share one, keep one, create one.
FindCase(q, id, home, ret) ==
  \/ ret.reuse \in SubId \ {id} /\ q.adapter[ret.reuse] = home /\ home \in q.tuners
  \/ ret.reuse \in {None, id} /\ q.adapter[id] = home /\ home \in q.tuners
  \/ /\ ret.reuse = None /\ q.adapter[id] = NoFe /\ home \notin q.tuners
     /\ is_new_aa(ret)

Found(q, id, home, r) ==
  /\ r \in AdaptersType /\ r.failed = q.failed
  /\ r.adapter = [q.adapter EXCEPT ![id] = home]
  /\ r.tuners = q.tuners \cup {home} /\ r.services = q.services

\* In each of them the subscription gets the adapter of its frontend.
LEMMA FindOK ==
  ASSUME NEW q \in AdaptersType, NEW id \in SubId, NEW home \in Fe, NEW ret,
         ret.new = home, FindCase(q, id, home, ret)
  PROVE  Found(q, id, home, find_or_create_active_adapter(q, id, ret))
<1> DEFINE r == find_or_create_active_adapter(q, id, ret)
<1>0. home # NoFe /\ None \notin SubId /\ q.adapter \in MapType /\ q.tuners \in SUBSET Fe
  BY RequestAssumption DEF Fe, NoFe, AdaptersType
<1>1. CASE ret.reuse \in SubId \ {id} /\ q.adapter[ret.reuse] = home /\ home \in q.tuners
  <2>1. r = [q EXCEPT !.adapter[id] = home]
    BY <1>0, <1>1 DEF find_or_create_active_adapter
  <2> DEFINE t == [q EXCEPT !.adapter[id] = home]
  <2>2. /\ t \in AdaptersType /\ t.failed = q.failed
        /\ t.adapter = [q.adapter EXCEPT ![id] = home]
        /\ t.tuners = q.tuners /\ t.services = q.services
    BY SetAdapter
  <2> HIDE DEF t
  <2>3. Found(q, id, home, t)
    BY <1>1, <2>2 DEF Found
  <2> QED BY <2>1, <2>3 DEF t
<1>2. CASE ret.reuse \in {None, id} /\ q.adapter[id] = home /\ home \in q.tuners
  <2>1. r = q
    BY <1>0, <1>2 DEF find_or_create_active_adapter
  <2>2. [q.adapter EXCEPT ![id] = home] = q.adapter
    BY <1>0, <1>2 DEF MapType
  <2>3. Found(q, id, home, q)
    BY <1>2, <2>2 DEF Found
  <2> QED BY <2>1, <2>3
<1>3. CASE /\ ret.reuse = None /\ q.adapter[id] = NoFe /\ home \notin q.tuners
           /\ is_new_aa(ret)
  <2> DEFINE t == [q EXCEPT !.adapter[id] = home]
             u == [t EXCEPT !.tuners = t.tuners \cup {home}]
  <2>1. r = [q EXCEPT !.adapter[id] = home, !.tuners = q.tuners \cup {home}]
    BY <1>0, <1>3 DEF find_or_create_active_adapter
  <2>2. /\ t \in AdaptersType /\ t.failed = q.failed
        /\ t.adapter = [q.adapter EXCEPT ![id] = home]
        /\ t.tuners = q.tuners /\ t.services = q.services
    BY SetAdapter
  <2>3. r = u
    BY <2>1, <2>2 DEF AdaptersType
  <2> HIDE DEF t
  <2>4. t.tuners \cup {home} \in SUBSET Fe
    BY <1>0, <2>2
  <2>5. /\ u \in AdaptersType /\ u.failed = t.failed /\ u.adapter = t.adapter
        /\ u.tuners = t.tuners \cup {home} /\ u.services = t.services
    BY <2>2, <2>4 DEF AdaptersType
  <2> HIDE DEF u
  <2>6. Found(q, id, home, u)
    BY <2>2, <2>5 DEF Found
  <2> QED BY <2>3, <2>6
<1> QED BY <1>1, <1>2, <1>3 DEF FindCase

\* A subscription that may act has the adapter of its frontend, or none.
LEMMA AtHome ==
  ASSUME StateOK, NEW p \in Proc, NEW id \in SubId, NEW old \in fe_for_subscription(p, id),
         NEW but, id \notin but, Fits(sub, p, Adapters(p), but, {})
  PROVE  Adapters(p).adapter[id] = old
<1>1. \A f \in Fe : id \in UsersIn(sub, p, f) <=> f = old
  BY LeaveUsers
<1>2. old \in Fe \cup {NoFe} /\ Adapters(p).adapter \in MapType /\ NoFe \notin Fe
  BY DEF fe_for_subscription, Fits, AdaptersType, Fe, NoFe
<1>3. CASE old \in Fe
  BY <1>1, <1>3 DEF Fits, Serves
<1>4. CASE old = NoFe
  <2> SUFFICES ASSUME Adapters(p).adapter[id] # NoFe
               PROVE  FALSE
    BY <1>4
  <2>1. Adapters(p).adapter[id] \in Fe
    BY <1>2 DEF MapType
  <2>2. id \in UsersIn(sub, p, Adapters(p).adapter[id])
    BY DEF Fits, Backed
  <2> QED BY <1>1, <1>2, <1>4, <2>1, <2>2
<1> QED BY <1>2, <1>3, <1>4

\* After a failed operation that has left the old frontend.
LEMMA SubscribeFails ==
  ASSUME StateOK, NEW p \in Proc, NEW id \in SubId, NEW old \in fe_for_subscription(p, id),
         NEW but, Fits(sub, p, Adapters(p), but, {}), Adapters(p).adapter[id] = old,
         NEW service, NEW new, Moved(new, p, id, NoFe, service)
  PROVE  Fits(new, p, receiver_subscribe(p, id, Failed(old)), but, {id})
<1> DEFINE s == Adapters(p)
           r == receiver_subscribe(p, id, Failed(old))
<1>0. /\ s \in AdaptersType /\ s.failed = NoFailure /\ s.adapter \in MapType
      /\ s.tuners = {f \in Fe : UsersIn(sub, p, f) # {}} /\ NoFe \notin Fe
      /\ old \in Fe \cup {NoFe} /\ s.adapter[id] = old
  BY DEF Fits, AdaptersType, Threads, Fe, NoFe, fe_for_subscription
<1>f. Fits(sub, p, s, but, {})
  OBVIOUS
<1>1. \A f \in Fe : id \in UsersIn(sub, p, f) <=> f = old
  BY LeaveUsers
<1>2. \A f \in Fe : UsersIn(new, p, f) = UsersIn(sub, p, f) \ {id}
  BY <1>0 DEF Moved
<1>3. /\ Failed(old).old = old /\ Failed(old).new = NoFe /\ Failed(old).failed
      /\ is_new_aa(Failed(old))
  BY DEF Failed, Ret, is_new_aa
<1>4. CASE old = NoFe
  <2>1. r = s
    BY <1>3, <1>4 DEF receiver_subscribe
  <2>2. s.adapter = [s.adapter EXCEPT ![id] = NoFe]
    BY <1>0, <1>4 DEF MapType
  <2>3. s.tuners = {f \in Fe : UsersIn(new, p, f) # {}}
    BY <1>0, <1>1, <1>2, <1>4
  <2> HIDE DEF s
  <2> QED BY <1>0, <2>1, <2>2, <2>3, FitsAgain DEF s
<1>5. CASE old # NoFe
  <2> DEFINE left == left_on(old, id)
  <2>1. r = release_active_adapter(s, id, left)
    BY <1>3, <1>5 DEF receiver_subscribe
  <2>2. left = <<>> <=> UsersIn(sub, p, old) \ {id} = {}
    BY <1>5, LeftOn
  <2> HIDE DEF s, left, r
  <2>3. Released(s, id, old, left, r)
    BY <1>0, <1>5, <2>1, ReleaseOK
  <2>4. /\ r \in AdaptersType /\ r.failed = NoFailure
        /\ r.adapter = [s.adapter EXCEPT ![id] = NoFe]
        /\ r.tuners = IF left = <<>> THEN s.tuners \ {old} ELSE s.tuners
        /\ \A g \in Fe : (g = old /\ left = <<>>) \/ r.services[g] = s.services[g]
    BY <1>0, <2>3 DEF Released
  <2>5. r.tuners = {f \in Fe : UsersIn(new, p, f) # {}}
    BY <1>0, <1>1, <1>2, <1>5, <2>2, <2>4
  <2>6. \A f \in Fe : UsersIn(new, p, f) \ {id} = {} \/ r.services[f] = s.services[f]
    BY <1>2, <2>2, <2>4
  <2>7. Fits(new, p, r, but, {id})
    BY <1>0, <1>f, <2>4, <2>5, <2>6, FitsAgain
  <2> QED BY <2>7 DEF r
<1> QED BY <1>0, <1>4, <1>5

\* After a successful operation, whatever happened to the old frontend.
LEMMA SubscribeSucceeds ==
  ASSUME StateOK, NEW p \in Proc, NEW id \in SubId, NEW old \in fe_for_subscription(p, id),
         NEW but, id \notin but, Fits(sub, p, Adapters(p), but, {}), NEW service,
         NEW new, NEW home \in Fe, Moved(new, p, id, home, service),
         NEW ret_old, NEW reuse, RetFits(p, id, old, ret_old, home, reuse),
         NEW ret, Returned(ret, ret_old, home, reuse)
  PROVE  LET r == receiver_subscribe(p, id, ret) IN
         Fits(new, p, r, but, {id}) /\ r.adapter[id] = home
<1> DEFINE s   == Adapters(p)
           r   == receiver_subscribe(p, id, ret)
           U(f) == UsersIn(sub, p, f)
<1> SUFFICES Fits(new, p, r, but, {id}) /\ r.adapter[id] = home
  OBVIOUS
<1>0. /\ s \in AdaptersType /\ s.failed = NoFailure /\ s.adapter \in MapType
      /\ s.tuners = {f \in Fe : U(f) # {}} /\ NoFe \notin Fe
      /\ old \in Fe \cup {NoFe} /\ s.adapter[id] = old
      /\ \A f \in Fe : \A j \in U(f) : s.adapter[j] = f
  BY AtHome DEF Fits, AdaptersType, Threads, Serves, Fe, NoFe, fe_for_subscription
<1>1. \A f \in Fe : id \in U(f) <=> f = old
  BY LeaveUsers
<1>2. \A f \in Fe : UsersIn(new, p, f) = (U(f) \ {id}) \cup (IF f = home THEN {id} ELSE {})
  BY DEF Moved
<1>3. /\ ret.old = ret_old /\ ret.new = home /\ ~ret.failed /\ ret.reuse = reuse
      /\ is_new_aa(ret) <=> ret_old = NoFe \/ ret_old # home
  BY <1>0 DEF Ret, Returned, is_new_aa
<1>4. /\ ret_old = old \/ (ret_old = NoFe /\ old = home)
      /\ \/ reuse \in U(home)
         \/ reuse = None /\ U(home) \subseteq {id}
  BY DEF RetFits
<1>5. None \notin SubId /\ \A f \in Fe : U(f) \subseteq SubId
  BY RequestAssumption DEF UsersIn
<1>6. ASSUME NEW q \in AdaptersType, q.failed = NoFailure, FindCase(q, id, home, ret),
             r = find_or_create_active_adapter(q, id, ret),
             [q.adapter EXCEPT ![id] = home] = [s.adapter EXCEPT ![id] = home],
             q.tuners \cup {home} = {f \in Fe : UsersIn(new, p, f) # {}},
             \A f \in Fe : UsersIn(new, p, f) \ {id} = {} \/ q.services[f] = s.services[f]
      PROVE  Fits(new, p, r, but, {id}) /\ r.adapter[id] = home
  <2> HIDE DEF s, r, U
  <2>1. Found(q, id, home, r)
    BY <1>3, <1>6, FindOK
  <2>2. /\ r \in AdaptersType /\ r.failed = NoFailure
        /\ r.adapter = [s.adapter EXCEPT ![id] = home]
        /\ r.tuners = {f \in Fe : UsersIn(new, p, f) # {}}
        /\ \A f \in Fe : UsersIn(new, p, f) \ {id} = {} \/ r.services[f] = s.services[f]
    BY <1>6, <2>1 DEF Found
  <2>3. Fits(new, p, r, but, {id})
    BY <2>2, FitsAgain DEF s
  <2>4. r.adapter[id] = home
    BY <1>0, <2>2 DEF MapType
  <2> QED BY <2>3, <2>4
<1>7. CASE ret_old # NoFe /\ ret_old # home
  <2> DEFINE left == left_on(old, id)
             q == release_active_adapter(s, id, left)
  <2>1. ret_old = old /\ old \in Fe /\ old # home
    BY <1>0, <1>4, <1>7
  <2>2. left = <<>> <=> U(old) \ {id} = {}
    BY <1>0, <2>1, LeftOn
  <2>3. Released(s, id, old, left, q)
    <3> HIDE DEF s, left
    <3> QED BY <1>0, <2>1, ReleaseOK
  <2>4. /\ q \in AdaptersType /\ q.failed = NoFailure
        /\ q.adapter = [s.adapter EXCEPT ![id] = NoFe]
        /\ q.tuners = IF left = <<>> THEN s.tuners \ {old} ELSE s.tuners
        /\ \A g \in Fe : (g = old /\ left = <<>>) \/ q.services[g] = s.services[g]
    <3> HIDE DEF q, s, left
    <3> QED BY <1>0, <2>3 DEF Released
  <2>5. r = find_or_create_active_adapter(q, id, ret)
    <3>1. (IF ret.old # NoFe /\ is_new_aa(ret)
           THEN release_active_adapter(s, id, left_on(ret.old, id)) ELSE s) = q
      BY <1>3, <1>7, <2>1
    <3> QED BY <1>3, <2>4, <3>1 DEF receiver_subscribe
  <2> HIDE DEF q, s, left, r, U
  <2>6. /\ q.adapter[id] = NoFe /\ \A j \in SubId : j # id => q.adapter[j] = s.adapter[j]
        /\ [q.adapter EXCEPT ![id] = home] = [s.adapter EXCEPT ![id] = home]
    BY <1>0, <2>4 DEF MapType
  <2>7. id \notin U(home)
    BY <1>1, <2>1
  <2>8. home \in q.tuners <=> U(home) # {}
    BY <1>0, <2>1, <2>4
  <2>9. FindCase(q, id, home, ret)
    <3>1. CASE reuse \in U(home)
      BY <1>0, <1>3, <1>5, <2>6, <2>7, <2>8, <3>1 DEF FindCase
    <3>2. CASE reuse = None /\ U(home) \subseteq {id}
      BY <1>3, <1>7, <2>6, <2>7, <2>8, <3>2 DEF FindCase
    <3> QED BY <1>4, <3>1, <3>2
  <2>10. q.tuners \cup {home} = {f \in Fe : UsersIn(new, p, f) # {}}
    <3>1. ASSUME NEW f \in Fe
          PROVE  f \in q.tuners \cup {home} <=> UsersIn(new, p, f) # {}
      <4>1. CASE f = home
        BY <1>2, <4>1
      <4>2. CASE f # home
        <5>1. UsersIn(new, p, f) = U(f) \ {id}
          BY <1>2, <4>2
        <5>2. CASE f = old
          BY <1>0, <1>1, <2>2, <2>4, <4>2, <5>1, <5>2
        <5>3. CASE f # old
          BY <1>0, <1>1, <2>4, <4>2, <5>1, <5>3
        <5> QED BY <5>2, <5>3
      <4> QED BY <4>1, <4>2
    <3>2. q.tuners \subseteq Fe
      BY <2>4 DEF AdaptersType
    <3> QED BY <3>1, <3>2
  <2>11. \A f \in Fe : UsersIn(new, p, f) \ {id} = {} \/ q.services[f] = s.services[f]
    BY <1>2, <2>2, <2>4
  <2> QED BY <1>6, <2>4, <2>5, <2>6, <2>9, <2>10, <2>11
<1>8. CASE ret_old = NoFe \/ ret_old = home
  <2>1. old \in {NoFe, home}
    BY <1>4, <1>8
  <2>2. r = find_or_create_active_adapter(s, id, ret)
    <3>1. (IF ret.old # NoFe /\ is_new_aa(ret)
           THEN release_active_adapter(s, id, left_on(ret.old, id)) ELSE s) = s
      BY <1>3, <1>8
    <3> QED BY <1>0, <1>3, <3>1 DEF receiver_subscribe
  <2> HIDE DEF s, r, U
  <2>3. home \in s.tuners <=> U(home) # {}
    BY <1>0
  <2>4. FindCase(s, id, home, ret)
    <3>1. CASE reuse \in U(home) /\ reuse # id
      BY <1>0, <1>3, <1>5, <2>3, <3>1 DEF FindCase
    <3>2. CASE reuse \in U(home) /\ reuse = id
      BY <1>0, <1>1, <1>3, <2>3, <3>2 DEF FindCase
    <3>3. CASE reuse = None /\ U(home) \subseteq {id} /\ old = home
      <4>1. id \in U(home)
        BY <1>1, <3>3
      <4> QED BY <1>0, <1>3, <2>3, <3>3, <4>1 DEF FindCase
    <3>4. CASE reuse = None /\ U(home) \subseteq {id} /\ old = NoFe
      <4>1. U(home) = {} /\ ret_old = NoFe
        BY <1>0, <1>1, <1>4, <3>4
      <4> QED BY <1>0, <1>3, <2>3, <3>4, <4>1 DEF FindCase
    <3> QED BY <1>4, <2>1, <3>1, <3>2, <3>3, <3>4
  <2>5. s.tuners \cup {home} = {f \in Fe : UsersIn(new, p, f) # {}}
    <3>1. ASSUME NEW f \in Fe
          PROVE  f \in s.tuners \cup {home} <=> UsersIn(new, p, f) # {}
      <4>1. CASE f = home
        BY <1>2, <4>1
      <4>2. CASE f # home
        BY <1>0, <1>1, <1>2, <2>1, <4>2
      <4> QED BY <4>1, <4>2
    <3> QED BY <1>0, <3>1
  <2> QED BY <1>0, <1>6, <2>2, <2>4, <2>5
<1> QED BY <1>7, <1>8

-----------------------------------------------------------------------------
(* The services of an adapter.                                             *)

\* Everything but the service of id is left alone.
OnlyService(s, r, id) ==
  /\ r \in AdaptersType /\ r.failed = s.failed /\ r.adapter = s.adapter
  /\ r.tuners = s.tuners
  /\ \A g \in Fe, j \in SubId : j # id => r.services[g][j] = s.services[g][j]

WithService(s, f, id, v) == [s EXCEPT !.services[f][id] = v]

\* Changing one service.
LEMMA SetService ==
  ASSUME NEW s \in AdaptersType, NEW f \in Fe, NEW id \in SubId,
         NEW v \in Service \cup {NoService}, NEW r, r = WithService(s, f, id, v)
  PROVE  OnlyService(s, r, id) /\ r.services[f][id] = v
<1> DEFINE run == [s.services EXCEPT ![f][id] = v]
<1>1. s.services \in ServiceType
  BY DEF AdaptersType
<1>2. /\ run \in ServiceType /\ run[f][id] = v
      /\ \A g \in Fe, j \in SubId : j # id => run[g][j] = s.services[g][j]
  BY <1>1 DEF ServiceType
<1>3. r = [s EXCEPT !.services = run]
  BY DEF WithService
<1> HIDE DEF run
<1>4. /\ r \in AdaptersType /\ r.failed = s.failed /\ r.adapter = s.adapter
      /\ r.tuners = s.tuners /\ r.services = run
  BY <1>2, <1>3 DEF AdaptersType
<1> QED BY <1>2, <1>4 DEF OnlyService

\* Once the service of the subscription runs, if it has one, everything fits.
LEMMA ServiceFits ==
  ASSUME NEW p, NEW id \in SubId, NEW but, NEW home \in Fe \cup {NoFe}, NEW service, NEW new,
         Moved(new, p, id, home, service), NEW s, Fits(new, p, s, but, {id}),
         NEW r, OnlyService(s, r, id),
         home = NoFe \/ service = NoService \/ r.services[home][id] # NoService
  PROVE  Fits(new, p, r, but, {})
<1>1. NoFe \notin Fe
  BY DEF Fe, NoFe
<1>2. Runs(new, p, r.services, {})
  <2> SUFFICES ASSUME NEW f \in Fe, NEW j \in SubId, Needs(new, p, f, j)
               PROVE  r.services[f][j] # NoService
    BY DEF Runs
  <2>1. CASE j = id
    BY <1>1, <2>1 DEF Moved
  <2>2. CASE j # id
    BY <2>2 DEF Fits, Runs, OnlyService
  <2> QED BY <2>1, <2>2
<1> QED BY <1>2 DEF Fits, OnlyService

\* Tuning gives the subscription its service.
LEMMA TunedOK ==
  ASSUME NEW s \in AdaptersType, s.failed = NoFailure, NEW id \in SubId, NEW home \in Fe,
         s.adapter[id] = home, NEW ret, ~ret.failed, NEW service \in Service \cup {NoService}
  PROVE  LET r == tuned(s, id, ret, service) IN
         OnlyService(s, r, id) /\ (service = NoService \/ r.services[home][id] # NoService)
<1> DEFINE u == tune_mux(s, id, ret)
           r == tuned(s, id, ret, service)
<1>0. NoService \in Service \cup {NoService}
  OBVIOUS
<1>1. OnlyService(s, u, id)
  <2>0. PICK t : t = WithService(s, home, id, NoService)
    OBVIOUS
  <2>1. OnlyService(s, t, id)
    BY <1>0, <2>0, SetService
  <2>2. OnlyService(s, s, id)
    BY DEF OnlyService
  <2>3. u = s \/ u = t
    BY <2>0 DEF tune_mux, WithService
  <2> HIDE DEF u
  <2> QED BY <2>1, <2>2, <2>3
<1>2. r = tune_service(u, id, service)
  BY DEF tuned
<1> HIDE DEF u, r
<1>3. u.adapter[id] = home /\ u \in AdaptersType
  BY <1>1 DEF OnlyService
<1>4. CASE service = NoService \/ u.services[home][id] # NoService
  <2>1. r = u
    BY <1>2, <1>3, <1>4 DEF tune_service
  <2> QED BY <1>1, <1>4, <2>1 DEF r
<1>5. CASE service # NoService /\ u.services[home][id] = NoService
  <2>0. PICK t : t = WithService(u, home, id, service)
    OBVIOUS
  <2>1. r = t
    BY <1>2, <1>3, <1>5, <2>0 DEF tune_service, WithService
  <2>2. OnlyService(u, t, id) /\ t.services[home][id] = service
    BY <1>3, <2>0, SetService
  <2>3. OnlyService(s, t, id)
    BY <1>1, <2>2 DEF OnlyService
  <2> QED BY <1>5, <2>1, <2>2, <2>3 DEF r
<1> QED BY <1>4, <1>5

-----------------------------------------------------------------------------
(* The tasks.                                                              *)

\* More entries may be without reservation.
LEMMA FitsMore ==
  ASSUME NEW db, NEW p, NEW s, NEW but, NEW unserved, Fits(db, p, s, but, unserved),
         NEW more, \A id \in SubId : id \in but => id \in more
  PROVE  Fits(db, p, s, more, unserved)
BY DEF Fits, Backed

\* An adapter map that fits still fits if the subscription has no service.
LEMMA FitsUnserved ==
  ASSUME NEW p, NEW id \in SubId, NEW but, NEW home \in Fe \cup {NoFe}, NEW service, NEW new,
         Moved(new, p, id, home, service), NEW s, Fits(new, p, s, but, {id}),
         home = NoFe \/ service = NoService
  PROVE  Fits(new, p, s, but, {})
<1>1. OnlyService(s, s, id)
  BY DEF Fits, OnlyService
<1> QED BY <1>1, ServiceFits

\* A task that reserves and then tunes leaves adapters that fit the database.
LEMMA TaskFits ==
  ASSUME StateOK, ~UnknownNetwork, NEW p \in Proc, NEW id \in SubId,
         NEW old \in fe_for_subscription(p, id), NEW but, id \notin but,
         Fits(sub, p, Adapters(p), but, {}), NEW service \in Service \cup {NoService},
         NEW out, Effect(p, id, old, service, out), out.failed_assert = NoFailure
  PROVE  LET s == receiver_subscribe(p, id, out.ret) IN
         /\ Fits(out.sub, p, tuned(s, id, out.ret, service), but, {})
         /\ service = NoService => Fits(out.sub, p, s, but, {})
<1> DEFINE s == receiver_subscribe(p, id, out.ret)
           t == tuned(s, id, out.ret, service)
<1> SUFFICES /\ Fits(out.sub, p, t, but, {})
             /\ service = NoService => Fits(out.sub, p, s, but, {})
  OBVIOUS
<1>0. /\ Adapters(p).adapter[id] = old /\ NoFe \in Fe \cup {NoFe}
      /\ \A x : Failed(x).failed /\ Failed(x).old = x
  BY AtHome DEF Failed, Ret
<1>1. Outcomes3(p, id, old, service, out)
  BY EffectMoves
<1>2. out.ret.failed => t = s
  BY DEF tuned
<1>3. CASE out.sub = sub /\ out.ret = Failed(NoFe)
  <2>1. s = Adapters(p)
    BY <1>0, <1>3 DEF receiver_subscribe
  <2> HIDE DEF s, t
  <2> QED BY <1>0, <1>2, <1>3, <2>1
<1>4. CASE out.ret = Failed(old) /\ Moved(out.sub, p, id, NoFe, service)
  <2>1. Fits(out.sub, p, receiver_subscribe(p, id, Failed(old)), but, {id})
    BY <1>0, <1>4, SubscribeFails
  <2>2. Fits(out.sub, p, s, but, {id})
    BY <1>4, <2>1
  <2> HIDE DEF s, t
  <2>3. Fits(out.sub, p, s, but, {})
    BY <1>0, <1>4, <2>2, FitsUnserved
  <2> QED BY <1>0, <1>2, <1>4, <2>3
<1>5. CASE \E home \in Fe : \E ret_old, reuse :
             Succeeds(p, id, old, service, out, home, ret_old, reuse)
  <2>1p. PICK home \in Fe : \E ret_old, reuse :
           Succeeds(p, id, old, service, out, home, ret_old, reuse)
    BY <1>5
  <2>1. PICK ret_old, reuse :
           Succeeds(p, id, old, service, out, home, ret_old, reuse)
    BY <2>1p
  <2>2. /\ Returned(out.ret, ret_old, home, reuse)
        /\ RetFits(p, id, old, ret_old, home, reuse)
        /\ Moved(out.sub, p, id, home, service)
    BY <2>1 DEF Succeeds
  <2>3. Fits(out.sub, p, s, but, {id}) /\ s.adapter[id] = home
    <3> HIDE DEF t
    <3> QED BY <2>2, SubscribeSucceeds
  <2>4. ~out.ret.failed
    BY <2>2 DEF Ret, Returned
  <2>5. s \in AdaptersType /\ s.failed = NoFailure
    BY <2>3 DEF Fits
  <2> HIDE DEF s
  <2>6. OnlyService(s, t, id) /\ (service = NoService \/ t.services[home][id] # NoService)
    BY <2>3, <2>4, <2>5, TunedOK
  <2> HIDE DEF t
  <2>7. Fits(out.sub, p, t, but, {})
    BY <2>2, <2>3, <2>6, ServiceFits
  <2>8. service = NoService => Fits(out.sub, p, s, but, {})
    BY <2>2, <2>3, FitsUnserved
  <2> QED BY <2>7, <2>8
<1> QED BY <1>1, <1>3, <1>4, <1>5 DEF Outcomes3

\* A failed request to control an LNB leaves an entry of the map, which is
\* removed when the failure is undone.
LEMMA UnreportedFits ==
  ASSUME StateOK, NEW p \in Proc, NEW id \in SubId,
         NEW old \in fe_for_subscription(p, id), NEW but,
         Fits(sub, p, Adapters(p), but, {}), NEW out, LeftUnreported(id, old, out)
  PROVE  Fits(out.sub, p, receiver_subscribe(p, id, out.ret), but \cup {id}, {})
<1> DEFINE s  == Adapters(p)
           db == unsubscribed(old, id)
<1>1. /\ out.sub = db /\ out.ret = Failed(NoFe) /\ old # NoFe
      /\ left_on(old, id) # <<>>
  BY DEF LeftUnreported, left_on
<1>2. receiver_subscribe(p, id, out.ret) = s
  BY <1>1 DEF receiver_subscribe, Failed, Ret
<1>3. \A f \in Fe : /\ UsersIn(db, p, f) = UsersIn(sub, p, f) \ {id}
                    /\ \A j : Needs(db, p, f, j) => j # id /\ Needs(sub, p, f, j)
                    /\ id \in UsersIn(sub, p, f) <=> f = old
  BY LeaveUsers
<1>4. UsersIn(sub, p, old) \ {id} # {}
  BY <1>1, LeftOn
<1> HIDE DEF s, db
<1>5. Fits(sub, p, s, but, {})
  BY DEF s
<1>6. s.adapter \in MapType
  BY <1>5 DEF Fits, AdaptersType
<1>7. Threads(db, p, s.tuners)
  <2>1. \A f \in Fe : UsersIn(db, p, f) # {} <=> UsersIn(sub, p, f) # {}
    BY <1>3, <1>4
  <2> QED BY <1>5, <2>1 DEF Fits, Threads
<1>8. Serves(db, p, s.adapter) /\ Runs(db, p, s.services, {})
  BY <1>3, <1>5 DEF Fits, Serves, Runs
<1>9. Backed(db, p, s.adapter, but \cup {id})
  BY <1>3, <1>5, <1>6 DEF Fits, Backed, MapType
<1>10. Fits(db, p, s, but \cup {id}, {})
  BY <1>5, <1>7, <1>8, <1>9 DEF Fits
<1> QED BY <1>1, <1>2, <1>10

released(p, id, old) ==
  IF old = NoFe THEN Adapters(p)
  ELSE release_active_adapter(Adapters(p), id, left_on(old, id))

\* The end of a subscription, or of one whose failure is undone.
LEMMA UnsubscribeFits ==
  ASSUME StateOK, NEW p \in Proc, NEW id \in SubId,
         NEW old \in fe_for_subscription(p, id), NEW but, Fits(sub, p, Adapters(p), but, {})
  PROVE  Fits(unsubscribed(old, id), p, released(p, id, old), but \cup {id}, {})
<1> DEFINE db == unsubscribed(old, id)
<1>1. \A f \in Fe : /\ UsersIn(db, p, f) = UsersIn(sub, p, f) \ {id}
                    /\ \A j : Needs(db, p, f, j) => j # id /\ Needs(sub, p, f, j)
                    /\ id \in UsersIn(sub, p, f) <=> f = old
  BY LeaveUsers
<1>2. CASE old = NoFe
  <2>1. db = sub /\ released(p, id, old) = Adapters(p)
    BY <1>2 DEF unsubscribed, released
  <2> HIDE DEF db
  <2>2. Fits(sub, p, Adapters(p), but \cup {id}, {})
    BY FitsMore
  <2> QED BY <2>1, <2>2 DEF db
<1>3. CASE old # NoFe
  <2>0. old \in Fe /\ NoFe \notin Fe
    BY <1>3 DEF fe_for_subscription, Fe, NoFe
  <2>1. Adapters(p).adapter[id] = old
    BY <1>1, <2>0 DEF Fits, Serves
  <2>2. Moved(db, p, id, NoFe, NoService)
    BY <1>1, <2>0 DEF Moved
  <2> HIDE DEF db
  <2>3. Fits(db, p, receiver_subscribe(p, id, Failed(old)), but, {id})
    BY <2>1, <2>2, SubscribeFails
  <2>4. receiver_subscribe(p, id, Failed(old)) = released(p, id, old)
    BY <1>3 DEF receiver_subscribe, released, Failed, Ret, is_new_aa
  <2>5. Fits(db, p, released(p, id, old), but, {id})
    BY <2>3, <2>4
  <2>6. Fits(db, p, released(p, id, old), but, {})
    BY <2>2, <2>5, FitsUnserved
  <2>7. Fits(db, p, released(p, id, old), but \cup {id}, {})
    BY <2>6, FitsMore
  <2> QED BY <2>7 DEF db
<1> QED BY <1>2, <1>3

-----------------------------------------------------------------------------
(* The invariant.                                                          *)

RcvTypes ==
  /\ adapter \in [Proc -> MapType] /\ tuners \in [Proc -> SUBSET Fe]
  /\ services \in [Proc -> ServiceType]
  /\ retired \in [Proc -> SUBSET SubId] /\ undoing \in [Proc -> SubId \cup {None}]

\* The subscriptions whose entry may stand for no reservation.
Over(p) == retired[p] \cup {undoing[p]}

Fresh(p) == adapter[p] = [id \in SubId |-> NoFe] /\ tuners[p] = {}

RcvInv ==
  /\ StateOK /\ Alone /\ RcvTypes
  /\ failed_assert \in Labels \cup {"stopped_twice"}
  /\ \A p \in Proc : status[p] = "alive" => Fits(sub, p, Adapters(p), Over(p), {})
  /\ \A p \in Proc : status[p] = "new" => Fresh(p)

\* What is known of the ids that are over after a task.
Bookkeeping ==
  /\ retired' \in [Proc -> SUBSET SubId] /\ undoing' \in [Proc -> SubId \cup {None}]

OwnersKept(p, db) == \A f \in Fe : db[f].owner \in {None, p, sub[f].owner}

\* A task whose two parts fit together preserves the invariant.
LEMMA ApplyOK ==
  ASSUME RcvInv, NEW p \in Proc, status[p] = "alive", NEW out, NEW s, GoodOutcome(out),
         Apply(p, out, s), Bookkeeping, OwnersKept(p, out.sub),
         out.failed_assert = NoFailure => Fits(out.sub, p, s, Over(p)', {})
  PROVE  RcvInv'
<1>0. /\ StateOK /\ Alone /\ RcvTypes /\ failed_assert \in Labels \cup {"stopped_twice"}
      /\ status \in [Proc -> {"new", "alive", "dead"}]
      /\ \A q \in Proc : status[q] = "new" => Fresh(q)
  BY DEF RcvInv, StateOK, IInv
<1>1. \A q \in Proc : status[q] = "alive" => q = p
  BY <1>0 DEF Alone
<1>2. CASE out.failed_assert = NoFailure
  <2>1. Fits(out.sub, p, s, Over(p)', {})
    BY <1>2
  <2>2. s \in AdaptersType /\ s.failed = NoFailure
    BY <2>1 DEF Fits
  <2>3. /\ Commit(p, out) /\ adapter' = [adapter EXCEPT ![p] = s.adapter]
        /\ tuners' = [tuners EXCEPT ![p] = s.tuners]
        /\ services' = [services EXCEPT ![p] = s.services]
    BY <1>2, <2>2 DEF Apply
  <2>4. s.adapter \in MapType /\ s.tuners \in SUBSET Fe /\ s.services \in ServiceType
    BY <2>2 DEF AdaptersType
  <2>5. RcvTypes'
    BY <1>0, <2>3, <2>4 DEF RcvTypes, Bookkeeping
  <2>6. /\ adapter'[p] = s.adapter /\ tuners'[p] = s.tuners /\ services'[p] = s.services
        /\ \A q \in Proc : q # p => adapter'[q] = adapter[q] /\ tuners'[q] = tuners[q]
    BY <1>0, <2>3 DEF RcvTypes
  <2>7. Adapters(p)' = s
    BY <2>2, <2>6 DEF Adapters, AdaptersType
  <2>8. /\ status' = status /\ failed_assert' = failed_assert /\ sub' = out.sub
    BY <1>2, <2>3 DEF Commit
  <2>9. StateOK'
    BY <1>0, <2>3, CommitState
  <2>10. Alone'
    BY <1>0, <2>8, StayAlone DEF OwnersKept
  <2>11. Fits(sub, p, Adapters(p), Over(p), {})'
    BY <2>1, <2>7, <2>8
  <2>12. \A q \in Proc : status'[q] = "alive" => Fits(sub, q, Adapters(q), Over(q), {})'
    BY <1>1, <2>8, <2>11
  <2>13. \A q \in Proc : status'[q] = "new" => Fresh(q)'
    BY <1>0, <2>6, <2>8 DEF Fresh
  <2> QED BY <1>0, <2>5, <2>8, <2>9, <2>10, <2>12, <2>13 DEF RcvInv
<1>3. CASE out.failed_assert # NoFailure
  <2> DEFINE ab == Abort(out.failed_assert)
  <2>0. out.failed_assert \in Labels
    BY DEF GoodOutcome
  <2>1. Commit(p, ab) /\ UNCHANGED <<adapter, tuners, services>>
    BY <1>3 DEF Apply
  <2>2. ab.sub = sub /\ ab.failed_assert = out.failed_assert
    BY AbortFields
  <2>3. GoodOutcome(ab)
    BY <1>0, <2>0, AbortOK
  <2> HIDE DEF ab
  <2>4. StateOK'
    BY <1>0, <2>1, <2>3, CommitState
  <2>5. /\ status'[p] = "dead" /\ failed_assert' = out.failed_assert /\ sub' = sub
        /\ \A q \in Proc : q # p => status'[q] = status[q]
    BY <1>0, <1>3, <2>1, <2>2 DEF Commit
  <2>6. \A q \in Proc : status'[q] # "alive"
    BY <1>1, <2>5
  <2>7. Alone'
    BY <2>6 DEF Alone
  <2>8. RcvTypes'
    BY <1>0, <2>1 DEF RcvTypes, Bookkeeping
  <2>9. \A q \in Proc : status'[q] = "new" => Fresh(q)'
    BY <1>0, <2>1, <2>5 DEF Fresh
  <2> QED BY <2>0, <2>4, <2>5, <2>6, <2>7, <2>8, <2>9 DEF RcvInv
<1> QED BY <1>2, <1>3

\* The owners after an operation, and after leaving.
LEMMA OwnersAfter ==
  ASSUME StateOK, NEW p \in Proc, NEW id \in SubId, NEW old \in fe_for_subscription(p, id),
         NEW service, NEW out,
         Effect(p, id, old, service, out) \/ out.sub = unsubscribed(old, id)
  PROVE  OwnersKept(p, out.sub)
<1>1. CASE Effect(p, id, old, service, out)
  BY <1>1, EffectOwner DEF OwnersKept
<1>2. CASE out.sub = unsubscribed(old, id)
  <2> SUFFICES ASSUME NEW f \in Fe
               PROVE  out.sub[f].owner \in {None, p, sub[f].owner}
    BY DEF OwnersKept
  <2>1. out.sub[f] = NoSub \/ SameTuning(out.sub[f], sub[f])
    BY <1>2, LeaveKeeps
  <2> QED BY <2>1 DEF NoSub, SameTuning
<1> QED BY <1>1, <1>2

\* A subscription that may act has an entry that stands for its reservation.
LEMMA IdleFits ==
  ASSUME RcvInv, NEW p \in Proc, NEW id \in SubId, Idle(p, id)
  PROVE  /\ StateOK /\ status[p] = "alive" /\ id \notin Over(p) /\ undoing[p] = None
         /\ Fits(sub, p, Adapters(p), Over(p), {})
         /\ None \notin SubId
BY RequestAssumption DEF RcvInv, Idle, Over

\* Tuning to a mux or a service.
LEMMA MuxStep ==
  ASSUME RcvInv, ~UnknownNetwork, NEW p \in Proc, NEW id \in SubId, Idle(p, id),
         NEW m \in Mux, NEW service \in Service \cup {NoService}, Tuned(service, m),
         NEW o \in MuxOptions, NEW out \in subscribe_mux(p, id, m, service, o),
         Apply(p, out, tuned(receiver_subscribe(p, id, out.ret), id, out.ret, service)),
         UNCHANGED <<retired, undoing>>
  PROVE  RcvInv'
<1> DEFINE s == tuned(receiver_subscribe(p, id, out.ret), id, out.ret, service)
<1>0. /\ StateOK /\ status[p] = "alive" /\ id \notin Over(p)
      /\ Fits(sub, p, Adapters(p), Over(p), {})
  BY IdleFits
<1>1. GoodOutcome(out)
  BY <1>0, SubscribeMuxOK, RequestAssumption
<1>2. PICK old \in fe_for_subscription(p, id) : Effect(p, id, old, service, out)
  BY <1>0, SubscribeMuxEffect
<1>3. out.failed_assert = NoFailure => Fits(out.sub, p, s, Over(p), {})
  BY <1>0, <1>2, TaskFits
<1>4. OwnersKept(p, out.sub)
  BY <1>0, <1>2, OwnersAfter
<1>5. Over(p)' = Over(p)
  BY DEF Over
<1>6. Bookkeeping
  BY DEF Bookkeeping, RcvInv, RcvTypes
<1> HIDE DEF s
<1>7. out.failed_assert = NoFailure => Fits(out.sub, p, s, Over(p)', {})
  BY <1>3, <1>5
<1>8. Apply(p, out, s)
  BY DEF s
<1> QED BY <1>0, <1>1, <1>4, <1>6, <1>7, <1>8, ApplyOK

\* A spectrum of a band.
LEMMA BandStep ==
  ASSUME RcvInv, ~UnknownNetwork, NEW p \in Proc, NEW id \in SubId, NEW b \in BandRequest,
         NEW o \in BandOptions, RcvSubscribeSatBand(p, id, b, o)
  PROVE  RcvInv'
<1>1. /\ Idle(p, id) /\ UNCHANGED <<retired, undoing>>
      /\ \E out \in subscribe_sat_band(p, id, b, o) :
            Apply(p, out, receiver_subscribe(p, id, out.ret))
  BY DEF RcvSubscribeSatBand
<1>2. PICK out \in subscribe_sat_band(p, id, b, o) :
         Apply(p, out, receiver_subscribe(p, id, out.ret))
  BY <1>1
<1> DEFINE s == receiver_subscribe(p, id, out.ret)
<1>3. /\ StateOK /\ status[p] = "alive" /\ id \notin Over(p)
      /\ Fits(sub, p, Adapters(p), Over(p), {})
  BY <1>1, IdleFits
<1>4. GoodOutcome(out)
  BY <1>3, SubscribeSatBandOK, RequestAssumption
<1>5. PICK old \in fe_for_subscription(p, id) : Effect(p, id, old, NoService, out)
  BY <1>3, SubscribeSatBandEffect
<1>6. out.failed_assert = NoFailure => Fits(out.sub, p, s, Over(p), {})
  BY <1>3, <1>5, TaskFits
<1>7. OwnersKept(p, out.sub)
  BY <1>3, <1>5, OwnersAfter
<1>8. Over(p)' = Over(p) /\ Bookkeeping
  BY <1>1 DEF Over, Bookkeeping, RcvInv, RcvTypes
<1> HIDE DEF s
<1>9. out.failed_assert = NoFailure => Fits(out.sub, p, s, Over(p)', {})
  BY <1>6, <1>8
<1>10. Apply(p, out, s)
  BY <1>2 DEF s
<1> QED BY <1>3, <1>4, <1>7, <1>8, <1>9, <1>10, ApplyOK

\* Control of an LNB, which may have to be undone.
LEMMA LnbStep ==
  ASSUME RcvInv, ~UnknownNetwork, NEW p \in Proc, NEW id \in SubId, NEW q \in LnbRequest,
         RcvSubscribeLnb(p, id, q)
  PROVE  RcvInv'
<1>1. PICK out \in subscribe_rf_path(p, id, q), tune_error \in BOOLEAN :
        /\ Apply(p, out, receiver_subscribe(p, id, out.ret))
        /\ undoing' = [undoing EXCEPT ![p] =
              IF out.ret.failed \/ tune_error THEN id ELSE None]
  BY DEF RcvSubscribeLnb
<1>2. Idle(p, id) /\ retired' = retired
  BY DEF RcvSubscribeLnb
<1> DEFINE s == receiver_subscribe(p, id, out.ret)
<1>3. /\ StateOK /\ status[p] = "alive" /\ id \notin Over(p) /\ undoing[p] = None
      /\ Fits(sub, p, Adapters(p), Over(p), {}) /\ None \notin SubId
  BY <1>2, IdleFits
<1>4. GoodOutcome(out)
  BY <1>3, SubscribeRfPathOK
<1>5. /\ undoing \in [Proc -> SubId \cup {None}] /\ retired \in [Proc -> SUBSET SubId]
  BY DEF RcvInv, RcvTypes
<1>6. Bookkeeping
  BY <1>1, <1>2, <1>5 DEF Bookkeeping
<1>7. /\ \A j \in SubId : j \in Over(p) => j \in Over(p)'
      /\ out.ret.failed => id \in Over(p)'
  BY <1>1, <1>2, <1>3, <1>5 DEF Over
<1>8. PICK old \in fe_for_subscription(p, id) :
         Effect(p, id, old, NoService, out) \/ LeftUnreported(id, old, out)
  BY <1>3, SubscribeRfPathEffect
<1>9. out.failed_assert = NoFailure => Fits(out.sub, p, s, Over(p)', {})
  <2>1. PICK over : over = Over(p)'
    OBVIOUS
  <2>2. CASE Effect(p, id, old, NoService, out) /\ out.failed_assert = NoFailure
    <3>1. Fits(out.sub, p, s, Over(p), {})
      BY <1>3, <2>2, TaskFits
    <3> HIDE DEF s
    <3>2. Fits(out.sub, p, s, over, {})
      BY <1>7, <2>1, <3>1, FitsMore
    <3> QED BY <2>1, <3>2
  <2>3. CASE LeftUnreported(id, old, out)
    <3>1. Fits(out.sub, p, s, Over(p) \cup {id}, {})
      BY <1>3, <2>3, UnreportedFits
    <3>2. out.ret.failed
      BY <2>3 DEF LeftUnreported, Failed, Ret
    <3> HIDE DEF s
    <3>3. Fits(out.sub, p, s, over, {})
      BY <1>7, <2>1, <3>1, <3>2, FitsMore
    <3> QED BY <2>1, <3>3
  <2> QED BY <1>8, <2>2, <2>3
<1>10. OwnersKept(p, out.sub)
  BY <1>3, <1>8, OwnersAfter DEF LeftUnreported
<1> HIDE DEF s
<1>11. Apply(p, out, s)
  BY <1>1 DEF s
<1> QED BY <1>3, <1>4, <1>6, <1>9, <1>10, <1>11, ApplyOK

\* The end of a subscription, and the undoing of a failure.
LEMMA UnsubscribeStep ==
  ASSUME RcvInv, NEW p \in Proc, NEW id \in SubId, unsubscribe(p, id),
         undoing[p] \in {None, id}
  PROVE  RcvInv'
<1>1. /\ StateOK /\ status[p] = "alive" /\ Fits(sub, p, Adapters(p), Over(p), {})
      /\ undoing \in [Proc -> SubId \cup {None}] /\ retired \in [Proc -> SUBSET SubId]
      /\ None \notin SubId
  BY RequestAssumption DEF RcvInv, RcvTypes, unsubscribe
<1>2. PICK old \in fe_for_subscription(p, id) :
         Apply(p, Stationary(unsubscribed(old, id), Failed(old)), released(p, id, old))
  BY DEF unsubscribe, released
<1> DEFINE out == Stationary(unsubscribed(old, id), Failed(old))
           s   == released(p, id, old)
<1>3. out.sub = unsubscribed(old, id) /\ out.failed_assert = NoFailure
  BY StationaryFields
<1>4. GoodOutcome(out)
  <2>1. IInv(unsubscribed(old, id), status)
    BY <1>1, LeaveOK DEF StateOK
  <2> QED BY <1>1, <2>1, StationaryOK
<1>5. Fits(unsubscribed(old, id), p, s, Over(p) \cup {id}, {})
  BY <1>1, UnsubscribeFits
<1>6. /\ retired' = [retired EXCEPT ![p] = @ \cup {id}]
      /\ undoing' = [undoing EXCEPT ![p] = None]
  BY DEF unsubscribe
<1>7. Bookkeeping
  BY <1>1, <1>6 DEF Bookkeeping
<1>8. \A j \in SubId : j \in Over(p) \cup {id} => j \in Over(p)'
  BY <1>1, <1>6 DEF Over
<1> HIDE DEF out, s
<1>9. OwnersKept(p, out.sub)
  BY <1>1, <1>3, OwnersAfter
<1>10. Fits(out.sub, p, s, Over(p)', {})
  <2>1. PICK over : over = Over(p)'
    OBVIOUS
  <2>2. Fits(out.sub, p, s, over, {})
    BY <1>3, <1>5, <1>8, <2>1, FitsMore
  <2> QED BY <2>1, <2>2
<1>11. Apply(p, out, s)
  BY <1>2 DEF out, s
<1> QED BY <1>1, <1>4, <1>7, <1>9, <1>10, <1>11, ApplyOK

\* A process that starts has no adapters and finds no reservations.
LEMMA StartStep ==
  ASSUME RcvInv, MaxInstances <= 1, NEW p \in Proc, RcvStart(p)
  PROVE  RcvInv'
<1>0. /\ StateOK /\ Alone /\ RcvTypes /\ failed_assert \in Labels \cup {"stopped_twice"}
      /\ status \in [Proc -> {"new", "alive", "dead"}]
      /\ \A q \in Proc : status[q] = "new" => Fresh(q)
  BY DEF RcvInv, StateOK, IInv
<1>1. /\ Start(p) /\ status[p] = "new" /\ status' = [status EXCEPT ![p] = "alive"]
      /\ sub' = [f \in Fe |-> NoSub] /\ failed_assert' = failed_assert
      /\ UNCHANGED <<adapter, tuners, services, retired, undoing>>
  BY DEF RcvStart, Start, rvars
<1>2. StateOK' /\ Alone'
  BY <1>0, <1>1, StartState, StartAlone
<1>3. status'[p] = "alive" /\ \A q \in Proc : q # p => status'[q] = status[q]
  BY <1>0, <1>1
<1>4. \A q \in Proc : status'[q] = "alive" => q = p
  BY <1>2, <1>3 DEF Alone
<1>5. RcvTypes'
  BY <1>0, <1>1 DEF RcvTypes
<1>6. \A q \in Proc : status'[q] = "new" => Fresh(q)'
  BY <1>0, <1>1, <1>3 DEF Fresh
<1>7. Fits(sub, p, Adapters(p), Over(p), {})'
  <2>1. /\ adapter'[p] \in MapType /\ tuners'[p] \in SUBSET Fe
        /\ services'[p] \in ServiceType
    BY <1>5 DEF RcvTypes
  <2>2. /\ Adapters(p)' \in AdaptersType /\ Adapters(p)'.failed = NoFailure
        /\ Adapters(p)'.adapter = adapter'[p] /\ Adapters(p)'.tuners = tuners'[p]
    BY <2>1 DEF Adapters, AdaptersType
  <2>3. \A f \in Fe : UsersIn(sub', p, f) = {} /\ \A j : ~Needs(sub', p, f, j)
    <3>1. \A f \in Fe : sub'[f].owner = None
      BY <1>1 DEF NoSub
    <3>2. p # None
      BY RequestAssumption
    <3> QED BY <3>1, <3>2 DEF UsersIn, Needs
  <2>4. tuners'[p] = {} /\ \A id \in SubId : adapter'[p][id] = NoFe
    BY <1>0, <1>1 DEF Fresh
  <2> QED BY <2>2, <2>3, <2>4 DEF Fits, Serves, Threads, Backed, Runs
<1> QED BY <1>0, <1>1, <1>2, <1>3, <1>4, <1>5, <1>6, <1>7 DEF RcvInv

\* A process that dies or exits leaves nobody alive.
LEMMA EndStep ==
  ASSUME RcvInv, NEW p \in Proc, status[p] = "alive", Ends(p), NoAdapters(p),
         failed_assert' \in {failed_assert, "stopped_twice"}
  PROVE  RcvInv'
<1>0. /\ StateOK /\ Alone /\ RcvTypes /\ failed_assert \in Labels \cup {"stopped_twice"}
      /\ status \in [Proc -> {"new", "alive", "dead"}]
      /\ \A q \in Proc : status[q] = "new" => Fresh(q)
  BY DEF RcvInv, StateOK, IInv
<1>1. /\ StateOK' /\ status'[p] = "dead"
      /\ \A q \in Proc : status'[q] = "alive" => status[q] = "alive"
  BY <1>0, EndState
<1>2. \A q \in Proc : status'[q] # "alive"
  BY <1>0, <1>1 DEF Alone
<1>3. Alone'
  BY <1>2 DEF Alone
<1>4. /\ adapter' = [adapter EXCEPT ![p] = [id \in SubId |-> NoFe]]
      /\ tuners' = [tuners EXCEPT ![p] = {}]
      /\ services' = [services EXCEPT ![p] = [f \in Fe |-> [id \in SubId |-> NoService]]]
      /\ retired' = retired /\ undoing' = undoing
  BY DEF NoAdapters
<1>5. /\ [id \in SubId |-> NoFe] \in MapType
      /\ [f \in Fe |-> [id \in SubId |-> NoService]] \in ServiceType
  BY DEF MapType, ServiceType
<1>6. RcvTypes'
  BY <1>0, <1>4, <1>5 DEF RcvTypes
<1>7. \A q \in Proc : q # p =>
         status'[q] = status[q] /\ adapter'[q] = adapter[q] /\ tuners'[q] = tuners[q]
  BY <1>0, <1>4 DEF Ends, RcvTypes
<1>8. \A q \in Proc : status'[q] = "new" => Fresh(q)'
  BY <1>0, <1>1, <1>7 DEF Fresh
<1> QED BY <1>0, <1>1, <1>2, <1>3, <1>6, <1>8 DEF RcvInv

\* A motor command leaves the reservations and the adapters alone.
LEMMA MotorStep ==
  ASSUME RcvInv, NEW p \in Proc, NEW id \in SubId, NEW pos \in MotorTarget,
         RcvPositionerCmd(p, id, pos)
  PROVE  RcvInv'
<1>0. /\ StateOK /\ Alone /\ RcvTypes /\ failed_assert \in Labels \cup {"stopped_twice"}
      /\ status \in [Proc -> {"new", "alive", "dead"}]
      /\ \A q \in Proc : status[q] = "new" => Fresh(q)
  BY DEF RcvInv, StateOK, IInv
<1>1. /\ PositionerCmd(p, id, pos) /\ status[p] = "alive"
      /\ UNCHANGED <<adapter, tuners, services, retired, undoing>>
  BY DEF RcvPositionerCmd, rvars, Idle
<1>2. PICK out : GoodOutcome(out) /\ out.sub = sub /\ Commit(p, out)
  BY <1>0, <1>1, PositionerForm
<1>3. StateOK'
  BY <1>0, <1>2, CommitState
<1>4. /\ sub' = sub /\ failed_assert' \in Labels \cup {"stopped_twice"}
      /\ \A q \in Proc : status'[q] = status[q] \/ (q = p /\ status'[q] = "dead")
  BY <1>0, <1>2 DEF Commit, GoodOutcome
<1>5. Alone'
  BY <1>0, <1>1, <1>4, StayAlone
<1>6. RcvTypes'
  BY <1>0, <1>1 DEF RcvTypes
<1>7. \A q \in Proc : status'[q] = "new" => Fresh(q)'
  BY <1>0, <1>1, <1>4 DEF Fresh
<1>8. ASSUME NEW q \in Proc, status'[q] = "alive"
      PROVE  Fits(sub, q, Adapters(q), Over(q), {})'
  <2>1. status[q] = "alive"
    BY <1>4, <1>8
  <2>2. Fits(sub, q, Adapters(q), Over(q), {})
    BY <2>1 DEF RcvInv
  <2>3. Adapters(q)' = Adapters(q) /\ Over(q)' = Over(q)
    BY <1>1 DEF Adapters, Over
  <2> QED BY <1>4, <2>2, <2>3
<1> QED BY <1>3, <1>4, <1>5, <1>6, <1>7, <1>8 DEF RcvInv

\* Every task preserves the invariant.
LEMMA RcvNextOK ==
  ASSUME RcvInv, MaxInstances <= 1, ~UnknownNetwork, [RcvNext]_<<vars, rvars>>
  PROVE  RcvInv'
<1>1. ASSUME NEW p \in Proc, RcvCrash(p) \/ RcvExit(p)
      PROVE  RcvInv'
  <2>1. /\ status[p] = "alive" /\ Ends(p) /\ NoAdapters(p)
        /\ failed_assert' \in {failed_assert, "stopped_twice"}
    BY <1>1 DEF RcvCrash, RcvExit, Crash, Ends
  <2> QED BY <2>1, EndStep
<1>2. ASSUME NEW p \in Proc, RcvUndo(p)
      PROVE  RcvInv'
  <2>1. undoing[p] \in SubId /\ unsubscribe(p, undoing[p])
    BY <1>2 DEF RcvUndo, RcvInv, RcvTypes
  <2> QED BY <2>1, UnsubscribeStep
<1>3. ASSUME NEW p \in Proc, NEW id \in SubId, RcvUnsubscribe(p, id)
      PROVE  RcvInv'
  <2>1. undoing[p] = None /\ unsubscribe(p, id)
    BY <1>3 DEF RcvUnsubscribe, Idle
  <2> QED BY <2>1, UnsubscribeStep
<1>4. ASSUME NEW p \in Proc, NEW id \in SubId, NEW m \in Mux, NEW o \in MuxOptions,
             RcvSubscribeMux(p, id, m, o)
      PROVE  RcvInv'
  <2>1. PICK out \in subscribe_mux(p, id, m, NoService, o) :
           Apply(p, out, tuned(receiver_subscribe(p, id, out.ret), id, out.ret, NoService))
    BY <1>4 DEF RcvSubscribeMux
  <2>2. Idle(p, id) /\ UNCHANGED <<retired, undoing>>
    BY <1>4 DEF RcvSubscribeMux
  <2>3. Tuned(NoService, m) /\ NoService \in Service \cup {NoService}
    BY DEF Tuned
  <2> QED BY <2>1, <2>2, <2>3, MuxStep
<1>5. ASSUME NEW p \in Proc, NEW id \in SubId, NEW s \in Service, NEW o \in MuxOptions,
             RcvSubscribeService(p, id, s, o)
      PROVE  RcvInv'
  <2>1. PICK out \in subscribe_mux(p, id, ServiceMux[s], s, o) :
           Apply(p, out, tuned(receiver_subscribe(p, id, out.ret), id, out.ret, s))
    BY <1>5 DEF RcvSubscribeService
  <2>2. Idle(p, id) /\ UNCHANGED <<retired, undoing>>
    BY <1>5 DEF RcvSubscribeService
  <2>3. /\ Tuned(s, ServiceMux[s]) /\ ServiceMux[s] \in Mux
        /\ s \in Service \cup {NoService}
    BY ChannelAssumption DEF Tuned
  <2> QED BY <2>1, <2>2, <2>3, MuxStep
<1>6. CASE UNCHANGED <<vars, rvars>>
  <2>1. /\ sub' = sub /\ status' = status /\ dish_pos' = dish_pos /\ target' = target
        /\ failed_assert' = failed_assert /\ adapter' = adapter /\ tuners' = tuners
        /\ services' = services /\ retired' = retired /\ undoing' = undoing
    BY <1>6 DEF vars, rvars
  <2> QED BY <2>1 DEF RcvInv, StateOK, Alone, OthersOwn, RcvTypes, Adapters, Over, Fresh
<1> QED BY <1>1, <1>2, <1>3, <1>4, <1>5, <1>6, StartStep, BandStep, LnbStep, MotorStep
        DEF RcvNext

\* The invariant holds at the start.
LEMMA RcvInitOK ==
  RcvInit => RcvInv
<1> SUFFICES ASSUME RcvInit PROVE RcvInv
  OBVIOUS
<1>1. StateOK /\ failed_assert \in Labels
  BY InitOK DEF RcvInit, Inv
<1>2. \A p \in Proc : status[p] = "new"
  BY DEF RcvInit, Init
<1>3. Alone
  BY <1>2 DEF Alone
<1>4. RcvTypes
  BY DEF RcvInit, RcvTypes, MapType, ServiceType
<1>5. \A p \in Proc : Fresh(p)
  BY DEF RcvInit, Fresh
<1> QED BY <1>1, <1>2, <1>3, <1>4, <1>5 DEF RcvInv

-----------------------------------------------------------------------------
(* The theorems, for one process at a time and for requests to control an  *)
(* LNB that name a satellite which the LNB knows.  A second process that   *)
(* starts removes the reservations of the first, whose adapters stay; and a*)
(* request for an unknown satellite reserves a frontend and then fails.    *)

\* The active adapters fit the reservations in every reachable state.
THEOREM AdaptersInvariant ==
  ASSUME MaxInstances <= 1, ~UnknownNetwork
  PROVE  RcvSpec => []RcvInv
BY RcvInitOK, RcvNextOK, PTL DEF RcvSpec

\* A subscription that holds a frontend is served by the adapter of that
\* frontend (release_active_adapter, find_or_create_active_adapter).
THEOREM ReservedIsServed ==
  ASSUME MaxInstances <= 1, ~UnknownNetwork
  PROVE  RcvSpec => []ServedByReserved
<1>1. RcvInv => ServedByReserved
  <2> SUFFICES ASSUME RcvInv, NEW p \in Proc, NEW f \in Fe, status[p] = "alive",
                      NEW id \in Users(p, f)
               PROVE  adapter[p][id] = f
    BY DEF ServedByReserved
  <2>1. Serves(sub, p, Adapters(p).adapter)
    BY DEF RcvInv, Fits
  <2>2. Adapters(p).adapter = adapter[p]
    BY DEF Adapters
  <2>3. id \in UsersIn(sub, p, f)
    BY DEF Users, UsersIn
  <2> QED BY <2>1, <2>2, <2>3 DEF Serves
<1> QED BY <1>1, AdaptersInvariant, PTL

\* A tuner thread runs exactly while its frontend is reserved: it is neither
\* stopped under a sharing subscription nor left behind.
THEOREM TunerRunsWhileReserved ==
  ASSUME MaxInstances <= 1, ~UnknownNetwork
  PROVE  RcvSpec => []TunerIffReserved
<1>1. RcvInv => TunerIffReserved
  <2> SUFFICES ASSUME RcvInv, NEW p \in Proc, status[p] = "alive"
               PROVE  tuners[p] = {f \in Fe : Users(p, f) # {}}
    BY DEF TunerIffReserved
  <2>1. Threads(sub, p, Adapters(p).tuners)
    BY DEF RcvInv, Fits
  <2>2. Adapters(p).tuners = tuners[p]
    BY DEF Adapters
  <2>3. \A f \in Fe : UsersIn(sub, p, f) = Users(p, f)
    BY DEF Users, UsersIn
  <2> QED BY <2>1, <2>2, <2>3 DEF Threads
<1> QED BY <1>1, AdaptersInvariant, PTL

\* No assertion about the map of adapters fails.
THEOREM AdapterAlwaysFound ==
  ASSUME MaxInstances <= 1, ~UnknownNetwork
  PROVE  RcvSpec => []AdapterFound
<1>1. RcvInv => AdapterFound
  BY DEF RcvInv, AdapterFound, Labels, NoFailure
<1> QED BY <1>1, AdaptersInvariant, PTL

\* Whoever has reserved a service has one running on its adapter
\* (tune_service).
THEOREM ReservedServiceRuns ==
  ASSUME MaxInstances <= 1, ~UnknownNetwork
  PROVE  RcvSpec => []ServiceRuns
<1>1. RcvInv => ServiceRuns
  <2> SUFFICES ASSUME RcvInv, NEW p \in Proc, NEW f \in Fe, status[p] = "alive",
                      NEW i \in DOMAIN sub[f].subs, sub[f].owner = p,
                      sub[f].subs[i].service # NoService
               PROVE  services[p][f][sub[f].subs[i].subscription_id] # NoService
    BY DEF ServiceRuns
  <2> DEFINE id == sub[f].subs[i].subscription_id
  <2>1. Runs(sub, p, Adapters(p).services, {}) /\ sub \in [Fe -> SubType]
    BY DEF RcvInv, Fits, StateOK, IInv
  <2>2. Adapters(p).services = services[p]
    BY DEF Adapters
  <2>3. sub[f].subs \in Seq(EntryType)
    BY <2>1 DEF SubType, EntryType
  <2>4. sub[f].subs[i] \in EntryType
    BY <2>3
  <2>5. id \in SubId
    BY <2>4 DEF EntryType
  <2>6. Needs(sub, p, f, id)
    BY DEF Needs
  <2> QED BY <2>1, <2>2, <2>5, <2>6 DEF Runs
<1> QED BY <1>1, AdaptersInvariant, PTL
=============================================================================
