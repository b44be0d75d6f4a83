------------------------- MODULE FeSubscribe_proofs -------------------------
(***************************************************************************)
(* Proofs about FeSubscribe, for every installation and any number of      *)
(* processes and subscriptions.                                            *)
(*                                                                         *)
(* The inductive invariant IInv speaks of a database db and a process      *)
(* table st rather than of the variables, because the operations build     *)
(* their result in two stages: first the subscription leaves its old       *)
(* frontend (unsubscribed), then a record is written (Reserved,            *)
(* subscribe_fe_in_use, ...).  Lemma LeaveOK shows that IInv survives the  *)
(* first stage and PutOK that it survives the second.                      *)
(*                                                                         *)
(* The second part is about how subscriptions share frontends, adapters,   *)
(* unicable channels and dishes, and about when assertions can fail.       *)
(***************************************************************************)
EXTENDS FeSubscribe, SequenceTheorems, FiniteSetTheorems, WellFoundedInduction,
        NaturalsInduction, TLAPS

EntryType == [subscription_id: SubId, has_mux: BOOLEAN,
              service: Service \cup {NoService}]

PolType  == {NONE} \cup {MuxInfo[m].pol : m \in Mux} \cup {b.pol : b \in BandRequest}
BandType == {NONE} \cup {MuxInfo[m].band : m \in Mux} \cup {b.band : b \in BandRequest}

Live(db, st) == {f \in Fe : db[f].owner # None /\ st[db[f].owner] = "alive"}

Whole(r) == \/ r = NoSub
            \/ r.owner # None /\ r.config_id # None /\ r.subs # <<>>

WholeDb(db) == \A f \in Fe : Whole(db[f])

LnbUnique(db) ==
  \A f \in Fe : \A i \in DOMAIN db[f].subs :
     ~db[f].subs[i].has_mux => Len(db[f].subs) = 1 /\ db[f].mux_key = NoMux

Unique(db) ==
  \A f, g \in Fe : \A i \in DOMAIN db[f].subs, j \in DOMAIN db[g].subs :
     /\ db[f].owner = db[g].owner
     /\ db[f].subs[i].subscription_id = db[g].subs[j].subscription_id
     => f = g /\ i = j

Compatible(db, st) ==
  \A f, g \in Live(db, st) :
     f # g /\ db[f].rf_path \in RfPath /\ db[g].rf_path \in RfPath
     => ~conflicts(db[f], db[g], PathInfo[db[g].rf_path].unicable)

IInv(db, st) ==
  /\ db \in [Fe -> SubType] /\ st \in [Proc -> {"new", "alive", "dead"}]
  /\ WholeDb(db) /\ LnbUnique(db) /\ Unique(db) /\ Compatible(db, st)

\* No entry of subscription id of process p.
Absent(db, p, id) ==
  \A f \in Fe : db[f].owner = p =>
     \A i \in DOMAIN db[f].subs : db[f].subs[i].subscription_id # id

-----------------------------------------------------------------------------
(* The record type.                                                        *)

\* The record of a frontend without reservation has the type of a record.
LEMMA NoSubType == NoSub \in SubType
  BY HardwareAssumption, ChannelAssumption
  DEF NoSub, SubType, NoPath, None, NoLnb, NONE

\* Removing an entry: what erase returns.
LEMMA EraseProperties ==
  ASSUME NEW S, NEW s \in Seq(S), NEW i \in DOMAIN s
  PROVE  /\ erase(s, i) \in Seq(S)
         /\ Len(erase(s, i)) = Len(s) - 1
         /\ \A j \in DOMAIN erase(s, i) :
               erase(s, i)[j] = s[IF j < i THEN j ELSE j + 1]
<1> DEFINE a == SubSeq(s, 1, i-1)
           b == SubSeq(s, i+1, Len(s))
<1>1. i \in 1..Len(s) /\ Len(s) \in Nat
  BY LenProperties
<1>2. a \in Seq(S) /\ Len(a) = i - 1 /\ \A j \in 1..(i-1) : a[j] = s[j]
  BY <1>1, SubSeqProperties
<1>3. b \in Seq(S) /\ Len(b) = Len(s) - i
       /\ \A j \in 1..(Len(s) - i) : b[j] = s[i + j]
  BY <1>1, SubSeqProperties
<1> HIDE DEF a, b
<1>4. a \o b \in Seq(S) /\ Len(a \o b) = Len(s) - 1
       /\ \A j \in 1..(Len(s) - 1) :
             (a \o b)[j] = IF j <= Len(a) THEN a[j] ELSE b[j - Len(a)]
  BY <1>1, <1>2, <1>3, ConcatProperties
<1>5. DOMAIN (a \o b) = 1..(Len(s) - 1)
  BY <1>4, LenProperties
<1>6. \A j \in 1..(Len(s) - 1) : (a \o b)[j] = s[IF j < i THEN j ELSE j + 1]
  <2> TAKE j \in 1..(Len(s) - 1)
  <2>1. CASE j < i
    BY <2>1, <1>1, <1>2, <1>4
  <2>2. CASE ~(j < i)
    <3>1. j - Len(a) \in 1..(Len(s) - i) /\ i + (j - Len(a)) = j + 1
      BY <2>2, <1>1, <1>2
    <3>2. b[j - Len(a)] = s[i + (j - Len(a))]
      BY <3>1, <1>3
    <3>3. (a \o b)[j] = b[j - Len(a)]
      BY <2>2, <1>1, <1>2, <1>4
    <3> QED BY <2>2, <3>1, <3>2, <3>3
  <2> QED BY <2>1, <2>2
<1> QED BY <1>4, <1>5, <1>6 DEF erase, a, b

-----------------------------------------------------------------------------
(* Leaving a frontend.                                                     *)

\* unsubscribe_helper removes exactly the entry of the subscription and, with
\* the last one, the whole record; it leaves the other fields alone.
LEMMA HelperOK ==
  ASSUME NEW r \in SubType, NEW id \in SubId, holds(r, id), Whole(r),
         \A i, j \in DOMAIN r.subs :
            r.subs[i].subscription_id = r.subs[j].subscription_id => i = j
  PROVE  LET q == unsubscribe_helper(r, id) IN
         /\ q \in SubType /\ Whole(q)
         /\ q = NoSub \/ q = [r EXCEPT !.subs = q.subs]
         /\ q # NoSub <=> Len(r.subs) >= 2
         /\ Len(r.subs) = 1 => q = NoSub
         /\ \A i \in DOMAIN q.subs :
               /\ q.subs[i].subscription_id # id
               /\ \E k \in DOMAIN r.subs : q.subs[i] = r.subs[k]
         /\ \A i, j \in DOMAIN q.subs :
               q.subs[i].subscription_id = q.subs[j].subscription_id => i = j
<1> DEFINE q == unsubscribe_helper(r, id)
           e == entry_index(r.subs, id)
           left == erase(r.subs, e)
<1>1. r.subs \in Seq(EntryType)
  BY DEF SubType, EntryType
<1>2. PICK i \in DOMAIN r.subs : r.subs[i].subscription_id = id
  BY DEF holds
<1>3. i \in 1..Len(r.subs) /\ Len(r.subs) \in Nat /\ DOMAIN r.subs = 1..Len(r.subs)
  BY <1>1, <1>2, LenProperties
<1>4. \A j \in 1..(i-1) : r.subs[j].subscription_id # id
  BY <1>2, <1>3
<1>5. e = i
  <2>1. e \in DOMAIN r.subs /\ r.subs[e].subscription_id = id
    BY <1>2, <1>4 DEF entry_index
  <2> QED BY <2>1, <1>2
<1>6. /\ left \in Seq(EntryType) /\ Len(left) = Len(r.subs) - 1
      /\ \A j \in DOMAIN left : left[j] = r.subs[IF j < i THEN j ELSE j + 1]
  BY <1>1, <1>2, <1>5, EraseProperties
<1>7. DOMAIN left = 1..(Len(r.subs) - 1)
  BY <1>6, LenProperties
<1>8. q = IF left = <<>> THEN NoSub ELSE [r EXCEPT !.subs = left]
  BY DEF unsubscribe_helper
<1> HIDE DEF left, e, q
<1>9. left = <<>> <=> Len(r.subs) = 1
  <2>1. left = <<>> <=> Len(left) = 0
    BY <1>6, EmptySeq
  <2> QED BY <2>1, <1>3, <1>6
<1>10. CASE left = <<>>
  <2>1. q = NoSub /\ DOMAIN q.subs = {}
    BY <1>8, <1>10 DEF NoSub
  <2>2. ~(Len(r.subs) >= 2)
    BY <1>3, <1>9, <1>10
  <2> QED BY <2>1, <2>2, <1>9, <1>10, NoSubType DEF q, Whole
<1>11. CASE left # <<>>
  <2>1. q = [r EXCEPT !.subs = left] /\ q.subs = left
    BY <1>8, <1>11 DEF SubType
  <2>2. q \in SubType
    BY <2>1, <1>6 DEF SubType, EntryType
  <2>3. r # NoSub
    BY <1>3 DEF NoSub
  <2>4. Whole(q)
    BY <2>1, <2>3, <1>11 DEF Whole, SubType
  <2>5. Len(r.subs) >= 2
    BY <1>3, <1>6, <1>7, <1>9, <1>11
  <2>6. ASSUME NEW j \in DOMAIN q.subs
        PROVE  /\ (IF j < i THEN j ELSE j + 1) \in DOMAIN r.subs
               /\ (IF j < i THEN j ELSE j + 1) # i
               /\ q.subs[j] = r.subs[IF j < i THEN j ELSE j + 1]
    BY <2>1, <1>3, <1>6, <1>7
  <2>7. \A j \in DOMAIN q.subs :
           /\ q.subs[j].subscription_id # id
           /\ \E k \in DOMAIN r.subs : q.subs[j] = r.subs[k]
    BY <2>6, <1>2
  <2>8. ASSUME NEW j \in DOMAIN q.subs, NEW k \in DOMAIN q.subs,
               q.subs[j].subscription_id = q.subs[k].subscription_id
        PROVE  j = k
    <3>1. (IF j < i THEN j ELSE j + 1) = (IF k < i THEN k ELSE k + 1)
      BY <2>6, <2>8
    <3> QED BY <3>1, <2>1, <1>3, <1>7
  <2>9. q = [r EXCEPT !.subs = q.subs]
    BY <2>1
  <2>10. q # NoSub
    BY <2>1, <1>11 DEF NoSub
  <2> QED BY <2>2, <2>4, <2>5, <2>7, <2>8, <2>9, <2>10, <1>9, <1>11 DEF q
<1> QED BY <1>10, <1>11

\* The fields of a record that conflicts reads.
SameClaim(t, q) ==
  /\ t.rf_path = q.rf_path /\ t.sat_pos = q.sat_pos /\ t.pol = q.pol
  /\ t.band = q.band /\ t.usals_pos = q.usals_pos
  /\ t.dish_usals_pos = q.dish_usals_pos /\ t.dish_id = q.dish_id
  /\ t.rf_coupler_id = q.rf_coupler_id

\* Records with the same claim have the same conflicts.
LEMMA ClaimDecides ==
  ASSUME NEW t, NEW q, NEW s, NEW u, SameClaim(t, q)
  PROVE  /\ conflicts(t, s, u) = conflicts(q, s, u)
         /\ conflicts(s, t, u) = conflicts(s, q, u)
BY DEF SameClaim, conflicts, is_exclusive, may_change_lnb, may_move_dish,
       same_rf_path, same_dish, same_tuner, same_rf_coupler, same_sat_band_pol

\* Whether two reservations conflict does not depend on which came first.
LEMMA ConflictSymmetric ==
  ASSUME NEW t \in SubType, NEW s \in SubType,
         ~conflicts(t, s, PathInfo[s.rf_path].unicable)
  PROVE  ~conflicts(s, t, PathInfo[t.rf_path].unicable)
<1>1. same_rf_path(t, s) = same_rf_path(s, t) /\ same_dish(t, s) = same_dish(s, t)
  BY DEF same_rf_path, same_dish
<1>2. same_tuner(t, s) = same_tuner(s, t) /\ same_rf_coupler(t, s) = same_rf_coupler(s, t)
  BY DEF same_tuner, same_rf_coupler
<1>3. same_sat_band_pol(t, s) = same_sat_band_pol(s, t)
  BY DEF same_sat_band_pol
<1>4. same_rf_path(t, s) => t.rf_path = s.rf_path
  BY DEF same_rf_path
<1> QED BY <1>1, <1>2, <1>3, <1>4 DEF conflicts

\* A subscription that leaves its frontend keeps the database in order and
\* frees the frontend that fe_key_to_release names.  What stays in use was
\* looked at by check_for_resource_conflicts, with the claim it still has.
LEMMA LeaveOK ==
  ASSUME IInv(sub, status), NEW p \in Proc, NEW id \in SubId,
         NEW old \in fe_for_subscription(p, id)
  PROVE  LET db  == unsubscribed(old, id)
             rel == fe_key_to_release(old, id) IN
         /\ IInv(db, status) /\ Absent(db, p, id)
         /\ \A f \in Fe : db[f] # NoSub =>
               db[f].owner = sub[f].owner /\ db[f].mux_key = sub[f].mux_key
         /\ old # NoFe => old \in Fe /\ sub[old].owner = p
         /\ rel # NoFe => db[rel] = NoSub
         /\ \A f \in Live(db, status) :
               f \in others_in_use(rel) /\ SameClaim(db[f], sub[f])
<1> DEFINE db  == unsubscribed(old, id)
           rel == fe_key_to_release(old, id)
<1>0. /\ sub \in [Fe -> SubType] /\ status \in [Proc -> {"new", "alive", "dead"}]
      /\ WholeDb(sub) /\ LnbUnique(sub) /\ Unique(sub) /\ Compatible(sub, status)
  BY DEF IInv
<1>a. NoFe \notin Fe
  BY DEF NoFe, Fe
<1>1. CASE old = NoFe
  <2>1. \A f \in Fe : ~(sub[f].owner = p /\ holds(sub[f], id))
    BY <1>1, <1>a DEF fe_for_subscription
  <2>2. db = sub /\ rel = NoFe
    BY <1>1 DEF unsubscribed, fe_key_to_release
  <2>3. Absent(sub, p, id)
    BY <2>1 DEF Absent, holds
  <2>4. \A f \in Live(sub, status) : f \in others_in_use(NoFe)
    BY <1>a DEF Live, others_in_use, is_subscribed
  <2>5. \A f \in Live(sub, status) : SameClaim(sub[f], sub[f])
    BY DEF SameClaim
  <2> HIDE DEF db, rel
  <2> QED BY <1>1, <2>2, <2>3, <2>4, <2>5 DEF db, rel
<1>2. CASE old # NoFe
  <2>1. old \in Fe /\ sub[old].owner = p /\ holds(sub[old], id)
    BY <1>2 DEF fe_for_subscription
  <2> DEFINE r == sub[old]
             q == unsubscribe_helper(r, id)
  <2>2. r \in SubType /\ Whole(r)
    BY <1>0, <2>1 DEF WholeDb
  <2>3. \A i, j \in DOMAIN r.subs :
           r.subs[i].subscription_id = r.subs[j].subscription_id => i = j
    BY <1>0, <2>1 DEF Unique
  <2>4. /\ q \in SubType /\ Whole(q)
        /\ q = NoSub \/ q = [r EXCEPT !.subs = q.subs]
        /\ q # NoSub => Len(r.subs) >= 2
        /\ Len(r.subs) = 1 => q = NoSub
        /\ \A i \in DOMAIN q.subs :
              /\ q.subs[i].subscription_id # id
              /\ \E k \in DOMAIN r.subs : q.subs[i] = r.subs[k]
        /\ \A i, j \in DOMAIN q.subs :
              q.subs[i].subscription_id = q.subs[j].subscription_id => i = j
    BY <2>1, <2>2, <2>3, HelperOK
  <2>5. db = [sub EXCEPT ![old] = q]
    BY <1>2 DEF unsubscribed
  <2>6. /\ db \in [Fe -> SubType] /\ db[old] = q
        /\ \A f \in Fe : f # old => db[f] = sub[f]
    BY <2>1, <2>4, <2>5, <1>0
  <2> HIDE DEF db, q
  <2>7. NoSub.subs = <<>> /\ NoSub.owner = None /\ DOMAIN <<>> = {}
    BY DEF NoSub
  <2>8. q # NoSub => /\ q.owner = p /\ q.mux_key = r.mux_key /\ SameClaim(q, r)
    BY <2>1, <2>2, <2>4 DEF SubType, SameClaim
  <2>9. WholeDb(db)
    BY <1>0, <2>4, <2>6 DEF WholeDb
  <2>10. LnbUnique(db)
    <3> SUFFICES ASSUME NEW f \in Fe, NEW i \in DOMAIN db[f].subs,
                        ~db[f].subs[i].has_mux
                 PROVE  Len(db[f].subs) = 1 /\ db[f].mux_key = NoMux
      BY DEF LnbUnique
    <3>1. CASE f # old
      BY <3>1, <2>6, <1>0 DEF LnbUnique
    <3>2. CASE f = old
      <4>1. PICK k \in DOMAIN r.subs : q.subs[i] = r.subs[k]
        BY <3>2, <2>4, <2>6
      <4>2. Len(r.subs) = 1
        BY <4>1, <3>2, <2>1, <2>6, <1>0 DEF LnbUnique
      <4> QED BY <4>2, <3>2, <2>4, <2>6, <2>7
    <3> QED BY <3>1, <3>2
  <2>11. Absent(db, p, id)
    <3> SUFFICES ASSUME NEW f \in Fe, db[f].owner = p, NEW i \in DOMAIN db[f].subs
                 PROVE  db[f].subs[i].subscription_id # id
      BY DEF Absent
    <3>1. CASE f = old
      BY <3>1, <2>4, <2>6
    <3>2. CASE f # old
      BY <3>2, <2>1, <2>6, <1>0 DEF Unique, holds
    <3> QED BY <3>1, <3>2
  <2>12. Unique(db)
    <3> SUFFICES ASSUME NEW f \in Fe, NEW g \in Fe, NEW i \in DOMAIN db[f].subs,
                        NEW j \in DOMAIN db[g].subs, db[f].owner = db[g].owner,
                        db[f].subs[i].subscription_id = db[g].subs[j].subscription_id
                 PROVE  f = g /\ i = j
      BY DEF Unique
    <3>0. ASSUME NEW h \in Fe, NEW k \in DOMAIN db[h].subs
          PROVE  \E n \in DOMAIN sub[h].subs : db[h].subs[k] = sub[h].subs[n]
      BY <3>0, <2>4, <2>6
    <3>1. PICK m \in DOMAIN sub[f].subs : db[f].subs[i] = sub[f].subs[m]
      BY <3>0
    <3>2. PICK n \in DOMAIN sub[g].subs : db[g].subs[j] = sub[g].subs[n]
      BY <3>0
    <3>3. db[f].owner = sub[f].owner /\ db[g].owner = sub[g].owner
      BY <2>1, <2>6, <2>7, <2>8
    <3>a. /\ sub[f].owner = sub[g].owner
          /\ sub[f].subs[m].subscription_id = sub[g].subs[n].subscription_id
      BY <3>1, <3>2, <3>3
    <3>b. Unique(sub)
      BY <1>0
    <3>4. f = g
      BY <3>a, <3>b DEF Unique
    <3>5. CASE f = old
      BY <3>4, <3>5, <2>4, <2>6
    <3>6. CASE f # old
      BY <3>4, <3>6, <2>6, <1>0 DEF Unique
    <3> QED BY <3>4, <3>5, <3>6
  <2>13. \A f \in Live(db, status) : f \in Live(sub, status) /\ SameClaim(db[f], sub[f])
    BY <2>1, <2>6, <2>7, <2>8 DEF Live, SameClaim
  <2>14. Compatible(db, status)
    <3> SUFFICES ASSUME NEW f \in Live(db, status), NEW g \in Live(db, status), f # g,
                        db[f].rf_path \in RfPath, db[g].rf_path \in RfPath
                 PROVE  ~conflicts(db[f], db[g], PathInfo[db[g].rf_path].unicable)
      BY DEF Compatible
    <3>1. sub[f].rf_path = db[f].rf_path /\ sub[g].rf_path = db[g].rf_path
      BY <2>13 DEF SameClaim
    <3>2. ~conflicts(sub[f], sub[g], PathInfo[sub[g].rf_path].unicable)
      BY <2>13, <3>1, <1>0 DEF Compatible
    <3>3. ~conflicts(db[f], sub[g], PathInfo[sub[g].rf_path].unicable)
      BY <2>13, <3>2, ClaimDecides
    <3>4. ~conflicts(db[f], db[g], PathInfo[sub[g].rf_path].unicable)
      BY <2>13, <3>3, ClaimDecides
    <3> QED BY <3>1, <3>4
  <2>15. rel # NoFe => rel = old /\ q = NoSub
    <3> SUFFICES ASSUME rel # NoFe PROVE rel = old /\ q = NoSub
      OBVIOUS
    <3>1. rel = old /\ \A i \in DOMAIN r.subs : r.subs[i].subscription_id = id
      BY <1>2 DEF fe_key_to_release
    <3>2. r.subs \in Seq(EntryType)
      BY <2>2 DEF SubType, EntryType
    <3>3. Len(r.subs) \in Nat /\ DOMAIN r.subs = 1..Len(r.subs)
      BY <3>2, LenProperties
    <3>4. Len(r.subs) < 2
      <4> SUFFICES ASSUME Len(r.subs) >= 2 PROVE FALSE
        BY <3>3
      <4>1. 1 \in DOMAIN r.subs /\ 2 \in DOMAIN r.subs
        BY <3>3
      <4> QED BY <4>1, <3>1, <2>3
    <3> QED BY <3>1, <3>3, <3>4, <2>4
  <2>16. \A f \in Live(db, status) : f # rel
    BY <2>6, <2>7, <2>15, <1>a DEF Live
  <2>17. \A f \in Live(db, status) : f \in others_in_use(rel)
    BY <2>13, <2>16 DEF Live, others_in_use, is_subscribed
  <2>18. \A f \in Fe : db[f] # NoSub =>
            db[f].owner = sub[f].owner /\ db[f].mux_key = sub[f].mux_key
    BY <2>1, <2>6, <2>8
  <2>19. IInv(db, status)
    BY <1>0, <2>6, <2>9, <2>10, <2>12, <2>14 DEF IInv
  <2> QED BY <2>1, <2>6, <2>11, <2>13, <2>15, <2>17, <2>18, <2>19 DEF db
<1> QED BY <1>1, <1>2

-----------------------------------------------------------------------------
(* Writing a record.                                                       *)

\* Appending an entry to a sequence of entries.
LEMMA AppendEntry ==
  ASSUME NEW s \in Seq(EntryType), NEW e \in EntryType
  PROVE  /\ Append(s, e) \in Seq(EntryType) /\ Append(s, e) # <<>>
         /\ Len(Append(s, e)) = Len(s) + 1 /\ Len(s) \in Nat
         /\ DOMAIN s = 1..Len(s) /\ DOMAIN Append(s, e) = 1..(Len(s) + 1)
         /\ \A i \in DOMAIN s : Append(s, e)[i] = s[i]
         /\ Append(s, e)[Len(s) + 1] = e
<1>1. Len(s) \in Nat /\ DOMAIN s = 1..Len(s)
  BY LenProperties
<1>2. /\ Append(s, e) \in Seq(EntryType) /\ Len(Append(s, e)) = Len(s) + 1
      /\ \A i \in 1..Len(s) : Append(s, e)[i] = s[i]
      /\ Append(s, e)[Len(s) + 1] = e
  BY AppendProperties
<1>3. DOMAIN Append(s, e) = 1..(Len(s) + 1)
  BY <1>2, LenProperties
<1>4. Append(s, e) # <<>>
  BY <1>1, <1>2, EmptySeq
<1> QED BY <1>1, <1>2, <1>3, <1>4

\* Writing a record for a subscription that is nowhere in the database keeps
\* the database in order, provided that the frontend is free or is used by
\* subscribers of a mux, and that the claim is compatible with those in use.
LEMMA PutOK ==
  ASSUME NEW db, NEW st, IInv(db, st), NEW f \in Fe, NEW p \in Proc, NEW id \in SubId,
         Absent(db, p, id),
         NEW rec \in SubType, NEW e \in EntryType, e.subscription_id = id,
         rec.owner = p, rec.config_id # None, rec.subs = Append(db[f].subs, e),
         db[f] # NoSub => db[f].owner = p /\ db[f].mux_key # NoMux /\ e.has_mux,
         ~e.has_mux => rec.mux_key = NoMux,
         \A g \in Live(db, st) : g # f /\ rec.rf_path \in RfPath /\ db[g].rf_path \in RfPath
            => ~conflicts(db[g], rec, PathInfo[rec.rf_path].unicable)
  PROVE  IInv([db EXCEPT ![f] = rec], st)
<1> DEFINE new == [db EXCEPT ![f] = rec]
           old == db[f].subs
<1>0. /\ db \in [Fe -> SubType] /\ st \in [Proc -> {"new", "alive", "dead"}]
      /\ WholeDb(db) /\ LnbUnique(db) /\ Unique(db) /\ Compatible(db, st)
  BY DEF IInv
<1>1. new \in [Fe -> SubType] /\ new[f] = rec /\ \A g \in Fe : g # f => new[g] = db[g]
  BY <1>0
<1> HIDE DEF new
<1>2. old \in Seq(EntryType)
  BY <1>0 DEF SubType, EntryType
<1>3. /\ rec.subs # <<>> /\ Len(rec.subs) = Len(old) + 1 /\ Len(old) \in Nat
      /\ DOMAIN old = 1..Len(old) /\ DOMAIN rec.subs = 1..(Len(old) + 1)
      /\ \A i \in DOMAIN old : rec.subs[i] = old[i]
      /\ rec.subs[Len(old) + 1] = e
  BY <1>2, AppendEntry
<1>4. NoSub.subs = <<>> /\ Len(<<>>) = 0 /\ DOMAIN <<>> = {}
  BY DEF NoSub
<1>5. p # None
  BY RequestAssumption
<1>6. WholeDb(new)
  BY <1>0, <1>1, <1>3, <1>5 DEF WholeDb, Whole
<1>7. LnbUnique(new)
  <2> SUFFICES ASSUME NEW g \in Fe, NEW i \in DOMAIN new[g].subs,
                      ~new[g].subs[i].has_mux
               PROVE  Len(new[g].subs) = 1 /\ new[g].mux_key = NoMux
    BY DEF LnbUnique
  <2>1. CASE g # f
    BY <2>1, <1>0, <1>1 DEF LnbUnique
  <2>2. CASE g = f
    <3>1. CASE i = Len(old) + 1
      <4>1. ~e.has_mux
        BY <3>1, <2>2, <1>1, <1>3
      <4>2. db[f] = NoSub
        BY <4>1
      <4> QED BY <4>1, <4>2, <2>2, <1>1, <1>3, <1>4
    <3>2. CASE i # Len(old) + 1
      <4>1. i \in DOMAIN old /\ ~old[i].has_mux
        BY <3>2, <2>2, <1>1, <1>3
      <4>2. db[f] # NoSub
        BY <4>1, <1>4
      <4> QED BY <4>1, <4>2, <1>0 DEF LnbUnique
    <3> QED BY <3>1, <3>2
  <2> QED BY <2>1, <2>2
<1>8. ASSUME NEW g \in Fe, NEW i \in DOMAIN new[g].subs, new[g].owner = p,
             new[g].subs[i].subscription_id = id
      PROVE  g = f /\ i = Len(old) + 1
  <2>1. g = f
    BY <1>8, <1>1 DEF Absent
  <2>2. i \in DOMAIN old => db[f] # NoSub /\ rec.subs[i] = old[i]
    BY <1>3, <1>4
  <2>3. i \notin DOMAIN old
    BY <2>1, <2>2, <1>8, <1>1 DEF Absent
  <2> QED BY <2>1, <2>3, <1>1, <1>3
<1>9. Unique(new)
  <2> SUFFICES ASSUME NEW g \in Fe, NEW h \in Fe, NEW i \in DOMAIN new[g].subs,
                      NEW j \in DOMAIN new[h].subs, new[g].owner = new[h].owner,
                      new[g].subs[i].subscription_id = new[h].subs[j].subscription_id
               PROVE  g = h /\ i = j
    BY DEF Unique
  <2>1. CASE new[g].owner = p /\ new[g].subs[i].subscription_id = id
    BY <2>1, <1>8
  <2>2. CASE ~(new[g].owner = p /\ new[g].subs[i].subscription_id = id)
    <3>1. ASSUME NEW k \in Fe, NEW n \in DOMAIN new[k].subs,
                 ~(new[k].owner = p /\ new[k].subs[n].subscription_id = id)
          PROVE  /\ n \in DOMAIN db[k].subs /\ new[k].subs[n] = db[k].subs[n]
                 /\ new[k].owner = db[k].owner
      <4>1. CASE k # f
        BY <4>1, <1>1
      <4>2. CASE k = f
        <5>1. n # Len(old) + 1
          BY <3>1, <4>2, <1>1, <1>3
        <5>2. n \in DOMAIN old
          BY <5>1, <4>2, <1>1, <1>3
        <5> QED BY <5>2, <4>2, <1>1, <1>3, <1>4
      <4> QED BY <4>1, <4>2
    <3>2. /\ i \in DOMAIN db[g].subs /\ new[g].subs[i] = db[g].subs[i]
          /\ new[g].owner = db[g].owner
      BY <3>1, <2>2
    <3>3. /\ j \in DOMAIN db[h].subs /\ new[h].subs[j] = db[h].subs[j]
          /\ new[h].owner = db[h].owner
      BY <3>1, <2>2
    <3>4. Unique(db)
      BY <1>0
    <3>5. /\ db[g].owner = db[h].owner
          /\ db[g].subs[i].subscription_id = db[h].subs[j].subscription_id
      BY <3>2, <3>3
    <3> QED BY <3>2, <3>3, <3>4, <3>5 DEF Unique
  <2> QED BY <2>1, <2>2
<1>10. Compatible(new, st)
  <2> SUFFICES ASSUME NEW g \in Live(new, st), NEW h \in Live(new, st), g # h,
                      new[g].rf_path \in RfPath, new[h].rf_path \in RfPath
               PROVE  ~conflicts(new[g], new[h], PathInfo[new[h].rf_path].unicable)
    BY DEF Compatible
  <2>1. \A k \in Live(new, st) : k # f => k \in Live(db, st) /\ new[k] = db[k]
    BY <1>1 DEF Live
  <2>2. CASE g # f /\ h # f
    BY <2>1, <2>2, <1>0 DEF Compatible
  <2>3. CASE h = f
    BY <2>1, <2>3, <1>1
  <2>4. CASE g = f
    <3>1. ~conflicts(new[h], rec, PathInfo[rec.rf_path].unicable)
      BY <2>1, <2>4, <1>1
    <3>2. new[h] \in SubType
      BY <1>1 DEF Live
    <3> QED BY <2>4, <3>1, <3>2, <1>1, ConflictSymmetric
  <2> QED BY <2>2, <2>3, <2>4
<1> QED BY <1>0, <1>1, <1>6, <1>7, <1>9, <1>10 DEF IInv, new

-----------------------------------------------------------------------------
(* Outcomes of the operations.                                             *)

DishOK(pos, tgt) == pos \in [Positioner -> Pos] /\ tgt \in [Positioner -> Pos \cup {None}]

StateOK == IInv(sub, status) /\ DishOK(dish_pos, target)

GoodOutcome(out) ==
  /\ IInv(out.sub, status) /\ DishOK(out.dish_pos, out.target)
  /\ out.failed_assert \in Labels
  /\ out.failed_assert # NoFailure => out.sub = sub

\* An operation that moves no dish is good if the database it leaves is.
LEMMA StationaryOK ==
  ASSUME StateOK, NEW db, IInv(db, status), NEW ret
  PROVE  GoodOutcome(Stationary(db, ret))
BY DEF StateOK, GoodOutcome, Stationary, Outcome, Labels, NoFailure

\* A failing assertion leaves the database as it was.
LEMMA AbortOK ==
  ASSUME StateOK, NEW label \in Labels
  PROVE  GoodOutcome(Abort(label))
<1>1. Abort(label) = [Outcome(sub, dish_pos, target, Failed(NoFe))
                        EXCEPT !.failed_assert = label]
  BY DEF Abort, Stationary
<1>2. /\ Abort(label).sub = sub /\ Abort(label).failed_assert = label
      /\ Abort(label).dish_pos = dish_pos /\ Abort(label).target = target
  BY <1>1 DEF Outcome
<1> QED BY <1>2 DEF StateOK, GoodOutcome

\* A failed search gives up the old reservation or keeps everything.
LEMMA NotFoundOK ==
  ASSUME StateOK, NEW p \in Proc, NEW id \in SubId,
         NEW old \in fe_for_subscription(p, id), NEW keep
  PROVE  GoodOutcome(NotFound(old, id, keep))
<1>1. IInv(unsubscribed(old, id), status)
  BY LeaveOK DEF StateOK
<1> QED BY <1>1, StationaryOK DEF NotFound, StateOK

\* The position of an LNB is always one of the known positions.
LEMMA PosType ==
  ASSUME StateOK, NEW l \in Lnb
  PROVE  lnb_usals_pos(l) \in Pos /\ LnbInfo[l].dish \in Dish
BY HardwareAssumption DEF lnb_usals_pos, StateOK, DishOK

\* The claim that is checked has the type of a reservation.
LEMMA DesiredType ==
  ASSUME StateOK, NEW p \in Proc, NEW r \in RfPath, NEW sat \in Nat \cup {None},
         NEW pol \in PolType, NEW band \in BandType,
         NEW pos \in Pos \cup {None}
  PROVE  /\ desired(p, r, sat, pol, band, pos) \in SubType
         /\ desired(p, r, sat, pol, band, pos).rf_path = r
         /\ desired(p, r, sat, pol, band, pos).mux_key = NoMux
<1>1. r.lnb \in Lnb
  BY HardwareAssumption
<1>2. /\ LnbInfo[r.lnb].dish \in Dish /\ LnbInfo[r.lnb].usals_pos \in Pos
      /\ PathInfo[r].rf_coupler_id \in Nat \cup {None} /\ pos \in Nat \cup {None}
  BY <1>1, HardwareAssumption, ChannelAssumption
<1>3. <<>> \in Seq(EntryType)
  BY EmptySeq
<1> QED BY <1>2, <1>3 DEF desired, SubType, EntryType, PolType, BandType

\* The move of a dish that a reservation with these fields schedules.
MovesDish(id, old, s, fields, sat, may_move) ==
  LET l == fields.rf_path.lnb
  IN  /\ can_control_lnb(s, fe_key_to_release(old, id)) /\ may_move
      /\ LnbInfo[l].dish \in Positioner /\ has_network(l, sat)
      /\ lnb_usals_pos(l) # LnbInfo[l].networks[sat]

NewPos(id, old, s, fields, sat, may_move) ==
  LET l == fields.rf_path.lnb
  IN  IF MovesDish(id, old, s, fields, sat, may_move)
      THEN schedule_move(LnbInfo[l].dish, LnbInfo[l].networks[sat]) ELSE dish_pos

NewTarget(id, old, s, fields, sat, may_move) ==
  LET l == fields.rf_path.lnb
  IN  IF MovesDish(id, old, s, fields, sat, may_move)
      THEN [target EXCEPT ![LnbInfo[l].dish] = LnbInfo[l].networks[sat]] ELSE target

\* A failed assertion of the reservation.
ReserveFails(p, id, old, f, s, out) ==
  \E last \in last_scanned(fe_key_to_release(old, id)) :
     LET failure == reserve_failure(p, unsubscribed(old, id)[f],
                      can_control_lnb(s, fe_key_to_release(old, id)), last)
     IN  failure \in {"stale_reservation", "foreign_owner"} /\ out = Abort(failure)

\* A record that differs from fields only in owner and configuration number.
Written(p, rec, fields) ==
  /\ rec.owner = p /\ rec.config_id # None /\ rec.subs = fields.subs
  /\ rec.mux_key = fields.mux_key
  /\ rec.unicable_ch = fields.unicable_ch /\ SameClaim(rec, fields)

\* The record is written to a frontend that had none.
ReserveWrites(p, id, old, f, s, fields, sat, may_move, out) ==
  /\ unsubscribed(old, id)[f] = NoSub
  /\ \E rec \in SubType : \E ret :
        /\ out = Outcome([unsubscribed(old, id) EXCEPT ![f] = rec],
                         NewPos(id, old, s, fields, sat, may_move),
                         NewTarget(id, old, s, fields, sat, may_move), ret)
        /\ \/ ret = Ret(FALSE, old, f, None)
           \/ ret = Failed(old) /\ sat # None /\ ~has_network(fields.rf_path.lnb, sat)
        /\ Written(p, rec, fields)

\* How reserving a frontend that find_best_fe_for_lnb returned ends: with the
\* assertion that reserve_failure names, or with a record that differs from
\* fields only in its owner, this process, and its configuration number, on a
\* frontend that had none.
LEMMA ReservedForm ==
  ASSUME StateOK, NEW p \in Proc, status[p] = "alive", NEW id \in SubId,
         NEW old \in fe_for_subscription(p, id), NEW s, NEW f \in Fe,
         ~is_subscribed(f) \/ f = fe_key_to_release(old, id),
         NEW fields \in SubType, NEW sat, NEW may_move,
         NEW out \in Reserved(p, id, old, f, s, fields, sat, may_move)
  PROVE  \/ ReserveFails(p, id, old, f, s, out)
         \/ ReserveWrites(p, id, old, f, s, fields, sat, may_move, out)
<1> DEFINE rel == fe_key_to_release(old, id)
           db  == unsubscribed(old, id)
           l   == fields.rf_path.lnb
           d   == LnbInfo[l].dish
           master == can_control_lnb(s, rel)
           pos1 == NewPos(id, old, s, fields, sat, may_move)
           tgt1 == NewTarget(id, old, s, fields, sat, may_move)
<1>1. /\ IInv(db, status)
      /\ \A g \in Fe : db[g] # NoSub => db[g].owner = sub[g].owner
      /\ rel # NoFe => db[rel] = NoSub
  BY LeaveOK DEF StateOK
<1>2. PICK last \in last_scanned(rel), n \in next_config_id(p) :
        out = ReserveWith(p, id, old, f, s, fields, sat, may_move, last, n)
  BY DEF Reserved
<1> DEFINE failure == reserve_failure(p, db[f], master, last)
           rec == reserve(p, master, last, n, fields)
           no_dish == master /\ d \in Positioner /\ sat # None /\ ~has_network(l, sat)
<1>3. out = IF failure # NoFailure THEN Abort(failure)
            ELSE Outcome([db EXCEPT ![f] = rec], pos1, tgt1,
                         IF no_dish THEN Failed(old) ELSE Ret(FALSE, old, f, None))
  BY <1>2 DEF ReserveWith, NewPos, NewTarget, MovesDish
<1>4. CASE failure # NoFailure
  <2>1. failure \in {"stale_reservation", "foreign_owner"}
    BY <1>4 DEF reserve_failure, NoFailure
  <2> HIDE DEF pos1, tgt1, d, l
  <2> QED BY <1>3, <1>4, <2>1 DEF ReserveFails
<1>5. CASE failure = NoFailure
  <2>2. n \in Nat /\ p # None
    BY RequestAssumption, HardwareAssumption DEF next_config_id
  <2>3. ~master => counts_owner(last) = p
    BY <1>5 DEF reserve_failure, NoFailure
  <2>4. ~master => counts_config_id(last) \in Nat
    <3> SUFFICES ASSUME ~master PROVE counts_config_id(last) \in Nat
      OBVIOUS
    <3>1. last # NoFe /\ sub[last].owner = p
      BY <2>2, <2>3 DEF counts_owner
    <3>2. last \in Fe
      BY <3>1 DEF last_scanned, others_in_use
    <3>3. sub[last] \in SubType /\ Whole(sub[last])
      BY <3>2 DEF StateOK, IInv, WholeDb
    <3>4. sub[last].config_id # None
      BY <3>1, <3>3, <2>2 DEF Whole, NoSub
    <3> QED BY <3>1, <3>3, <3>4 DEF counts_config_id, SubType
  <2> HIDE DEF pos1, tgt1, d, l
  <2>5. rec = [fields EXCEPT !.owner = p,
                             !.config_id = IF master THEN n ELSE counts_config_id(last)]
    BY <2>3 DEF reserve
  <2>6. /\ rec \in SubType /\ rec.owner = p /\ rec.config_id # None
        /\ rec.subs = fields.subs /\ rec.mux_key = fields.mux_key
        /\ rec.unicable_ch = fields.unicable_ch /\ SameClaim(rec, fields)
    <3> DEFINE cid == IF master THEN n ELSE counts_config_id(last)
    <3>1. cid \in Nat
      BY <2>2, <2>4
    <3>2. cid # None
      BY <3>1 DEF None
    <3>3. rec = [fields EXCEPT !.owner = p, !.config_id = cid]
      BY <2>5
    <3> HIDE DEF cid, rec
    <3> QED BY <3>1, <3>2, <3>3 DEF SubType, SameClaim
  <2>7. db[f] = NoSub
    <3>1. Whole(db[f])
      BY <1>1 DEF IInv, WholeDb
    <3>2. db[f].owner \in {None, p}
      BY <1>5, <2>3 DEF reserve_failure, NoFailure
    <3>3. CASE db[f].owner = None
      BY <3>1, <3>3 DEF Whole
    <3>4. CASE db[f].owner = p
      <4>1. db[f] # NoSub
        BY <3>4, <2>2 DEF NoSub
      <4>2. is_subscribed(f)
        BY <4>1, <3>4, <1>1, <2>2 DEF is_subscribed
      <4>3. f = rel /\ rel # NoFe
        BY <4>2 DEF Fe, NoFe
      <4> QED BY <4>1, <4>3, <1>1
    <3> QED BY <3>2, <3>3, <3>4
  <2> DEFINE ret == IF no_dish THEN Failed(old) ELSE Ret(FALSE, old, f, None)
  <2>8. out = Outcome([db EXCEPT ![f] = rec], pos1, tgt1, ret)
    BY <1>3, <1>5
  <2>9. \/ ret = Ret(FALSE, old, f, None)
        \/ ret = Failed(old) /\ sat # None /\ ~has_network(l, sat)
    OBVIOUS
  <2> HIDE DEF rec, ret, failure, no_dish, master, db, rel
  <2>10. Written(p, rec, fields)
    BY <2>6 DEF Written
  <2> QED BY <2>6, <2>7, <2>8, <2>9, <2>10 DEF ReserveWrites, db, pos1, tgt1, l
<1> QED BY <1>4, <1>5

\* Reserving a frontend that find_best_fe_for_lnb returned keeps the database
\* in order, whatever is written, if its claim conflicts with nothing that the
\* checked claim s does not conflict with.
LEMMA ReservedOK ==
  ASSUME StateOK, NEW p \in Proc, status[p] = "alive", NEW id \in SubId,
         NEW old \in fe_for_subscription(p, id), NEW r \in RfPath, NEW s \in SubType,
         NEW blind, NEW multistream, NEW spectrum,
         NEW f \in find_best_fe_for_lnb(r, fe_key_to_release(old, id), s,
                                       blind, multistream, spectrum),
         NEW fields \in SubType, NEW e \in EntryType, e.subscription_id = id,
         fields.subs = Append(unsubscribed(old, id)[f].subs, e),
         ~e.has_mux => fields.mux_key = NoMux, fields.rf_path = r,
         \A t \in SubType : ~conflicts(t, s, PathInfo[r].unicable)
                           => ~conflicts(t, fields, PathInfo[r].unicable),
         NEW sat, NEW may_move,
         NEW out \in Reserved(p, id, old, f, s, fields, sat, may_move)
  PROVE  GoodOutcome(out)
<1> DEFINE rel == fe_key_to_release(old, id)
           db  == unsubscribed(old, id)
           l   == fields.rf_path.lnb
           pos1 == NewPos(id, old, s, fields, sat, may_move)
           tgt1 == NewTarget(id, old, s, fields, sat, may_move)
<1>1. /\ IInv(db, status) /\ Absent(db, p, id)
      /\ \A g \in Live(db, status) : g \in others_in_use(rel) /\ SameClaim(db[g], sub[g])
  BY LeaveOK DEF StateOK
<1>2. f \in Fe /\ (~is_subscribed(f) \/ f = rel)
       /\ check_for_resource_conflicts(s, rel, PathInfo[r].unicable)
  BY DEF find_best_fe_for_lnb, is_our_subscription
<1>3. DishOK(pos1, tgt1)
  <2>1. l \in Lnb
    BY HardwareAssumption
  <2>2. has_network(l, sat) => LnbInfo[l].networks[sat] \in Pos
    BY <2>1, HardwareAssumption DEF has_network
  <2> QED BY <2>2 DEF DishOK, StateOK, schedule_move, NewPos, NewTarget, MovesDish
<1> HIDE DEF pos1, tgt1, l
<1>4. \/ ReserveFails(p, id, old, f, s, out)
      \/ ReserveWrites(p, id, old, f, s, fields, sat, may_move, out)
  BY <1>2, ReservedForm
<1>5. CASE ReserveFails(p, id, old, f, s, out)
  BY <1>5, AbortOK DEF ReserveFails, Labels
<1>6. ASSUME db[f] = NoSub, NEW rec \in SubType, NEW ret,
             out = Outcome([db EXCEPT ![f] = rec], pos1, tgt1, ret),
             Written(p, rec, fields)
      PROVE  GoodOutcome(out)
  <2>1. rec.rf_path = r
    BY <1>6 DEF SameClaim, Written
  <2>2. \A g \in Live(db, status) :
           g # f /\ rec.rf_path \in RfPath /\ db[g].rf_path \in RfPath
           => ~conflicts(db[g], rec, PathInfo[rec.rf_path].unicable)
    <3> HIDE DEF db, rel
    <3> SUFFICES ASSUME NEW g \in Live(db, status)
                 PROVE  ~conflicts(db[g], rec, PathInfo[r].unicable)
      BY <2>1
    <3>1. ~conflicts(sub[g], s, PathInfo[r].unicable) /\ sub[g] \in SubType
      BY <1>1, <1>2 DEF check_for_resource_conflicts, others_in_use, StateOK, IInv
    <3>2. ~conflicts(sub[g], fields, PathInfo[r].unicable)
      BY <3>1
    <3>3. ~conflicts(db[g], fields, PathInfo[r].unicable)
      BY <3>2, <1>1, ClaimDecides
    <3>4. SameClaim(rec, fields)
      BY <1>6 DEF Written
    <3>5. conflicts(db[g], rec, PathInfo[r].unicable)
            = conflicts(db[g], fields, PathInfo[r].unicable)
      BY ONLY <3>4, ClaimDecides
    <3> QED BY <3>3, <3>5
  <2> HIDE DEF db, rel
  <2>3. IInv([db EXCEPT ![f] = rec], status)
    <3>1. rec.subs = Append(db[f].subs, e)
      BY <1>6 DEF db, Written
    <3>2. ~e.has_mux => rec.mux_key = NoMux
      BY <1>6 DEF Written
    <3>3. f \in Fe /\ IInv(db, status) /\ Absent(db, p, id)
      BY <1>1, <1>2
    <3>4. rec \in SubType /\ rec.owner = p /\ rec.config_id # None
      BY <1>6 DEF Written
    <3> QED BY ONLY p \in Proc, id \in SubId, e \in EntryType, e.subscription_id = id,
                    <3>1, <3>2, <3>3, <3>4, <1>6, <2>2, PutOK
  <2> QED BY <1>6, <2>3, <1>3 DEF GoodOutcome, Outcome, Labels
<1> QED BY <1>4, <1>5, <1>6 DEF ReserveWrites, pos1, tgt1

-----------------------------------------------------------------------------
(* The operations, one after the other.                                    *)

\* The entry that a subscription adds has the type of an entry.
LEMMA EntryOK ==
  ASSUME NEW id \in SubId, NEW b \in BOOLEAN, NEW service \in Service \cup {NoService}
  PROVE  /\ Entry(id, b, service) \in EntryType
         /\ Entry(id, b, service).subscription_id = id
         /\ Entry(id, b, service).has_mux = b
BY DEF Entry, EntryType

\* Replacing the list of subscribers leaves the rest of a record alone.
LEMMA UpdateSubs ==
  ASSUME NEW r \in SubType, NEW q \in Seq(EntryType)
  PROVE  LET new == [r EXCEPT !.subs = q] IN
         /\ new \in SubType /\ new.owner = r.owner /\ new.config_id = r.config_id
         /\ new.subs = q /\ new.rf_path = r.rf_path /\ SameClaim(new, r)
<1> DEFINE new == [r EXCEPT !.subs = q]
<1>1. new = [r EXCEPT !.subs = q]
  OBVIOUS
<1> HIDE DEF new
<1>2. new \in SubType
  BY <1>1 DEF SubType, EntryType
<1>3. /\ new.owner = r.owner /\ new.config_id = r.config_id
      /\ new.subs = q /\ new.rf_path = r.rf_path /\ SameClaim(new, r)
  BY <1>1 DEF SubType, SameClaim
<1> QED BY <1>2, <1>3 DEF new

\* Joining a frontend that is tuned to the mux keeps the database in order:
\* the claim of the frontend does not change.
LEMMA JoinOK ==
  ASSUME StateOK, NEW p \in Proc, status[p] = "alive", NEW id \in SubId,
         NEW old \in fe_for_subscription(p, id), NEW m \in Mux,
         NEW service \in Service \cup {NoService}, NEW o, NEW dvbs, NEW ret_old,
         NEW x, x.fe \in fes_on_mux(p, o, m)
  PROVE  GoodOutcome(subscribe_fe_in_use(id, old, x, service, o, dvbs, ret_old))
<1> DEFINE f   == x.fe
           db  == unsubscribed(old, id)
           e   == Entry(id, TRUE, service)
           rec == [sub[f] EXCEPT !.subs = Append(db[f].subs, e)]
           out == subscribe_fe_in_use(id, old, x, service, o, dvbs, ret_old)
<1>1. f \in Fe /\ sub[f].owner = p /\ sub[f].mux_key = m
  BY DEF fes_on_mux
<1>2. /\ IInv(db, status) /\ Absent(db, p, id)
      /\ \A g \in Fe : db[g] # NoSub =>
            db[g].owner = sub[g].owner /\ db[g].mux_key = sub[g].mux_key
  BY LeaveOK DEF StateOK
<1>3. \A g \in Live(db, status) :
         g \in others_in_use(fe_key_to_release(old, id)) /\ SameClaim(db[g], sub[g])
  BY LeaveOK DEF StateOK
<1>4. out = Abort("reuse_of_exclusive")
      \/ \E ret : out = Stationary([db EXCEPT ![f] = rec], ret)
  BY DEF subscribe_fe_in_use
<1>5. GoodOutcome(Abort("reuse_of_exclusive"))
  BY AbortOK DEF Labels
<1>6. e \in EntryType /\ e.subscription_id = id /\ e.has_mux
  BY EntryOK
<1>7. sub[f] \in SubType /\ Whole(sub[f]) /\ db[f] \in SubType
  BY <1>1, <1>2 DEF StateOK, IInv, WholeDb
<1>8. p # None /\ m # NoMux
  BY RequestAssumption, ChannelAssumption
<1>9. sub[f].config_id # None
  BY <1>1, <1>7, <1>8 DEF Whole, NoSub
<1> HIDE DEF e, f, db, out
<1>10. Append(db[f].subs, e) \in Seq(EntryType)
  BY <1>6, <1>7, AppendEntry DEF SubType, EntryType
<1>11. /\ rec \in SubType /\ rec.owner = p /\ rec.config_id # None
       /\ rec.subs = Append(db[f].subs, e) /\ SameClaim(rec, sub[f])
       /\ rec.rf_path = sub[f].rf_path
  BY <1>1, <1>7, <1>9, <1>10, UpdateSubs
<1>12. ASSUME NEW g \in Live(db, status), g # f, rec.rf_path \in RfPath,
              db[g].rf_path \in RfPath
       PROVE  ~conflicts(db[g], rec, PathInfo[rec.rf_path].unicable)
  <2> HIDE DEF rec
  <2>1. /\ g \in Live(sub, status) /\ SameClaim(db[g], sub[g])
        /\ f \in Live(sub, status)
    BY <1>1, <1>3, <1>8 DEF others_in_use, is_subscribed, Live
  <2>2. sub[g].rf_path \in RfPath /\ sub[f].rf_path \in RfPath
    BY <2>1, <1>11, <1>12 DEF SameClaim
  <2>3. ~conflicts(sub[g], sub[f], PathInfo[sub[f].rf_path].unicable)
    BY <2>1, <2>2, <1>12 DEF StateOK, IInv, Compatible
  <2>4. ~conflicts(db[g], sub[f], PathInfo[sub[f].rf_path].unicable)
    BY ONLY <2>1, <2>3, ClaimDecides
  <2>5. SameClaim(rec, sub[f])
    BY <1>11
  <2>6. conflicts(db[g], rec, PathInfo[sub[f].rf_path].unicable)
          = conflicts(db[g], sub[f], PathInfo[sub[f].rf_path].unicable)
    BY ONLY <2>5, ClaimDecides
  <2> QED BY <2>4, <2>6, <1>11
<1> HIDE DEF rec
<1>13. IInv([db EXCEPT ![f] = rec], status)
  <2>1. db[f] # NoSub => db[f].owner = p /\ db[f].mux_key # NoMux
    BY <1>1, <1>2, <1>8
  <2>2. IInv(db, status) /\ Absent(db, p, id)
    BY <1>2
  <2>3. /\ rec \in SubType /\ rec.owner = p /\ rec.config_id # None
        /\ rec.subs = Append(db[f].subs, e)
    BY <1>11
  <2> QED BY ONLY p \in Proc, id \in SubId, <2>1, <2>2, <2>3, <1>1, <1>6, <1>12, PutOK
<1>14. \A ret : GoodOutcome(Stationary([db EXCEPT ![f] = rec], ret))
  BY <1>13, StationaryOK
<1> QED BY <1>4, <1>5, <1>14 DEF out

\* Reserving a cable or terrestrial frontend keeps the database in order: such
\* a reservation claims no LNB.
LEMMA DvbcOK ==
  ASSUME StateOK, NEW p \in Proc, NEW id \in SubId,
         NEW old \in fe_for_subscription(p, id), NEW m \in Mux,
         NEW service \in Service \cup {NoService}, NEW f \in Fe, NEW n \in Nat
  PROVE  GoodOutcome(reserve_fe_for_dvbc_or_dvbt_mux(p, id, old, f, m, service, n))
<1> DEFINE db  == unsubscribed(old, id)
           e   == Entry(id, TRUE, service)
           rfp == [lnb |-> NoLnb, card |-> FeInfo[f].card, rf_input |-> 0]
           rec == [db[f] EXCEPT
                     !.owner = p, !.config_id = n, !.rf_path = rfp,
                     !.pol = NONE, !.band = NONE, !.sat_pos = MuxInfo[m].sat,
                     !.usals_pos = MuxInfo[m].sat, !.rf_coupler_id = None,
                     !.mux_key = m, !.subs = Append(db[f].subs, e)]
           out == reserve_fe_for_dvbc_or_dvbt_mux(p, id, old, f, m, service, n)
<1>1. IInv(db, status) /\ Absent(db, p, id)
  BY LeaveOK DEF StateOK
<1>2. /\ db[f].owner # None => out = Abort("stale_reservation")
      /\ db[f].owner = None => \E ret : out = Stationary([db EXCEPT ![f] = rec], ret)
  BY DEF reserve_fe_for_dvbc_or_dvbt_mux
<1>3. GoodOutcome(Abort("stale_reservation"))
  BY AbortOK DEF Labels
<1>4. e \in EntryType /\ e.subscription_id = id /\ e.has_mux
  BY EntryOK
<1>5. db[f] \in SubType /\ Whole(db[f])
  BY <1>1 DEF IInv, WholeDb
<1>6. /\ rfp \in [lnb: {NoLnb}, card: Nat \cup {None}, rf_input: {0, None}]
      /\ rfp \notin RfPath
  <2>1. FeInfo[f].card \in Nat
    BY HardwareAssumption DEF FeType
  <2>2. NoLnb \notin Lnb
    BY HardwareAssumption DEF NoLnb
  <2>3. \A r \in RfPath : r.lnb \in Lnb
    BY HardwareAssumption
  <2>4. rfp.lnb = NoLnb
    OBVIOUS
  <2>5. rfp \in [lnb: {NoLnb}, card: Nat \cup {None}, rf_input: {0, None}]
    BY <2>1
  <2> HIDE DEF rfp
  <2> QED BY <2>2, <2>3, <2>4, <2>5
<1> HIDE DEF e, db, out, rfp
<1>7. CASE db[f].owner # None
  BY <1>2, <1>3, <1>7 DEF out
<1>8. CASE db[f].owner = None
  <2>1. db[f] = NoSub
    BY <1>5, <1>8 DEF Whole
  <2>2. Append(db[f].subs, e) \in Seq(EntryType)
    BY <1>4, <1>5, AppendEntry DEF SubType, EntryType
  <2>3. MuxInfo[m].sat \in Nat /\ n # None
    BY ChannelAssumption DEF None
  <2>4. /\ rec \in SubType /\ rec.owner = p /\ rec.config_id # None
        /\ rec.subs = Append(db[f].subs, e) /\ rec.rf_path = rfp
    <3> DEFINE q == Append(db[f].subs, e)
    <3> HIDE DEF q
    <3>1. q \in Seq(EntryType)
      BY <2>2 DEF q
    <3>2. rec = [db[f] EXCEPT
                   !.owner = p, !.config_id = n, !.rf_path = rfp,
                   !.pol = NONE, !.band = NONE, !.sat_pos = MuxInfo[m].sat,
                   !.usals_pos = MuxInfo[m].sat, !.rf_coupler_id = None,
                   !.mux_key = m, !.subs = q]
      BY DEF q
    <3>3. db[f] \in SubType
      BY <1>5
    <3> HIDE DEF rec
    <3>4. /\ rec \in SubType /\ rec.owner = p /\ rec.config_id # None
          /\ rec.subs = q /\ rec.rf_path = rfp
      BY <1>6, <2>3, <3>1, <3>2, <3>3 DEF SubType, EntryType
    <3> QED BY <3>4 DEF q
  <2> HIDE DEF rec
  <2>5. IInv([db EXCEPT ![f] = rec], status)
    BY ONLY p \in Proc, id \in SubId, f \in Fe, <1>1, <1>4, <1>6, <2>1, <2>4, PutOK
  <2> QED BY <1>2, <1>8, <2>5, StationaryOK DEF out
<1> QED BY <1>7, <1>8

\* A unicable channel is a number, or None on an ordinary connection.
LEMMA ChannelType ==
  ASSUME NEW r \in RfPath, NEW rel, NEW ch \in select_unicable_ch(r, rel)
  PROVE  ch \in Nat \cup {None}
<1>1. r.lnb \in Lnb
  BY HardwareAssumption
<1>2. LnbInfo[r.lnb].unicable_channels \in Seq(Nat)
  BY <1>1, HardwareAssumption
<1>3. \A i \in DOMAIN LnbInfo[r.lnb].unicable_channels :
         LnbInfo[r.lnb].unicable_channels[i] \in Nat
  BY <1>2, ElementOfSeq, LenProperties
<1> QED BY <1>3 DEF select_unicable_ch, free_unicable_channels

\* The polarisation and band of a satellite mux.
LEMMA DesiredForMux ==
  ASSUME StateOK, NEW p \in Proc, NEW r \in RfPath, NEW m \in Mux
  PROVE  desired_for_mux(p, r, m) \in SubType /\ desired_for_mux(p, r, m).rf_path = r
<1>1. r.lnb \in Lnb
  BY HardwareAssumption
<1>2. lnb_usals_pos(r.lnb) \in Pos
  BY <1>1, PosType
<1>3. MuxInfo[m].sat \in Nat
  BY ChannelAssumption
<1>4. MuxInfo[m].pol \in PolType /\ MuxInfo[m].band \in BandType
  BY DEF PolType, BandType
<1> QED BY <1>2, <1>3, <1>4, DesiredType DEF desired_for_mux

\* Tuning a frontend to a satellite mux keeps the database in order.
LEMMA DvbsOK ==
  ASSUME StateOK, NEW p \in Proc, status[p] = "alive", NEW id \in SubId,
         NEW old \in fe_for_subscription(p, id), NEW m \in Mux,
         NEW service \in Service \cup {NoService}, NEW o \in OptionType,
         NEW out \in tune_dvbs_mux(p, id, old, m, service, o)
  PROVE  GoodOutcome(out)
<1> DEFINE rel    == fe_key_to_release(old, id)
           db     == unsubscribed(old, id)
           choice == find_fe_and_lnb_for_tuning_to_mux(p, rel, m, o)
<1>1. CASE out = NotFound(old, id, o.keep)
  BY <1>1, NotFoundOK
<1>2. CASE out # NotFound(old, id, o.keep)
  <2>1. PICK c \in choice : \E ch \in select_unicable_ch(c.path, rel) :
           out \in Reserved(p, id, old, c.fe, desired_for_mux(p, c.path, m),
                            mux_record(db[c.fe], p, c.path, m, ch, id, service),
                            MuxInfo[m].sat, o.may_move)
    BY <1>2 DEF tune_dvbs_mux
  <2>a. PICK ch \in select_unicable_ch(c.path, rel) :
           out \in Reserved(p, id, old, c.fe, desired_for_mux(p, c.path, m),
                            mux_record(db[c.fe], p, c.path, m, ch, id, service),
                            MuxInfo[m].sat, o.may_move)
    BY <2>1
  <2> DEFINE r == c.path
             f == c.fe
             s == desired_for_mux(p, r, m)
             e == Entry(id, TRUE, service)
             q == Append(db[f].subs, e)
             fields == mux_record(db[f], p, r, m, ch, id, service)
  <2>2. /\ f \in Fe /\ r \in usable_paths(MuxInfo[m].sat, MuxInfo[m].pol, o)
        /\ f \in find_best_fe_for_lnb(r, rel, s, o.blind, MuxInfo[m].sat # 0, FALSE)
    BY DEF find_fe_and_lnb_for_tuning_to_mux
  <2>3. r \in RfPath
    BY <2>2 DEF usable_paths, OptionType
  <2>4. s \in SubType /\ s.rf_path = r /\ ch \in Nat \cup {None}
    BY <2>3, DesiredForMux, ChannelType
  <2>5. e \in EntryType /\ e.subscription_id = id /\ e.has_mux
    BY EntryOK
  <2>6. db[f] \in SubType
    BY <2>2, LeaveOK DEF StateOK, IInv
  <2>7. fields = [s EXCEPT !.unicable_ch = ch, !.mux_key = m, !.subs = q]
    BY DEF mux_record
  <2>8. out \in Reserved(p, id, old, f, s, fields, MuxInfo[m].sat, o.may_move)
    BY <2>a
  <2> HIDE DEF e, db, s, fields, f, r
  <2>9. q \in Seq(EntryType)
    BY <2>5, <2>6, AppendEntry DEF SubType, EntryType
  <2>10. /\ fields \in SubType /\ fields.subs = q /\ fields.rf_path = r
         /\ SameClaim(fields, s)
    <3> HIDE DEF q
    <3>1. m \in Mux \cup {NoMux}
      OBVIOUS
    <3>2. s \in SubType /\ s.rf_path = r /\ ch \in Nat \cup {None}
      BY <2>4
    <3>3. fields \in SubType
      BY <3>1, <3>2, <2>7, <2>9 DEF SubType, EntryType
    <3>4. fields.subs = q /\ fields.rf_path = r /\ SameClaim(fields, s)
      BY <3>2, <2>7 DEF SubType, SameClaim
    <3> QED BY <3>3, <3>4
  <2>11. \A t \in SubType : ~conflicts(t, s, PathInfo[r].unicable)
                            => ~conflicts(t, fields, PathInfo[r].unicable)
    <3>1. SameClaim(fields, s)
      BY <2>10
    <3> QED BY ONLY <3>1, ClaimDecides
  <2> QED BY <2>2, <2>3, <2>4, <2>5, <2>8, <2>10, <2>11, ReservedOK DEF db
<1> QED BY <1>1, <1>2

\* Subscribing to a mux or a service, in all its variants, keeps the database
\* in order.
LEMMA SubscribeMuxOK ==
  ASSUME StateOK, NEW p \in Proc, status[p] = "alive", NEW id \in SubId, NEW m \in Mux,
         NEW service \in Service \cup {NoService}, NEW o \in OptionType,
         NEW out \in subscribe_mux(p, id, m, service, o)
  PROVE  GoodOutcome(out)
<1>1. PICK old \in fe_for_subscription(p, id) :
         out \in subscribe_mux_from(p, id, old, m, service, o)
  BY DEF subscribe_mux
<1> DEFINE dvbs == MuxInfo[m].dvbs
<1>2. \A only : \A x \in matching_existing_subscription(p, o, m, service, only) :
         x.fe \in fes_on_mux(p, o, m)
  BY DEF matching_existing_subscription
<1>3. ASSUME NEW only, NEW x \in matching_existing_subscription(p, o, m, service, only),
             NEW ret_old
      PROVE  GoodOutcome(subscribe_fe_in_use(id, old, x, service, o, dvbs, ret_old))
  BY <1>2, JoinOK
<1>4. ASSUME NEW x \in matching_existing_subscription(p, o, m, service, FALSE),
             out = reuse_service(id, old, x, service, o, dvbs)
      PROVE  GoodOutcome(out)
  <2>1. \A ret : GoodOutcome(Stationary(sub, ret))
    BY StationaryOK DEF StateOK
  <2> QED BY <2>1, <1>3, <1>4 DEF reuse_service
<1>5. \/ \E x \in matching_existing_subscription(p, o, m, service, FALSE) :
            out = reuse_service(id, old, x, service, o, dvbs)
      \/ \E x \in matching_existing_subscription(p, o, m, service, TRUE) :
            out = subscribe_fe_in_use(id, old, x, service, o, dvbs, old)
      \/ out \in tune_dvbs_mux(p, id, old, m, service, o)
      \/ out \in tune_dvbc_mux(p, id, old, m, service, o)
  BY <1>1 DEF subscribe_mux_from
<1>6. ASSUME out \in tune_dvbc_mux(p, id, old, m, service, o)
      PROVE  GoodOutcome(out)
  <2>1. \/ out = NotFound(old, id, o.keep)
        \/ \E f \in find_best_fe_for_dvtdbc(fe_key_to_release(old, id), m, o),
              n \in next_config_id(p) :
              out = reserve_fe_for_dvbc_or_dvbt_mux(p, id, old, f, m, service, n)
    BY <1>6 DEF tune_dvbc_mux
  <2>2. \A f \in find_best_fe_for_dvtdbc(fe_key_to_release(old, id), m, o) : f \in Fe
    BY DEF find_best_fe_for_dvtdbc
  <2>3. \A n \in next_config_id(p) : n \in Nat
    BY HardwareAssumption DEF next_config_id
  <2> QED BY <2>1, <2>2, <2>3, NotFoundOK, DvbcOK
<1> QED BY <1>3, <1>4, <1>5, <1>6, DvbsOK

\* Where two claims have the same path, dish and coupler and the checked one is
\* exclusive, the other one conflicts with nothing either.
LEMMA ExclusiveCovers ==
  ASSUME NEW t, NEW s, NEW q, NEW u, is_exclusive(s), ~conflicts(t, s, u),
         q.rf_path = s.rf_path, q.dish_id = s.dish_id, q.rf_coupler_id = s.rf_coupler_id
  PROVE  ~conflicts(t, q, u)
<1>1. ~same_rf_path(t, s) /\ ~same_dish(t, s) /\ ~same_tuner(t, s) /\ ~same_rf_coupler(t, s)
  BY DEF conflicts
<1>2. ~same_rf_path(t, q) /\ ~same_dish(t, q) /\ ~same_tuner(t, q) /\ ~same_rf_coupler(t, q)
  BY <1>1 DEF same_rf_path, same_dish, same_tuner, same_rf_coupler
<1> QED BY <1>2 DEF conflicts

\* Reserving a frontend for exclusive use of an LNB keeps the database in order.
LEMMA LnbReservedOK ==
  ASSUME StateOK, NEW p \in Proc, status[p] = "alive", NEW id \in SubId,
         NEW old \in fe_for_subscription(p, id), NEW r \in RfPath, NEW s \in SubType,
         NEW blind, NEW spectrum,
         NEW f \in find_best_fe_for_lnb(r, fe_key_to_release(old, id), s,
                                       blind, FALSE, spectrum),
         is_exclusive(s), s.rf_path = r, NEW stored \in SubType, stored.rf_path = r,
         stored.dish_id = s.dish_id, stored.rf_coupler_id = s.rf_coupler_id,
         stored.mux_key = NoMux, NEW sat, NEW may_move,
         NEW out \in Reserved(p, id, old, f, s,
                             lnb_record(unsubscribed(old, id)[f], stored, id),
                             sat, may_move)
  PROVE  GoodOutcome(out)
<1> DEFINE db == unsubscribed(old, id)
           e  == Entry(id, FALSE, NoService)
           q  == Append(db[f].subs, e)
           ch == db[f].unicable_ch
           fields == lnb_record(db[f], stored, id)
<1>1. e \in EntryType /\ e.subscription_id = id /\ ~e.has_mux
  BY EntryOK
<1>2. db[f] \in SubType
  BY LeaveOK DEF StateOK, IInv, find_best_fe_for_lnb
<1>3. fields = [stored EXCEPT !.unicable_ch = ch, !.subs = q]
  BY DEF lnb_record
<1>4. out \in Reserved(p, id, old, f, s, fields, sat, may_move)
  OBVIOUS
<1> HIDE DEF e, db, fields
<1>5. q \in Seq(EntryType) /\ ch \in Nat \cup {None}
  BY <1>1, <1>2, AppendEntry DEF SubType, EntryType
<1>6. /\ fields \in SubType /\ fields.subs = q /\ fields.rf_path = r
      /\ fields.mux_key = NoMux /\ SameClaim(fields, stored)
  <2> HIDE DEF q, ch
  <2>0. stored \in SubType
    OBVIOUS
  <2>1. fields \in SubType
    BY ONLY <2>0, <1>3, <1>5 DEF SubType, EntryType
  <2>2. /\ fields.subs = q /\ fields.rf_path = r /\ fields.mux_key = NoMux
        /\ SameClaim(fields, stored)
    BY <1>3 DEF SubType, SameClaim
  <2> QED BY <2>1, <2>2
<1>7. \A t \in SubType : ~conflicts(t, s, PathInfo[r].unicable)
                         => ~conflicts(t, fields, PathInfo[r].unicable)
  <2>1. /\ fields.rf_path = s.rf_path /\ fields.dish_id = s.dish_id
        /\ fields.rf_coupler_id = s.rf_coupler_id
    BY <1>6 DEF SameClaim
  <2> QED BY <2>1, ExclusiveCovers
<1> QED BY <1>1, <1>4, <1>6, <1>7, ReservedOK DEF db

\* Subscribing to a satellite band keeps the database in order.  The record
\* that is stored is not the one that was checked, but it claims no more.
LEMMA SubscribeSatBandOK ==
  ASSUME StateOK, NEW p \in Proc, status[p] = "alive", NEW id \in SubId,
         NEW b \in BandRequest, NEW o \in OptionType,
         NEW out \in subscribe_sat_band(p, id, b, o)
  PROVE  GoodOutcome(out)
<1>1. PICK old \in fe_for_subscription(p, id) :
         out \in subscribe_sat_band_from(p, id, old, b, o)
  BY DEF subscribe_sat_band
<1> DEFINE rel    == fe_key_to_release(old, id)
           db     == unsubscribed(old, id)
           choice == find_fe_and_lnb_for_tuning_to_band(p, rel, b, o)
           s(r)   == desired(p, r, b.sat, b.pol, NONE, lnb_usals_pos(r.lnb))
           stored(r) == desired(p, r, b.sat, b.pol, b.band,
                                IF o.may_move THEN None ELSE lnb_usals_pos(r.lnb))
<1>2. CASE out = NotFound(old, id, o.keep)
  BY <1>2, NotFoundOK
<1>3. CASE out # NotFound(old, id, o.keep)
  <2>1. PICK c \in choice :
          out \in Reserved(p, id, old, c.fe, s(c.path),
                           lnb_record(db[c.fe], stored(c.path), id), b.sat, o.may_move)
    BY <1>1, <1>3 DEF subscribe_sat_band_from
  <2> DEFINE r == c.path
             f == c.fe
  <2>2. /\ f \in Fe /\ r \in usable_paths(b.sat, b.pol, o)
        /\ f \in find_best_fe_for_lnb(r, rel, s(r), o.blind, FALSE, TRUE)
    BY DEF find_fe_and_lnb_for_tuning_to_band
  <2>3. r \in RfPath
    BY <2>2 DEF usable_paths, OptionType
  <2>4. lnb_usals_pos(r.lnb) \in Pos /\ b.sat \in Nat
    BY <2>3, PosType, HardwareAssumption, RequestAssumption
  <2>a. b.pol \in PolType /\ b.band \in BandType /\ NONE \in BandType
    BY DEF PolType, BandType
  <2>5. s(r) \in SubType /\ s(r).rf_path = r
    BY <2>3, <2>4, <2>a, DesiredType
  <2>6. stored(r) \in SubType /\ stored(r).rf_path = r /\ stored(r).mux_key = NoMux
    BY <2>3, <2>4, <2>a, DesiredType
  <2>7. is_exclusive(s(r))
    BY DEF desired, is_exclusive, may_change_lnb
  <2>8. stored(r).dish_id = s(r).dish_id /\ stored(r).rf_coupler_id = s(r).rf_coupler_id
    BY DEF desired
  <2> HIDE DEF r, f, s, stored
  <2> QED BY <2>1, <2>2, <2>3, <2>5, <2>6, <2>7, <2>8, LnbReservedOK DEF r, f
<1> QED BY <1>2, <1>3

\* Subscribing to an LNB keeps the database in order.
LEMMA SubscribeRfPathOK ==
  ASSUME StateOK, NEW p \in Proc, status[p] = "alive", NEW id \in SubId,
         NEW q \in LnbRequest, NEW out \in subscribe_rf_path(p, id, q)
  PROVE  GoodOutcome(out)
<1>1. PICK old \in fe_for_subscription(p, id) :
         out \in subscribe_rf_path_from(p, id, old, q)
  BY DEF subscribe_rf_path
<1> DEFINE rel == fe_key_to_release(old, id)
           db  == unsubscribed(old, id)
           r   == q.path
           s   == desired(p, r, None, NONE, NONE, None)
           choice == find_best_fe_for_lnb(r, rel, s, q.blind, FALSE, q.move_to # None)
<1>2. IInv(db, status) /\ IInv(sub, status)
  BY LeaveOK DEF StateOK
<1>3. \A ret : GoodOutcome(Stationary(db, ret)) /\ GoodOutcome(Stationary(sub, ret))
  BY <1>2, StationaryOK
<1>4. GoodOutcome(rf_path_not_found(old, id))
  <2>1. GoodOutcome(Abort("double_unsubscribe"))
    BY AbortOK DEF Labels
  <2> QED BY <1>3, <2>1 DEF rf_path_not_found
<1>5. CASE r \notin RfPath \/ choice = {} \/ r.lnb \notin Lnb
  BY <1>1, <1>3, <1>4, <1>5 DEF subscribe_rf_path_from
<1>6. CASE r \in RfPath /\ choice # {} /\ r.lnb \in Lnb
  <2>1. PICK f \in choice :
          out \in Reserved(p, id, old, f, s, lnb_record(db[f], s, id), q.move_to, TRUE)
    BY <1>1, <1>6 DEF subscribe_rf_path_from
  <2>2. s \in SubType /\ s.rf_path = r /\ s.mux_key = NoMux
    <3>1. NONE \in PolType /\ NONE \in BandType
      BY DEF PolType, BandType
    <3>2. r \in RfPath /\ None \in Nat \cup {None} /\ None \in Pos \cup {None}
      BY <1>6
    <3> HIDE DEF r
    <3>3. desired(p, r, None, NONE, NONE, None) \in SubType
      BY <3>1, <3>2, DesiredType
    <3> QED BY <3>3 DEF desired
  <2>3. is_exclusive(s)
    BY DEF desired, is_exclusive, may_change_lnb
  <2> HIDE DEF s, r
  <2> QED BY <2>1, <2>2, <2>3, <1>6, LnbReservedOK
<1> QED BY <1>5, <1>6

-----------------------------------------------------------------------------
(* Starting, stopping and dying processes.                                 *)

\* A database without reservations is in order.
LEMMA EmptyOK ==
  ASSUME NEW st \in [Proc -> {"new", "alive", "dead"}]
  PROVE  IInv([f \in Fe |-> NoSub], st)
<1> DEFINE db == [f \in Fe |-> NoSub]
<1>1. db \in [Fe -> SubType] /\ \A f \in Fe : db[f] = NoSub
  BY NoSubType
<1>2. NoSub.owner = None /\ DOMAIN NoSub.subs = {}
  BY DEF NoSub
<1> HIDE DEF db
<1>3. WholeDb(db) /\ LnbUnique(db) /\ Unique(db)
  BY <1>1, <1>2 DEF WholeDb, Whole, LnbUnique, Unique
<1>4. Compatible(db, st)
  BY <1>1, <1>2 DEF Compatible, Live
<1> QED BY <1>1, <1>3, <1>4 DEF IInv, db

\* A database stays in order when records are cleared and processes die.
LEMMA ClearOK ==
  ASSUME NEW db, NEW st, IInv(db, st), NEW new, NEW st2 \in [Proc -> {"new", "alive", "dead"}],
         new \in [Fe -> SubType],
         \A f \in Fe : new[f] \in {db[f], NoSub},
         \A p \in Proc : st2[p] = "alive" => st[p] = "alive"
  PROVE  IInv(new, st2)
<1>0. /\ db \in [Fe -> SubType] /\ st \in [Proc -> {"new", "alive", "dead"}]
      /\ WholeDb(db) /\ LnbUnique(db) /\ Unique(db) /\ Compatible(db, st)
  BY DEF IInv
<1>1. NoSub.owner = None /\ DOMAIN NoSub.subs = {}
  BY DEF NoSub
<1>2. WholeDb(new)
  BY <1>0 DEF WholeDb, Whole
<1>3. \A f \in Fe : \A i \in DOMAIN new[f].subs : new[f] = db[f]
  BY <1>1
<1>4. LnbUnique(new)
  BY <1>0, <1>3 DEF LnbUnique
<1>5. Unique(new)
  BY <1>0, <1>3 DEF Unique
<1>6. \A f \in Live(new, st2) : f \in Live(db, st) /\ new[f] = db[f]
  <2> SUFFICES ASSUME NEW f \in Live(new, st2)
               PROVE  f \in Live(db, st) /\ new[f] = db[f]
    OBVIOUS
  <2>1. f \in Fe /\ new[f].owner # None /\ st2[new[f].owner] = "alive"
    BY DEF Live
  <2>2. new[f] = db[f]
    BY <2>1, <1>1
  <2>3. new[f].owner \in Proc
    BY <2>1 DEF SubType
  <2> QED BY <2>1, <2>2, <2>3 DEF Live
<1>7. Compatible(new, st2)
  BY <1>0, <1>6 DEF Compatible
<1> QED BY <1>2, <1>4, <1>5, <1>7 DEF IInv

-----------------------------------------------------------------------------
(* The steps.                                                              *)

Inv == StateOK /\ failed_assert \in Labels

\* Committing a good outcome, or dying of the assertion, keeps the database.
LEMMA CommitState ==
  ASSUME StateOK, NEW p \in Proc, NEW out, GoodOutcome(out), Commit(p, out)
  PROVE  StateOK'
<1>1. /\ sub' = out.sub /\ dish_pos' = out.dish_pos /\ target' = out.target
      /\ IInv(out.sub, status) /\ DishOK(out.dish_pos, out.target)
  BY DEF Commit, GoodOutcome
<1>2. CASE out.failed_assert = NoFailure
  <2>1. status' = status
    BY <1>2 DEF Commit
  <2> QED BY <1>1, <2>1 DEF StateOK
<1>3. CASE out.failed_assert # NoFailure
  <2>1. status' = [status EXCEPT ![p] = "dead"] /\ out.sub = sub
    BY <1>3 DEF Commit, GoodOutcome
  <2>2. IInv(sub, status) /\ sub \in [Fe -> SubType]
        /\ status \in [Proc -> {"new", "alive", "dead"}]
    BY DEF StateOK, IInv
  <2>3. /\ status' \in [Proc -> {"new", "alive", "dead"}]
        /\ \A q \in Proc : status'[q] = "alive" => status[q] = "alive"
    BY <2>1, <2>2
  <2>4. IInv(sub, status')
    BY <2>2, <2>3, ClearOK
  <2> QED BY <1>1, <2>1, <2>4 DEF StateOK
<1> QED BY <1>2, <1>3

\* The same with the label of the assertion.
LEMMA CommitOK ==
  ASSUME Inv, NEW p \in Proc, NEW out, GoodOutcome(out), Commit(p, out)
  PROVE  Inv'
<1>1. StateOK'
  BY CommitState DEF Inv
<1>2. failed_assert' \in Labels
  BY DEF Inv, Commit, GoodOutcome
<1> QED BY <1>1, <1>2 DEF Inv

\* A process starts with an empty database.
LEMMA StartState ==
  ASSUME StateOK, NEW p \in Proc, Start(p)
  PROVE  StateOK'
<1>1. /\ status' = [status EXCEPT ![p] = "alive"] /\ sub' = [f \in Fe |-> NoSub]
      /\ dish_pos' = dish_pos /\ target' = target
  BY DEF Start
<1>2. status' \in [Proc -> {"new", "alive", "dead"}]
  BY <1>1 DEF StateOK, IInv
<1>3. IInv(sub', status')
  BY <1>1, <1>2, EmptyOK
<1> QED BY <1>1, <1>3 DEF StateOK

\* A process dies or exits.
Ends(p) ==
  /\ status' = [status EXCEPT ![p] = "dead"]
  /\ \/ sub' = sub
     \/ sub' = [f \in Fe |-> IF sub[f].owner = p THEN NoSub ELSE sub[f]]
  /\ dish_pos' = dish_pos /\ target' = target

\* Its records stay or are cleared.
LEMMA EndState ==
  ASSUME StateOK, NEW p \in Proc, Ends(p)
  PROVE  /\ StateOK' /\ status'[p] = "dead"
         /\ \A q \in Proc : status'[q] = "alive" => status[q] = "alive"
         /\ \A f \in Fe : sub'[f] \in {sub[f], NoSub}
<1>0. /\ IInv(sub, status) /\ sub \in [Fe -> SubType]
      /\ status \in [Proc -> {"new", "alive", "dead"}]
  BY DEF StateOK, IInv
<1>1. /\ status' \in [Proc -> {"new", "alive", "dead"}] /\ status'[p] = "dead"
      /\ \A q \in Proc : status'[q] = "alive" => status[q] = "alive"
  BY <1>0 DEF Ends
<1>2. sub' \in [Fe -> SubType] /\ \A f \in Fe : sub'[f] \in {sub[f], NoSub}
  BY <1>0, NoSubType DEF Ends
<1>3. IInv(sub', status')
  BY <1>0, <1>1, <1>2, ClearOK
<1> QED BY <1>1, <1>2, <1>3 DEF StateOK, Ends

\* Driving a motor leaves the reservations alone.
LEMMA PositionerForm ==
  ASSUME StateOK, NEW p \in Proc, NEW id \in SubId, NEW pos \in MotorTarget,
         PositionerCmd(p, id, pos)
  PROVE  \E out : GoodOutcome(out) /\ out.sub = sub /\ Commit(p, out)
<1>0. IInv(sub, status) /\ DishOK(dish_pos, target)
  BY DEF StateOK
<1>1. PICK d \in Positioner :
         Commit(p, IF pos = None THEN Abort("unknown_position")
                   ELSE Outcome(sub, schedule_move(d, pos),
                                [target EXCEPT ![d] = pos], Failed(NoFe)))
  BY DEF PositionerCmd
<1>2. CASE pos = None
  <2> DEFINE out == Abort("unknown_position")
  <2>1. GoodOutcome(out)
    BY AbortOK DEF Labels
  <2>2. out.sub = sub
    BY DEF Abort, Stationary, Outcome
  <2>3. Commit(p, out)
    BY <1>1, <1>2
  <2> HIDE DEF out
  <2> QED BY <2>1, <2>2, <2>3
<1>3. CASE pos # None
  <2> DEFINE out == Outcome(sub, schedule_move(d, pos), [target EXCEPT ![d] = pos],
                            Failed(NoFe))
  <2>1. pos \in Pos
    BY <1>3, RequestAssumption
  <2>2. DishOK(schedule_move(d, pos), [target EXCEPT ![d] = pos])
    BY <1>0, <2>1 DEF DishOK, schedule_move
  <2>3. GoodOutcome(out) /\ out.sub = sub
    BY <1>0, <2>2 DEF GoodOutcome, Outcome, Labels, NoFailure
  <2>4. Commit(p, out)
    BY <1>1, <1>3
  <2> HIDE DEF out
  <2> QED BY <2>3, <2>4
<1> QED BY <1>2, <1>3

\* Every step of every process preserves Inv.
LEMMA NextOK ==
  ASSUME Inv, [Next]_vars
  PROVE  Inv'
<1>0. /\ StateOK /\ failed_assert \in Labels /\ IInv(sub, status)
      /\ sub \in [Fe -> SubType] /\ status \in [Proc -> {"new", "alive", "dead"}]
      /\ DishOK(dish_pos, target)
  BY DEF Inv, StateOK, IInv
<1>1. ASSUME NEW p \in Proc, Start(p)
      PROVE  Inv'
  <2>1. failed_assert' = failed_assert
    BY <1>1 DEF Start
  <2> QED BY <1>0, <1>1, <2>1, StartState DEF Inv
<1>2. ASSUME NEW p \in Proc, Crash(p) \/ Exit(p)
      PROVE  Inv'
  <2>1. Ends(p) /\ failed_assert' = failed_assert
    BY <1>2 DEF Crash, Exit, Ends
  <2> QED BY <1>0, <2>1, EndState DEF Inv
<1>3. ASSUME NEW p \in Proc, NEW id \in SubId, NEW m \in Mux, NEW o \in MuxOptions,
             SubscribeMux(p, id, m, o)
      PROVE  Inv'
  <2>1. PICK out \in subscribe_mux(p, id, m, NoService, o) : Commit(p, out)
    BY <1>3 DEF SubscribeMux
  <2>2. status[p] = "alive" /\ o \in OptionType
    BY <1>3, RequestAssumption DEF SubscribeMux
  <2>3. GoodOutcome(out)
    BY <1>0, <2>2, SubscribeMuxOK
  <2> QED BY <2>1, <2>3, CommitOK
<1>4. ASSUME NEW p \in Proc, NEW id \in SubId, NEW s \in Service, NEW o \in MuxOptions,
             SubscribeService(p, id, s, o)
      PROVE  Inv'
  <2>1. PICK out \in subscribe_mux(p, id, ServiceMux[s], s, o) : Commit(p, out)
    BY <1>4 DEF SubscribeService
  <2>2. status[p] = "alive" /\ o \in OptionType /\ ServiceMux[s] \in Mux
    BY <1>4, RequestAssumption, ChannelAssumption DEF SubscribeService
  <2>3. GoodOutcome(out)
    BY <1>0, <2>2, SubscribeMuxOK
  <2> QED BY <2>1, <2>3, CommitOK
<1>5. ASSUME NEW p \in Proc, NEW id \in SubId, NEW b \in BandRequest,
             NEW o \in BandOptions, SubscribeSatBand(p, id, b, o)
      PROVE  Inv'
  <2>1. PICK out \in subscribe_sat_band(p, id, b, o) : Commit(p, out)
    BY <1>5 DEF SubscribeSatBand
  <2>2. status[p] = "alive" /\ o \in OptionType
    BY <1>5, RequestAssumption DEF SubscribeSatBand
  <2>3. GoodOutcome(out)
    BY <1>0, <2>2, SubscribeSatBandOK
  <2> QED BY <2>1, <2>3, CommitOK
<1>6. ASSUME NEW p \in Proc, NEW id \in SubId, NEW q \in LnbRequest,
             SubscribeLnb(p, id, q)
      PROVE  Inv'
  <2>1. PICK out \in subscribe_rf_path(p, id, q) : Commit(p, out)
    BY <1>6 DEF SubscribeLnb
  <2>2. status[p] = "alive"
    BY <1>6 DEF SubscribeLnb
  <2>3. GoodOutcome(out)
    BY <1>0, <2>2, SubscribeRfPathOK
  <2> QED BY <2>1, <2>3, CommitOK
<1>7. ASSUME NEW p \in Proc, NEW id \in SubId, Unsubscribe(p, id)
      PROVE  Inv'
  <2>1. PICK old \in fe_for_subscription(p, id) :
           Commit(p, Stationary(unsubscribed(old, id), Failed(old)))
    BY <1>7 DEF Unsubscribe
  <2>2. IInv(unsubscribed(old, id), status)
    BY <1>0, LeaveOK
  <2>3. GoodOutcome(Stationary(unsubscribed(old, id), Failed(old)))
    BY <1>0, <2>2, StationaryOK
  <2> QED BY <2>1, <2>3, CommitOK
<1>8. ASSUME NEW p \in Proc, NEW id \in SubId, NEW pos \in MotorTarget,
             PositionerCmd(p, id, pos)
      PROVE  Inv'
  <2>1. PICK out : GoodOutcome(out) /\ out.sub = sub /\ Commit(p, out)
    BY <1>0, <1>8, PositionerForm
  <2> QED BY <2>1, CommitOK
<1>9. CASE UNCHANGED vars
  BY <1>9 DEF vars, Inv, StateOK
<1> QED BY <1>1, <1>2, <1>3, <1>4, <1>5, <1>6, <1>7, <1>8, <1>9 DEF Next, Subscribe

\* Inv holds at the start.
LEMMA InitOK ==
  Init => Inv
<1> SUFFICES ASSUME Init PROVE Inv
  OBVIOUS
<1>1. status \in [Proc -> {"new", "alive", "dead"}]
  BY DEF Init
<1>2. IInv(sub, status)
  BY <1>1, EmptyOK DEF Init
<1> QED BY <1>2 DEF Init, Inv, StateOK, DishOK, Labels

-----------------------------------------------------------------------------
(* The theorems.                                                           *)

\* Inv is an invariant of the specification.
THEOREM Invariance ==
  Spec => []Inv
<1>1. Init => Inv
  BY InitOK
<1>2. Inv /\ [Next]_vars => Inv'
  BY NextOK
<1> QED BY <1>1, <1>2, PTL DEF Spec

\* Every field of every stored reservation stays within its declared range,
\* for any hardware and any number of processes.
THEOREM TypeCorrect ==
  Spec => []TypeOK
<1>1. Inv => TypeOK
  BY DEF Inv, StateOK, IInv, DishOK, TypeOK
<1> QED BY <1>1, Invariance, PTL

\* No two live reservations of satellite frontends ever conflict over an LNB, a
\* tuner, a coupler or a dish.
THEOREM Compatibility ==
  Spec => []NoConflict
<1>1. Inv => NoConflict
  <2> SUFFICES ASSUME Inv, NEW f \in SatelliteInUse, NEW g \in SatelliteInUse, f # g
               PROVE  ~conflicts(sub[f], sub[g], PathInfo[sub[g].rf_path].unicable)
    BY DEF NoConflict
  <2>1. f \in Live(sub, status) /\ g \in Live(sub, status)
        /\ sub[f].rf_path \in RfPath /\ sub[g].rf_path \in RfPath
    BY DEF SatelliteInUse, Live, is_subscribed
  <2>2. Compatible(sub, status)
    BY DEF Inv, StateOK, IInv
  <2> QED BY <2>1, <2>2 DEF Compatible
<1> QED BY <1>1, Invariance, PTL

\* A subscription never has two entries in the database.
THEOREM OneEntryPerSubscription ==
  Spec => []UniqueSubscription
<1>1. Inv => UniqueSubscription
  BY DEF Inv, StateOK, IInv, Unique, UniqueSubscription
<1> QED BY <1>1, Invariance, PTL

\* A reservation is stored whole or not at all.
THEOREM WholeReservations ==
  Spec => []RecordWhole
<1>1. Inv => RecordWhole
  BY DEF Inv, StateOK, IInv, WholeDb, Whole, RecordWhole
<1> QED BY <1>1, Invariance, PTL

\* An LNB reservation has one subscriber: the assertion in unsubscribe_helper
\* never fails.
THEOREM LnbReservation ==
  Spec => []LnbReservationUnique
<1>1. Inv => LnbReservationUnique
  BY DEF Inv, StateOK, IInv, LnbUnique, LnbReservationUnique
<1> QED BY <1>1, Invariance, PTL

\* An exclusive reservation (band scan, LNB control) that passes the check for
\* conflicts controls its LNB, so it never takes its owner from another process:
\* the else branch of reserve_fe_lnb_for_sat_band is not reached.
THEOREM ExclusiveIsMaster ==
  ASSUME NEW s, NEW rel, NEW is_unicable_connection,
         is_exclusive(s), check_for_resource_conflicts(s, rel, is_unicable_connection)
  PROVE  can_control_lnb(s, rel)
<1> SUFFICES ASSUME NEW f \in others_in_use(rel), shares_lnb_control(sub[f], s)
             PROVE  FALSE
  BY DEF can_control_lnb
<1>1. conflicts(sub[f], s, is_unicable_connection)
  BY DEF conflicts, shares_lnb_control
<1> QED BY <1>1 DEF check_for_resource_conflicts

-----------------------------------------------------------------------------
(***************************************************************************)
(* How subscriptions share frontends, adapters, unicable channels and      *)
(* dishes, and when assertions can fail.                                   *)
(*                                                                         *)
(* An operation ends in one of five ways (Effect): an assertion fails,     *)
(* nothing changes, the subscription leaves its old frontend, it joins a   *)
(* tuned frontend, or it reserves a free one.  This is first shown for     *)
(* every operation, with what the code checked on the way; then the        *)
(* invariants are derived from it.                                         *)
(***************************************************************************)

\* The fields of a record other than its list of subscribers that matter here.
SameTuning(t, q) ==
  /\ SameClaim(t, q) /\ t.owner = q.owner /\ t.mux_key = q.mux_key
  /\ t.unicable_ch = q.unicable_ch

Still(out) == out.dish_pos = dish_pos /\ out.target = target

\* A record names a service only when it is tuned to the mux of that service.
Tuned(service, mux_key) == service # NoService => mux_key = ServiceMux[service]

\* The states in which each of the assertions can fail.
OthersOwn(p) == \E f \in Fe : sub[f].owner \notin {None, p}

MayMove == \E o \in MuxOptions : o.may_move

ExclusiveOnMux ==
  \E f \in Fe : /\ sub[f].mux_key \in Mux /\ MuxInfo[sub[f].mux_key].dvbs
                /\ is_exclusive(sub[f])

Blamed(p, label) ==
  \/ label \in {"stale_reservation", "foreign_owner"} /\ OthersOwn(p)
  \/ label = "reuse_of_exclusive" /\ (MayMove \/ ExclusiveOnMux)
  \/ label = "double_unsubscribe" /\ LnbRequest # {}

Aborted(p, out) ==
  /\ out.failed_assert \in Labels \ {NoFailure} /\ Blamed(p, out.failed_assert)
  /\ out.sub = sub /\ Still(out)

Unchanged(id, old, service, out) ==
  /\ out.failed_assert = NoFailure /\ out.sub = sub /\ Still(out)
  /\ \/ out.ret = Failed(NoFe)
     \/ old # NoFe /\ service # NoService /\ out.ret = Ret(FALSE, old, old, id)

Left(id, old, out) ==
  /\ out.failed_assert = NoFailure /\ out.sub = unsubscribed(old, id) /\ Still(out)
  /\ out.ret = Failed(old)

\* A failed request to control an LNB does not report the frontend it has left.
LeftUnreported(id, old, out) ==
  /\ out.failed_assert = NoFailure /\ out.sub = unsubscribed(old, id) /\ Still(out)
  /\ out.ret = Failed(NoFe) /\ old # NoFe /\ unsubscribed(old, id)[old].subs # <<>>

\* The subscription is added to the subscribers of frontend f, which is tuned.
JoinedAt(p, id, old, service, out, f, e, ret_old, reuse) ==
  /\ out.failed_assert = NoFailure /\ Still(out)
  /\ out.ret = Ret(FALSE, ret_old, f, reuse) /\ holds(sub[f], reuse)
  /\ ret_old = old \/ (ret_old = NoFe /\ old = f)
  /\ sub[f].owner = p /\ sub[f].mux_key \in Mux /\ Tuned(service, sub[f].mux_key)
  /\ e.subscription_id = id /\ e.service = service
  /\ out.sub = [unsubscribed(old, id) EXCEPT
                  ![f] = [sub[f] EXCEPT
                            !.subs = Append(unsubscribed(old, id)[f].subs, e)]]

Joined(p, id, old, service, out) ==
  \E f \in Fe, e \in EntryType : \E ret_old, reuse :
     JoinedAt(p, id, old, service, out, f, e, ret_old, reuse)

\* What was checked before a satellite frontend was reserved.
ChannelChecked(rel, rec) ==
  rec.unicable_ch # None =>
    \A g \in others_in_use(rel) :
       sub[g].rf_path.lnb = rec.rf_path.lnb => sub[g].unicable_ch # rec.unicable_ch

SatelliteChecked(rel, f, rec) ==
  /\ rec.rf_path \in RfPath /\ FeInfo[f].dvbs /\ ChannelChecked(rel, rec)
  /\ f = rel \/ ~adapter_in_use(FeInfo[f].adapter)

CableChecked(f, rec) == rec.rf_path \notin RfPath /\ FeInfo[f].dvbc

\* A new tuning is made only when this process has none that could be shared.
MuxChecked(p, rec) ==
  rec.mux_key \in Mux =>
    /\ \E o \in MuxOptions : fes_on_mux(p, o, rec.mux_key) = {}
    /\ MuxInfo[rec.mux_key].dvbs <=> rec.rf_path \in RfPath
    /\ MuxInfo[rec.mux_key].dvbs => ~is_exclusive(rec)

\* A dish moves for a mux whose subscriber may move it, or under the exclusive
\* control of the new reservation.
DishChecked(rel, rec, out) ==
  \/ Still(out)
  \/ MayMove
  \/ \E d \in Positioner :
        /\ \A c \in Positioner \ {d} : out.dish_pos[c] = dish_pos[c]
        /\ \A g \in others_in_use(rel) : sub[g].dish_id # d
        /\ may_move_dish(rec)

\* A request to control an LNB and to move its dish to a satellite that the
\* LNB does not know: the reservation is made and reported as failed.
UnknownNetwork ==
  \E q \in LnbRequest : q.move_to # None /\ ~has_network(q.path.lnb, q.move_to)

\* Record rec with the entry e is written to frontend f, which has no record.
ReservedAt(p, id, old, service, out, f, rec, e) ==
  /\ out.failed_assert = NoFailure
  /\ \/ out.ret = Ret(FALSE, old, f, None)
     \/ out.ret = Failed(old) /\ UnknownNetwork
  /\ unsubscribed(old, id)[f] = NoSub
  /\ out.sub = [unsubscribed(old, id) EXCEPT ![f] = rec]
  /\ rec.owner = p /\ rec.subs = Append(<<>>, e)
  /\ e.subscription_id = id /\ e.service = service /\ Tuned(service, rec.mux_key)
  /\ \/ SatelliteChecked(fe_key_to_release(old, id), f, rec)
     \/ CableChecked(f, rec)
  /\ MuxChecked(p, rec) /\ DishChecked(fe_key_to_release(old, id), rec, out)

ReservedNew(p, id, old, service, out) ==
  \E f \in Fe, rec \in SubType, e \in EntryType :
     ReservedAt(p, id, old, service, out, f, rec, e)

Effect(p, id, old, service, out) ==
  \/ Aborted(p, out) \/ Unchanged(id, old, service, out) \/ Left(id, old, out)
  \/ Joined(p, id, old, service, out) \/ ReservedNew(p, id, old, service, out)

-----------------------------------------------------------------------------
(* Leaving a frontend, continued.                                          *)

\* Leaving changes one list of subscribers, from which only the entry of the
\* subscription goes; a record is cleared only when that was the last one, and
\* then its frontend is the one that fe_key_to_release names.
LEMMA LeaveKeeps ==
  ASSUME StateOK, NEW p \in Proc, NEW id \in SubId,
         NEW old \in fe_for_subscription(p, id), NEW f \in Fe
  PROVE  LET db == unsubscribed(old, id) IN
         /\ db[f] = NoSub \/ SameTuning(db[f], sub[f])
         /\ \A i \in DOMAIN db[f].subs :
               \E k \in DOMAIN sub[f].subs : db[f].subs[i] = sub[f].subs[k]
         /\ Len(sub[f].subs) >= 2 => db[f] # NoSub
         /\ sub[f].owner # p => db[f] = sub[f]
         /\ sub[f].owner = p /\ db[f] = NoSub => f = old /\ f = fe_key_to_release(old, id)
<1> DEFINE db == unsubscribed(old, id)
<1>0. /\ IInv(sub, status) /\ sub \in [Fe -> SubType] /\ sub[f] \in SubType
      /\ WholeDb(sub) /\ Unique(sub) /\ p # None /\ NoFe \notin Fe
  BY RequestAssumption DEF StateOK, IInv, NoFe, Fe
<1>1. SameTuning(sub[f], sub[f])
  BY DEF SameTuning, SameClaim
<1>2. sub[f].owner = p => sub[f] # NoSub
  BY <1>0 DEF NoSub
<1>3. sub[f].subs # <<>> => sub[f] # NoSub
  BY DEF NoSub
<1>4. Len(sub[f].subs) >= 2 => sub[f].subs # <<>>
  OBVIOUS
<1>5. CASE old = NoFe \/ f # old
  <2>1. db[f] = sub[f]
    BY <1>5, <1>0 DEF unsubscribed
  <2> HIDE DEF db
  <2> QED BY <2>1, <1>1, <1>2, <1>3, <1>4 DEF db
<1>6. CASE old # NoFe /\ f = old
  <2>1. sub[f].owner = p /\ holds(sub[f], id)
    BY <1>6 DEF fe_for_subscription
  <2> DEFINE q == unsubscribe_helper(sub[f], id)
  <2>2. \A i, j \in DOMAIN sub[f].subs :
           sub[f].subs[i].subscription_id = sub[f].subs[j].subscription_id => i = j
    BY <1>0 DEF Unique
  <2>3. Whole(sub[f])
    BY <1>0 DEF WholeDb
  <2>4. /\ q = NoSub \/ q = [sub[f] EXCEPT !.subs = q.subs]
        /\ q # NoSub <=> Len(sub[f].subs) >= 2
        /\ \A i \in DOMAIN q.subs :
              \E k \in DOMAIN sub[f].subs : q.subs[i] = sub[f].subs[k]
    BY <1>0, <2>1, <2>2, <2>3, HelperOK
  <2>5. db[f] = q
    BY <1>0, <1>6 DEF unsubscribed
  <2> HIDE DEF q, db
  <2>6. q = NoSub \/ SameTuning(q, sub[f])
    BY <2>4, <1>0 DEF SubType, SameTuning, SameClaim
  <2>7. q = NoSub => f = fe_key_to_release(old, id)
    <3> SUFFICES ASSUME q = NoSub
                 PROVE  \A i \in DOMAIN sub[f].subs : sub[f].subs[i].subscription_id = id
      BY <1>6 DEF fe_key_to_release
    <3>1. sub[f].subs \in Seq(EntryType)
      BY <1>0 DEF SubType, EntryType
    <3>2. Len(sub[f].subs) \in Nat /\ DOMAIN sub[f].subs = 1..Len(sub[f].subs)
      BY <3>1, LenProperties
    <3>3. \A i, j \in DOMAIN sub[f].subs : i = j
      BY <3>2, <2>4
    <3> QED BY <3>3, <2>1 DEF holds
  <2> QED BY <2>1, <2>4, <2>5, <2>6, <2>7, <1>6 DEF db
<1> QED BY <1>5, <1>6

\* A non-empty set of numbers has a least element.
LEMMA LeastOf ==
  ASSUME NEW S \in SUBSET Nat, S # {}
  PROVE  \E x \in S : \A y \in S : x <= y
<1>1. IsWellFoundedOn(OpToRel(<, Nat), Nat)
  BY NatLessThanWellFounded
<1>2. PICK x \in S : \A y \in S : ~(<<y, x>> \in OpToRel(<, Nat))
  BY <1>1, WFMin
<1>3. \A y \in S : ~(y < x)
  BY <1>2 DEF OpToRel
<1> QED BY <1>3

\* When no entry matches, no frontend of the process is tuned to the mux.
LEMMA NothingToShare ==
  ASSUME StateOK, NEW p \in Proc, NEW o, NEW m, NEW service,
         matching_existing_subscription(p, o, m, service, TRUE) = {}
  PROVE  fes_on_mux(p, o, m) = {}
<1> SUFFICES ASSUME fes_on_mux(p, o, m) # {}
             PROVE  FALSE
  OBVIOUS
<1>1. fes_on_mux(p, o, m) \in SUBSET Nat /\ fes_on_mux(p, o, m) \subseteq Fe
  BY HardwareAssumption DEF fes_on_mux, Fe
<1>2. PICK f \in fes_on_mux(p, o, m) : \A g \in fes_on_mux(p, o, m) : f <= g
  BY <1>1, LeastOf
<1>3. ASSUME NEW g \in fes_on_mux(p, o, m)
      PROVE  /\ Len(sub[g].subs) \in Nat /\ DOMAIN sub[g].subs = 1..Len(sub[g].subs)
             /\ Len(sub[g].subs) # 0
  <2>1. g \in Fe /\ sub[g].owner = p
    BY DEF fes_on_mux
  <2>2. sub[g] \in SubType /\ Whole(sub[g]) /\ p # None
    BY <2>1, RequestAssumption DEF StateOK, IInv, WholeDb
  <2>3. sub[g].subs # <<>>
    BY <2>1, <2>2 DEF Whole, NoSub
  <2>4. sub[g].subs \in Seq(EntryType)
    BY <2>2 DEF SubType, EntryType
  <2> QED BY <2>3, <2>4, LenProperties, EmptySeq
<1>4. 1 \in DOMAIN sub[f].subs
  BY <1>3
<1> DEFINE all == UNION {{[fe |-> g, idx |-> i] :
                           i \in {i \in DOMAIN sub[g].subs :
                                   \/ TRUE
                                   \/ sub[g].subs[i].service = service}} :
                        g \in fes_on_mux(p, o, m)}
           x == [fe |-> f, idx |-> 1]
<1>5. x \in all
  BY <1>4
<1>6. ASSUME NEW y \in all
      PROVE  x.fe < y.fe \/ (x.fe = y.fe /\ x.idx <= y.idx)
  <2>1. PICK g \in fes_on_mux(p, o, m) :
           \E i \in DOMAIN sub[g].subs : y = [fe |-> g, idx |-> i]
    OBVIOUS
  <2>2. PICK i \in DOMAIN sub[g].subs : y = [fe |-> g, idx |-> i]
    BY <2>1
  <2>3. f <= g /\ 1 <= i /\ f \in Nat /\ g \in Nat
    BY <1>1, <1>2, <1>3
  <2> QED BY <2>2, <2>3
<1>7. x \in matching_existing_subscription(p, o, m, service, TRUE)
  BY <1>5, <1>6 DEF matching_existing_subscription
<1> QED BY <1>7

-----------------------------------------------------------------------------
(* What the operations do.                                                 *)

\* The fields of the outcome of a failed assertion.
LEMMA AbortFields ==
  ASSUME NEW label
  PROVE  /\ Abort(label).sub = sub /\ Abort(label).failed_assert = label
         /\ Still(Abort(label))
<1>1. Abort(label) = [Outcome(sub, dish_pos, target, Failed(NoFe))
                        EXCEPT !.failed_assert = label]
  BY DEF Abort, Stationary
<1> QED BY <1>1 DEF Outcome, Still

\* The fields of an outcome that moves no dish.
LEMMA StationaryFields ==
  ASSUME NEW db, NEW ret
  PROVE  /\ Stationary(db, ret).sub = db /\ Stationary(db, ret).ret = ret
         /\ Stationary(db, ret).failed_assert = NoFailure /\ Still(Stationary(db, ret))
BY DEF Outcome, Stationary, Still

\* A failed search changes nothing, or the subscription leaves.
LEMMA NotFoundEffect ==
  ASSUME NEW p, NEW id, NEW old, NEW service, NEW keep
  PROVE  Effect(p, id, old, service, NotFound(old, id, keep))
<1>1. keep => Unchanged(id, old, service, NotFound(old, id, keep))
  BY StationaryFields DEF NotFound, Unchanged
<1>2. ~keep => Left(id, old, NotFound(old, id, keep))
  BY StationaryFields DEF NotFound, Left
<1> QED BY <1>1, <1>2 DEF Effect

\* Joining a tuned frontend adds an entry to it; the assertion can only fail
\* when a dish may be moved for a mux, or when the frontend is exclusive.
LEMMA JoinEffect ==
  ASSUME StateOK, NEW p \in Proc, NEW id \in SubId,
         NEW old \in fe_for_subscription(p, id), NEW m \in Mux,
         NEW service \in Service \cup {NoService}, Tuned(service, m), NEW o \in MuxOptions,
         NEW x, x.fe \in fes_on_mux(p, o, m), x.idx \in DOMAIN sub[x.fe].subs,
         NEW ret_old, ret_old = old \/ (ret_old = NoFe /\ old = x.fe)
  PROVE  Effect(p, id, old, service,
                subscribe_fe_in_use(id, old, x, service, o, MuxInfo[m].dvbs, ret_old))
<1> DEFINE f    == x.fe
           db   == unsubscribed(old, id)
           e    == Entry(id, TRUE, service)
           slot == IF x.idx <= Len(db[f].subs) THEN db[f].subs[x.idx]
                                               ELSE sub[f].subs[x.idx]
           new  == [db EXCEPT ![f] = [sub[f] EXCEPT !.subs = Append(db[f].subs, e)]]
           out  == subscribe_fe_in_use(id, old, x, service, o, MuxInfo[m].dvbs, ret_old)
<1>1. f \in Fe /\ sub[f].owner = p /\ sub[f].mux_key = m
  BY DEF fes_on_mux
<1>2. \/ /\ out = Abort("reuse_of_exclusive") /\ MuxInfo[m].dvbs
         /\ o.may_move \/ may_move_dish(sub[f]) \/ may_change_lnb(sub[f])
      \/ out = Stationary(new, Ret(FALSE, ret_old, f, slot.subscription_id))
  BY DEF subscribe_fe_in_use
<1>3. e \in EntryType /\ e.subscription_id = id /\ e.service = service
  BY EntryOK DEF Entry
<1>4. holds(sub[f], slot.subscription_id)
  <2>1. db[f] \in SubType
    BY <1>1, LeaveOK DEF StateOK, IInv
  <2>2. db[f].subs \in Seq(EntryType) /\ sub[f] \in SubType
    BY <2>1, <1>1 DEF SubType, EntryType, StateOK, IInv
  <2>3. sub[f].subs \in Seq(EntryType)
    BY <2>2 DEF SubType, EntryType
  <2>4. x.idx \in Nat /\ x.idx >= 1 /\ DOMAIN db[f].subs = 1..Len(db[f].subs)
    BY <2>2, <2>3, LenProperties
  <2>5. \A i \in DOMAIN db[f].subs :
           \E k \in DOMAIN sub[f].subs : db[f].subs[i] = sub[f].subs[k]
    BY <1>1, LeaveKeeps
  <2>6. CASE x.idx <= Len(db[f].subs)
    <3>1. x.idx \in DOMAIN db[f].subs
      BY <2>4, <2>6, <2>2, LenProperties
    <3> QED BY <3>1, <2>5, <2>6 DEF holds
  <2>7. CASE ~(x.idx <= Len(db[f].subs))
    BY <2>7 DEF holds
  <2> QED BY <2>6, <2>7
<1> HIDE DEF f, db, e, slot, new, out
<1>5. CASE out = Stationary(new, Ret(FALSE, ret_old, f, slot.subscription_id))
  <2>1. /\ out.sub = new /\ out.ret = Ret(FALSE, ret_old, f, slot.subscription_id)
        /\ out.failed_assert = NoFailure /\ Still(out)
    BY <1>5 DEF Stationary, Outcome, Still
  <2>2. JoinedAt(p, id, old, service, out, f, e, ret_old, slot.subscription_id)
    BY <1>1, <1>3, <1>4, <2>1 DEF JoinedAt, new, db, f
  <2> QED BY <1>1, <1>3, <2>2 DEF Effect, Joined, out
<1>6. CASE /\ out = Abort("reuse_of_exclusive") /\ MuxInfo[m].dvbs
           /\ o.may_move \/ may_move_dish(sub[f]) \/ may_change_lnb(sub[f])
  <2>1. MayMove \/ ExclusiveOnMux
    BY <1>1, <1>6 DEF MayMove, ExclusiveOnMux, is_exclusive
  <2>2. Aborted(p, out)
    BY <1>6, <2>1, AbortFields DEF Aborted, Blamed, Labels, NoFailure
  <2> QED BY <2>2 DEF Effect, out
<1> QED BY <1>2, <1>5, <1>6

\* Reserving a cable or terrestrial frontend; the assertion can only fail when
\* some other process left a record.
LEMMA DvbcEffect ==
  ASSUME StateOK, NEW p \in Proc, status[p] = "alive", NEW id \in SubId,
         NEW old \in fe_for_subscription(p, id), NEW m \in Mux, ~MuxInfo[m].dvbs,
         NEW service \in Service \cup {NoService}, Tuned(service, m), NEW o \in MuxOptions,
         fes_on_mux(p, o, m) = {},
         NEW f \in find_best_fe_for_dvtdbc(fe_key_to_release(old, id), m, o), NEW n \in Nat
  PROVE  Effect(p, id, old, service,
                reserve_fe_for_dvbc_or_dvbt_mux(p, id, old, f, m, service, n))
<1> DEFINE db  == unsubscribed(old, id)
           rel == fe_key_to_release(old, id)
           e   == Entry(id, TRUE, service)
           rfp == [lnb |-> NoLnb, card |-> FeInfo[f].card, rf_input |-> 0]
           rec == [db[f] EXCEPT
                     !.owner = p, !.config_id = n, !.rf_path = rfp,
                     !.pol = NONE, !.band = NONE, !.sat_pos = MuxInfo[m].sat,
                     !.usals_pos = MuxInfo[m].sat, !.rf_coupler_id = None,
                     !.mux_key = m, !.subs = Append(db[f].subs, e)]
           new == [db EXCEPT ![f] = rec]
           out == reserve_fe_for_dvbc_or_dvbt_mux(p, id, old, f, m, service, n)
<1>1. /\ f \in Fe /\ FeInfo[f].dvbc /\ (~is_subscribed(f) \/ f = rel)
  BY DEF find_best_fe_for_dvtdbc, is_our_subscription
<1>2. /\ IInv(db, status) /\ db[f] \in SubType /\ Whole(db[f])
      /\ db[f] # NoSub => db[f].owner = sub[f].owner
      /\ rel # NoFe => db[rel] = NoSub
  BY <1>1, LeaveOK DEF StateOK, IInv, WholeDb
<1>3. /\ db[f].owner # None => out = Abort("stale_reservation")
      /\ db[f].owner = None =>
            out = Stationary(new, Ret(FALSE, old, f, None))
  BY DEF reserve_fe_for_dvbc_or_dvbt_mux
<1>4. e \in EntryType /\ e.subscription_id = id /\ e.service = service
  BY EntryOK DEF Entry
<1>5. /\ rfp \in [lnb: {NoLnb}, card: Nat \cup {None}, rf_input: {0, None}]
      /\ rfp \notin RfPath
  <2>1. FeInfo[f].card \in Nat
    BY <1>1, HardwareAssumption DEF FeType
  <2>2. NoLnb \notin Lnb
    BY HardwareAssumption DEF NoLnb
  <2>3. \A r \in RfPath : r.lnb \in Lnb
    BY HardwareAssumption
  <2>4. rfp.lnb = NoLnb
    OBVIOUS
  <2>5. rfp \in [lnb: {NoLnb}, card: Nat \cup {None}, rf_input: {0, None}]
    BY <2>1
  <2> HIDE DEF rfp
  <2> QED BY <2>2, <2>3, <2>4, <2>5
<1> HIDE DEF e, db, out, rfp, rel, new
<1>6. CASE db[f].owner # None
  <2>1. db[f] # NoSub /\ sub[f].owner # None /\ sub[f].owner = db[f].owner
    BY <1>2, <1>6 DEF NoSub
  <2>2. ~is_subscribed(f)
    BY <1>1, <1>2, <2>1 DEF Fe, NoFe
  <2>3. sub[f].owner # p
    BY <2>1, <2>2 DEF is_subscribed
  <2>4. OthersOwn(p)
    BY <1>1, <2>1, <2>3 DEF OthersOwn
  <2>5. Aborted(p, out)
    BY <1>3, <1>6, <2>4, AbortFields DEF Aborted, Blamed, Labels, NoFailure
  <2> QED BY <2>5 DEF Effect, out
<1>7. CASE db[f].owner = None
  <2>1. db[f] = NoSub
    BY <1>2, <1>7 DEF Whole
  <2>2. db[f].subs = <<>>
    BY <2>1 DEF NoSub
  <2>3. Append(<<>>, e) \in Seq(EntryType)
    BY <1>2, <1>4, <2>2, AppendEntry DEF SubType, EntryType
  <2>4. MuxInfo[m].sat \in Nat
    BY ChannelAssumption
  <2>5. /\ rec \in SubType /\ rec.owner = p /\ rec.subs = Append(<<>>, e)
        /\ rec.rf_path = rfp /\ rec.mux_key = m
    <3> DEFINE q == Append(<<>>, e)
    <3> HIDE DEF q
    <3>1. q \in Seq(EntryType) /\ q = Append(db[f].subs, e)
      BY <2>2, <2>3 DEF q
    <3>2. rec = [db[f] EXCEPT
                   !.owner = p, !.config_id = n, !.rf_path = rfp,
                   !.pol = NONE, !.band = NONE, !.sat_pos = MuxInfo[m].sat,
                   !.usals_pos = MuxInfo[m].sat, !.rf_coupler_id = None,
                   !.mux_key = m, !.subs = q]
      BY <3>1
    <3>3. db[f] \in SubType
      BY <1>2
    <3> HIDE DEF rec
    <3>4. rec \in SubType
      <4>1. q \in Seq(EntryType)
        BY <3>1
      <4> QED BY ONLY p \in Proc, n \in Nat, m \in Mux, <1>5, <2>4, <4>1, <3>2, <3>3
              DEF SubType, EntryType
    <3>5. /\ rec.owner = p /\ rec.subs = q /\ rec.rf_path = rfp /\ rec.mux_key = m
      BY <3>2, <3>3 DEF SubType
    <3> QED BY <3>4, <3>5 DEF q
  <2> HIDE DEF rec
  <2>a. out = Stationary(new, Ret(FALSE, old, f, None))
    BY <1>3, <1>7
  <2>6. /\ out.sub = new /\ out.ret = Ret(FALSE, old, f, None)
        /\ out.failed_assert = NoFailure /\ Still(out)
    BY <2>a DEF Stationary, Outcome, Still
  <2>7. CableChecked(f, rec) /\ MuxChecked(p, rec) /\ DishChecked(rel, rec, out)
    BY <1>1, <1>5, <2>5, <2>6 DEF CableChecked, MuxChecked, DishChecked
  <2>8. ReservedAt(p, id, old, service, out, f, rec, e)
    BY <1>4, <2>1, <2>5, <2>6, <2>7 DEF ReservedAt, new, db, rel
  <2> QED BY <1>1, <1>4, <2>5, <2>8 DEF Effect, ReservedNew, out
<1> QED BY <1>6, <1>7

\* The assertions on a reservation can only fail when another process has a
\* record in the database.
LEMMA ReserveBlame ==
  ASSUME StateOK, NEW p \in Proc, status[p] = "alive", NEW id \in SubId,
         NEW old \in fe_for_subscription(p, id), NEW s, NEW f \in Fe,
         ~is_subscribed(f) \/ f = fe_key_to_release(old, id),
         NEW out, ReserveFails(p, id, old, f, s, out)
  PROVE  Aborted(p, out)
<1> DEFINE rel    == fe_key_to_release(old, id)
           db     == unsubscribed(old, id)
           master == can_control_lnb(s, rel)
<1>1. PICK last \in last_scanned(rel) :
        /\ reserve_failure(p, db[f], master, last) \in {"stale_reservation", "foreign_owner"}
        /\ out = Abort(reserve_failure(p, db[f], master, last))
  BY DEF ReserveFails
<1>2. OthersOwn(p)
  <2> SUFFICES ASSUME \A g \in Fe : sub[g].owner \in {None, p}
               PROVE  FALSE
    BY DEF OthersOwn
  <2>1. db[f] = NoSub
    <3>1. CASE f = rel
      BY <3>1, LeaveOK DEF StateOK, Fe, NoFe
    <3>2. CASE ~is_subscribed(f)
      <4>1. sub[f].owner = None
        BY <3>2 DEF is_subscribed
      <4>2. sub[f] = NoSub
        BY <4>1 DEF StateOK, IInv, WholeDb, Whole
      <4>3. db[f] = sub[f]
        BY <4>1, LeaveKeeps, RequestAssumption
      <4> QED BY <4>2, <4>3
    <3> QED BY <3>1, <3>2
  <2>2. db[f].owner = None /\ db[f].config_id = None
    BY <2>1 DEF NoSub
  <2>3. CASE master
    BY <1>1, <2>2, <2>3 DEF reserve_failure, NoFailure
  <2>4. CASE ~master
    <3>1. others_in_use(rel) # {}
      BY <2>4 DEF can_control_lnb
    <3>2. last \in Fe /\ sub[last].owner # None
      BY <3>1 DEF last_scanned, others_in_use, is_subscribed
    <3>3. counts_owner(last) = p
      BY <3>2 DEF counts_owner, Fe, NoFe
    <3> QED BY <1>1, <2>2, <2>4, <3>3 DEF reserve_failure, NoFailure
  <2> QED BY <2>3, <2>4
<1> QED BY <1>1, <1>2, AbortFields DEF Aborted, Blamed, Labels, NoFailure

\* Reserving a frontend that find_best_fe_for_lnb returned.
LEMMA ReservedEffect ==
  ASSUME StateOK, NEW p \in Proc, status[p] = "alive", NEW id \in SubId,
         NEW old \in fe_for_subscription(p, id), NEW r \in RfPath, NEW s,
         NEW blind, NEW multistream, NEW spectrum,
         NEW f \in find_best_fe_for_lnb(r, fe_key_to_release(old, id), s,
                                       blind, multistream, spectrum),
         NEW fields \in SubType, NEW e \in EntryType, e.subscription_id = id,
         NEW service, e.service = service, Tuned(service, fields.mux_key),
         fields.subs = Append(unsubscribed(old, id)[f].subs, e), fields.rf_path = r,
         unsubscribed(old, id)[f] = NoSub
            => ChannelChecked(fe_key_to_release(old, id), fields),
         MuxChecked(p, fields), NEW sat, NEW may_move,
         may_move => \/ MayMove
                     \/ /\ is_exclusive(s) /\ s.dish_id = LnbInfo[r.lnb].dish
                        /\ LnbInfo[r.lnb].dish \in Positioner => may_move_dish(fields),
         sat = None \/ has_network(r.lnb, sat) \/ UnknownNetwork,
         NEW out \in Reserved(p, id, old, f, s, fields, sat, may_move)
  PROVE  Effect(p, id, old, service, out)
<1> DEFINE rel  == fe_key_to_release(old, id)
           db   == unsubscribed(old, id)
           d    == LnbInfo[r.lnb].dish
           pos1 == NewPos(id, old, s, fields, sat, may_move)
           tgt1 == NewTarget(id, old, s, fields, sat, may_move)
<1>1. /\ f \in Fe /\ (~is_subscribed(f) \/ f = rel) /\ FeInfo[f].dvbs
      /\ f = rel \/ ~adapter_in_use(FeInfo[f].adapter)
      /\ check_for_resource_conflicts(s, rel, PathInfo[r].unicable)
  BY DEF find_best_fe_for_lnb, is_our_subscription
<1>2. \/ ReserveFails(p, id, old, f, s, out)
      \/ ReserveWrites(p, id, old, f, s, fields, sat, may_move, out)
  BY <1>1, ReservedForm
<1>3. CASE ReserveFails(p, id, old, f, s, out)
  BY <1>1, <1>3, ReserveBlame DEF Effect
<1>4. CASE ReserveWrites(p, id, old, f, s, fields, sat, may_move, out)
  <2>1. /\ db[f] = NoSub
        /\ \E rec \in SubType : \E ret :
              /\ out = Outcome([db EXCEPT ![f] = rec], pos1, tgt1, ret)
              /\ \/ ret = Ret(FALSE, old, f, None)
                 \/ ret = Failed(old) /\ sat # None /\ ~has_network(r.lnb, sat)
              /\ Written(p, rec, fields)
    BY <1>4 DEF ReserveWrites
  <2>2p. PICK rec \in SubType : \E ret :
              /\ out = Outcome([db EXCEPT ![f] = rec], pos1, tgt1, ret)
              /\ \/ ret = Ret(FALSE, old, f, None)
                 \/ ret = Failed(old) /\ sat # None /\ ~has_network(r.lnb, sat)
              /\ Written(p, rec, fields)
    BY <2>1
  <2>2. PICK ret :
              /\ out = Outcome([db EXCEPT ![f] = rec], pos1, tgt1, ret)
              /\ \/ ret = Ret(FALSE, old, f, None)
                 \/ ret = Failed(old) /\ sat # None /\ ~has_network(r.lnb, sat)
              /\ Written(p, rec, fields)
    BY <2>2p
  <2> DEFINE new == [db EXCEPT ![f] = rec]
  <2>a. out = Outcome(new, pos1, tgt1, ret)
    BY <2>2
  <2> HIDE DEF pos1, tgt1, new
  <2>3. /\ out.sub = new /\ out.dish_pos = pos1 /\ out.target = tgt1
        /\ out.ret = ret /\ out.failed_assert = NoFailure
    BY <2>a DEF Outcome
  <2>4. /\ rec.owner = p /\ rec.subs = fields.subs /\ rec.mux_key = fields.mux_key
        /\ rec.unicable_ch = fields.unicable_ch /\ SameClaim(rec, fields)
        /\ rec.rf_path = r
    BY <2>2 DEF Written, SameClaim
  <2>5. db[f].subs = <<>>
    BY <2>1 DEF NoSub
  <2>6. is_exclusive(rec) <=> is_exclusive(fields)
    BY <2>4 DEF SameClaim, is_exclusive, may_change_lnb, may_move_dish
  <2>7. MuxChecked(p, rec)
    BY <2>4, <2>6 DEF MuxChecked
  <2>8. SatelliteChecked(rel, f, rec)
    BY <1>1, <2>1, <2>4 DEF SatelliteChecked, ChannelChecked
  <2>9. DishChecked(rel, rec, out)
    <3>1. CASE ~MovesDish(id, old, s, fields, sat, may_move)
      BY <2>3, <3>1 DEF pos1, tgt1, NewPos, NewTarget, DishChecked, Still
    <3>2. CASE MovesDish(id, old, s, fields, sat, may_move) /\ ~MayMove
      <4>1. /\ d \in Positioner /\ is_exclusive(s) /\ s.dish_id = d /\ may_move_dish(fields)
        BY <3>2 DEF MovesDish
      <4>2. pos1 = schedule_move(d, LnbInfo[r.lnb].networks[sat])
        BY <3>2 DEF pos1, NewPos
      <4>3. \A c \in Positioner \ {d} : out.dish_pos[c] = dish_pos[c]
        <5>1. dish_pos \in [Positioner -> Pos]
          BY DEF StateOK, DishOK
        <5> HIDE DEF d
        <5> QED BY <5>1, <2>3, <4>2 DEF schedule_move
      <4>4. ASSUME NEW g \in others_in_use(rel), sub[g].dish_id = d
            PROVE  FALSE
        <5>a. Positioner \subseteq Nat
          BY HardwareAssumption
        <5> HIDE DEF d
        <5>1. d >= 0
          BY <4>1, <5>a
        <5>2. same_dish(sub[g], s)
          BY <4>1, <4>4, <5>1 DEF same_dish
        <5>3. conflicts(sub[g], s, PathInfo[r].unicable)
          BY <4>1, <5>2 DEF conflicts
        <5> QED BY <5>3, <1>1 DEF check_for_resource_conflicts
      <4>5. may_move_dish(rec)
        BY <4>1, <2>4 DEF SameClaim, may_move_dish
      <4> HIDE DEF d, rel
      <4> QED BY <4>1, <4>3, <4>4, <4>5 DEF DishChecked
    <3> QED BY <3>1, <3>2 DEF DishChecked
  <2>10. out.ret = Ret(FALSE, old, f, None) \/ (out.ret = Failed(old) /\ UnknownNetwork)
    BY <2>2, <2>3
  <2>11. ReservedAt(p, id, old, service, out, f, rec, e)
    <3>1. out.sub = [unsubscribed(old, id) EXCEPT ![f] = rec]
      BY <2>3 DEF new
    <3>2. rec.subs = Append(<<>>, e) /\ Tuned(service, rec.mux_key)
      BY <2>4, <2>5
    <3> QED BY <2>1, <2>3, <2>4, <2>7, <2>8, <2>9, <2>10, <3>1, <3>2 DEF ReservedAt
  <2> QED BY <1>1, <2>11 DEF Effect, ReservedNew
<1> QED BY <1>2, <1>3, <1>4

\* A reservation for a satellite mux is not exclusive.
LEMMA MuxNotExclusive ==
  ASSUME StateOK, NEW p \in Proc, NEW r \in RfPath, NEW m \in Mux, MuxInfo[m].dvbs
  PROVE  ~is_exclusive(desired_for_mux(p, r, m))
<1>1. r.lnb \in Lnb
  BY HardwareAssumption
<1>2. lnb_usals_pos(r.lnb) \in Nat /\ LnbInfo[r.lnb].usals_pos \in Nat
  BY <1>1, PosType, HardwareAssumption, ChannelAssumption
<1>3. lnb_usals_pos(r.lnb) # None /\ LnbInfo[r.lnb].usals_pos # None
  BY <1>2 DEF None
<1>4. MuxInfo[m].pol # NONE /\ MuxInfo[m].band # NONE /\ MuxInfo[m].sat # None
  BY ChannelAssumption DEF None
<1> QED BY <1>3, <1>4
        DEF desired_for_mux, desired, is_exclusive, may_change_lnb, may_move_dish

\* The unicable channel that is selected is used by no other reservation.
LEMMA ChannelFree ==
  ASSUME NEW r, NEW rel, NEW ch \in select_unicable_ch(r, rel), ch # None,
         NEW g \in others_in_use(rel), sub[g].rf_path.lnb = r.lnb
  PROVE  sub[g].unicable_ch # ch
<1>1. PICK i \in free_unicable_channels(r.lnb, rel) :
         ch = LnbInfo[r.lnb].unicable_channels[i]
  BY DEF select_unicable_ch
<1> QED BY <1>1 DEF free_unicable_channels

\* Tuning a frontend to a satellite mux.
LEMMA DvbsEffect ==
  ASSUME StateOK, NEW p \in Proc, status[p] = "alive", NEW id \in SubId,
         NEW old \in fe_for_subscription(p, id), NEW m \in Mux, MuxInfo[m].dvbs,
         NEW service \in Service \cup {NoService}, Tuned(service, m),
         NEW o \in MuxOptions, fes_on_mux(p, o, m) = {},
         NEW out \in tune_dvbs_mux(p, id, old, m, service, o)
  PROVE  Effect(p, id, old, service, out)
<1> DEFINE rel    == fe_key_to_release(old, id)
           db     == unsubscribed(old, id)
           choice == find_fe_and_lnb_for_tuning_to_mux(p, rel, m, o)
<1>0. o \in OptionType
  BY RequestAssumption
<1>1. CASE out = NotFound(old, id, o.keep)
  BY <1>1, NotFoundEffect
<1>2. CASE out # NotFound(old, id, o.keep)
  <2>1. PICK c \in choice : \E ch \in select_unicable_ch(c.path, rel) :
           out \in Reserved(p, id, old, c.fe, desired_for_mux(p, c.path, m),
                            mux_record(db[c.fe], p, c.path, m, ch, id, service),
                            MuxInfo[m].sat, o.may_move)
    BY <1>2 DEF tune_dvbs_mux
  <2>a. PICK ch \in select_unicable_ch(c.path, rel) :
           out \in Reserved(p, id, old, c.fe, desired_for_mux(p, c.path, m),
                            mux_record(db[c.fe], p, c.path, m, ch, id, service),
                            MuxInfo[m].sat, o.may_move)
    BY <2>1
  <2> DEFINE r == c.path
             f == c.fe
             s == desired_for_mux(p, r, m)
             e == Entry(id, TRUE, service)
             q == Append(db[f].subs, e)
             fields == mux_record(db[f], p, r, m, ch, id, service)
  <2>2. /\ f \in Fe /\ r \in usable_paths(MuxInfo[m].sat, MuxInfo[m].pol, o)
        /\ f \in find_best_fe_for_lnb(r, rel, s, o.blind, MuxInfo[m].sat # 0, FALSE)
    BY DEF find_fe_and_lnb_for_tuning_to_mux
  <2>3. r \in RfPath /\ has_network(r.lnb, MuxInfo[m].sat)
    BY <1>0, <2>2 DEF usable_paths, OptionType
  <2>4. /\ s \in SubType /\ s.rf_path = r /\ ch \in Nat \cup {None}
        /\ ~is_exclusive(s)
    BY <2>3, DesiredForMux, ChannelType, MuxNotExclusive
  <2>5. e \in EntryType /\ e.subscription_id = id /\ e.service = service
    BY EntryOK DEF Entry
  <2>6. db[f] \in SubType
    BY <2>2, LeaveOK DEF StateOK, IInv
  <2>7. fields = [s EXCEPT !.unicable_ch = ch, !.mux_key = m, !.subs = q]
    BY DEF mux_record
  <2>8. out \in Reserved(p, id, old, f, s, fields, MuxInfo[m].sat, o.may_move)
    BY <2>a
  <2>9. \A g \in others_in_use(rel) :
           ch # None /\ sub[g].rf_path.lnb = r.lnb => sub[g].unicable_ch # ch
    BY ChannelFree
  <2> HIDE DEF e, db, s, fields, f, r
  <2>10. q \in Seq(EntryType)
    BY <2>5, <2>6, AppendEntry DEF SubType, EntryType
  <2>11. /\ fields \in SubType /\ fields.subs = q /\ fields.rf_path = r
         /\ fields.mux_key = m /\ fields.unicable_ch = ch /\ SameClaim(fields, s)
    <3> HIDE DEF q
    <3>1. m \in Mux \cup {NoMux}
      OBVIOUS
    <3>2. s \in SubType /\ s.rf_path = r /\ ch \in Nat \cup {None}
      BY <2>4
    <3>3. fields \in SubType
      BY <3>1, <3>2, <2>7, <2>10 DEF SubType, EntryType
    <3>4. /\ fields.subs = q /\ fields.rf_path = r
          /\ fields.mux_key = m /\ fields.unicable_ch = ch /\ SameClaim(fields, s)
      BY <3>2, <2>7 DEF SubType, SameClaim
    <3> QED BY <3>3, <3>4
  <2>12. ~is_exclusive(fields)
    BY <2>4, <2>11 DEF SameClaim, is_exclusive, may_change_lnb, may_move_dish
  <2>13. MuxChecked(p, fields)
    BY <2>3, <2>11, <2>12 DEF MuxChecked
  <2>14. ChannelChecked(rel, fields)
    BY <2>9, <2>11 DEF ChannelChecked
  <2>15. o.may_move => MayMove
    BY DEF MayMove
  <2>16. fields \in SubType /\ fields.subs = Append(db[f].subs, e) /\ fields.rf_path = r
         /\ Tuned(service, fields.mux_key)
    BY <2>11
  <2> DEFINE multistream == MuxInfo[m].sat # 0
             sat == MuxInfo[m].sat
             may_move == o.may_move
  <2>17. /\ f \in find_best_fe_for_lnb(r, rel, s, o.blind, multistream, FALSE)
         /\ out \in Reserved(p, id, old, f, s, fields, sat, may_move)
         /\ has_network(r.lnb, sat) /\ (may_move => MayMove)
    BY <2>2, <2>3, <2>8, <2>15
  <2> HIDE DEF multistream, sat, may_move
  <2> QED BY ONLY StateOK, p \in Proc, status[p] = "alive", id \in SubId,
                  old \in fe_for_subscription(p, id), <2>3, <2>5, <2>13, <2>14, <2>16,
                  <2>17, ReservedEffect DEF db
<1> QED BY <1>1, <1>2

\* Subscribing to a mux or a service, in all its variants.
LEMMA SubscribeMuxEffect ==
  ASSUME StateOK, NEW p \in Proc, status[p] = "alive", NEW id \in SubId, NEW m \in Mux,
         NEW service \in Service \cup {NoService}, Tuned(service, m), NEW o \in MuxOptions,
         NEW out \in subscribe_mux(p, id, m, service, o)
  PROVE  \E old \in fe_for_subscription(p, id) : Effect(p, id, old, service, out)
<1>1. PICK old \in fe_for_subscription(p, id) :
         out \in subscribe_mux_from(p, id, old, m, service, o)
  BY DEF subscribe_mux
<1> DEFINE dvbs == MuxInfo[m].dvbs
           same_service == matching_existing_subscription(p, o, m, service, FALSE)
           same_mux     == matching_existing_subscription(p, o, m, service, TRUE)
<1>2. ASSUME NEW only, NEW x \in matching_existing_subscription(p, o, m, service, only)
      PROVE  x.fe \in fes_on_mux(p, o, m) /\ x.idx \in DOMAIN sub[x.fe].subs
  BY DEF matching_existing_subscription
<1>3. ASSUME NEW x \in same_service, out = reuse_service(id, old, x, service, o, dvbs),
             service # NoService
      PROVE  Effect(p, id, old, service, out)
  <2>1. CASE sub[x.fe].subs[x.idx].subscription_id = id
    <3>1. x.fe \in Fe /\ sub[x.fe].owner = p /\ holds(sub[x.fe], id)
      BY <1>2, <2>1 DEF fes_on_mux, holds
    <3>2. old = x.fe /\ old # NoFe
      <4>1. old \in Fe /\ sub[old].owner = p /\ holds(sub[old], id)
        BY <3>1 DEF fe_for_subscription
      <4>2. Unique(sub)
        BY DEF StateOK, IInv
      <4> QED BY <3>1, <4>1, <4>2 DEF Unique, holds, Fe, NoFe
    <3>3. out = Stationary(sub, Ret(FALSE, old, old, id))
      BY <1>3, <2>1, <3>2 DEF reuse_service
    <3>4. /\ out.sub = sub /\ out.ret = Ret(FALSE, old, old, id)
          /\ out.failed_assert = NoFailure /\ Still(out)
      BY ONLY <3>3 DEF Stationary, Outcome, Still
    <3>5. Unchanged(id, old, service, out)
      BY <1>3, <3>2, <3>4 DEF Unchanged
    <3> QED BY <3>5 DEF Effect
  <2>2. CASE sub[x.fe].subs[x.idx].subscription_id # id
    <3> DEFINE ret_old == IF old = x.fe THEN NoFe ELSE old
    <3>1. out = subscribe_fe_in_use(id, old, x, service, o, dvbs, ret_old)
      BY <1>3, <2>2 DEF reuse_service
    <3>2. ret_old = old \/ (ret_old = NoFe /\ old = x.fe)
      OBVIOUS
    <3> HIDE DEF ret_old
    <3> QED BY <3>1, <3>2, <1>2, JoinEffect
  <2> QED BY <2>1, <2>2
<1>4. ASSUME NEW x \in same_mux,
             out = subscribe_fe_in_use(id, old, x, service, o, dvbs, old)
      PROVE  Effect(p, id, old, service, out)
  BY <1>2, <1>4, JoinEffect
<1>5. ASSUME same_mux = {}
      PROVE  fes_on_mux(p, o, m) = {}
  BY <1>5, NothingToShare
<1>6. ASSUME fes_on_mux(p, o, m) = {}, ~dvbs,
             out \in tune_dvbc_mux(p, id, old, m, service, o)
      PROVE  Effect(p, id, old, service, out)
  <2>1. \/ out = NotFound(old, id, o.keep)
        \/ \E f \in find_best_fe_for_dvtdbc(fe_key_to_release(old, id), m, o),
              n \in next_config_id(p) :
              out = reserve_fe_for_dvbc_or_dvbt_mux(p, id, old, f, m, service, n)
    BY <1>6 DEF tune_dvbc_mux
  <2>2. \A n \in next_config_id(p) : n \in Nat
    BY HardwareAssumption DEF next_config_id
  <2> QED BY <1>6, <2>1, <2>2, NotFoundEffect, DvbcEffect
<1>7. \/ /\ service # NoService
         /\ \E x \in same_service : out = reuse_service(id, old, x, service, o, dvbs)
      \/ \E x \in same_mux : out = subscribe_fe_in_use(id, old, x, service, o, dvbs, old)
      \/ same_mux = {} /\ dvbs /\ out \in tune_dvbs_mux(p, id, old, m, service, o)
      \/ same_mux = {} /\ ~dvbs /\ out \in tune_dvbc_mux(p, id, old, m, service, o)
  BY <1>1 DEF subscribe_mux_from
<1> HIDE DEF same_service, same_mux
<1>8. Effect(p, id, old, service, out)
  BY <1>3, <1>4, <1>5, <1>6, <1>7, DvbsEffect
<1> QED BY <1>8

\* Reserving a frontend for exclusive use of an LNB.
LEMMA LnbReservedEffect ==
  ASSUME StateOK, NEW p \in Proc, status[p] = "alive", NEW id \in SubId,
         NEW old \in fe_for_subscription(p, id), NEW r \in RfPath, NEW s,
         NEW blind, NEW spectrum,
         NEW f \in find_best_fe_for_lnb(r, fe_key_to_release(old, id), s,
                                       blind, FALSE, spectrum),
         is_exclusive(s), s.dish_id = LnbInfo[r.lnb].dish,
         NEW stored \in SubType, stored.rf_path = r, stored.mux_key = NoMux,
         NEW sat, NEW may_move,
         may_move /\ LnbInfo[r.lnb].dish \in Positioner => may_move_dish(stored),
         sat = None \/ has_network(r.lnb, sat) \/ UnknownNetwork,
         NEW out \in Reserved(p, id, old, f, s,
                             lnb_record(unsubscribed(old, id)[f], stored, id),
                             sat, may_move)
  PROVE  Effect(p, id, old, NoService, out)
<1> DEFINE db == unsubscribed(old, id)
           rel == fe_key_to_release(old, id)
           e  == Entry(id, FALSE, NoService)
           q  == Append(db[f].subs, e)
           ch == db[f].unicable_ch
           fields == lnb_record(db[f], stored, id)
<1>1. e \in EntryType /\ e.subscription_id = id /\ e.service = NoService
  BY EntryOK DEF Entry
<1>2. db[f] \in SubType
  BY LeaveOK DEF StateOK, IInv, find_best_fe_for_lnb
<1>3. fields = [stored EXCEPT !.unicable_ch = ch, !.subs = q]
  BY DEF lnb_record
<1>4. out \in Reserved(p, id, old, f, s, fields, sat, may_move)
  OBVIOUS
<1>a. NoMux \notin Mux /\ (db[f] = NoSub => ch = None)
  BY ChannelAssumption DEF NoSub
<1> HIDE DEF e, db, fields
<1>5. q \in Seq(EntryType) /\ ch \in Nat \cup {None}
  BY <1>1, <1>2, AppendEntry DEF SubType, EntryType
<1>6. /\ fields \in SubType /\ fields.subs = q /\ fields.rf_path = r
      /\ fields.mux_key = NoMux /\ fields.unicable_ch = ch
      /\ fields.dish_usals_pos = stored.dish_usals_pos
  <2> HIDE DEF q, ch
  <2>0. stored \in SubType
    OBVIOUS
  <2>1. fields \in SubType
    BY ONLY <2>0, <1>3, <1>5 DEF SubType, EntryType
  <2>2. /\ fields.subs = q /\ fields.rf_path = r /\ fields.mux_key = NoMux
        /\ fields.unicable_ch = ch /\ fields.dish_usals_pos = stored.dish_usals_pos
    BY <1>3 DEF SubType
  <2> QED BY <2>1, <2>2
<1>7. MuxChecked(p, fields) /\ Tuned(NoService, fields.mux_key)
  BY <1>6, <1>a DEF MuxChecked, Tuned
<1>8. db[f] = NoSub => ChannelChecked(rel, fields)
  BY <1>6, <1>a DEF ChannelChecked
<1>9. may_move => \/ MayMove
                  \/ /\ is_exclusive(s) /\ s.dish_id = LnbInfo[r.lnb].dish
                     /\ LnbInfo[r.lnb].dish \in Positioner => may_move_dish(fields)
  BY <1>6 DEF may_move_dish
<1>10. fields \in SubType /\ fields.subs = Append(db[f].subs, e) /\ fields.rf_path = r
  BY <1>6
<1> DEFINE multistream == FALSE
<1>11. f \in find_best_fe_for_lnb(r, fe_key_to_release(old, id), s, blind,
                                 multistream, spectrum)
  OBVIOUS
<1> HIDE DEF multistream
<1> QED BY ONLY StateOK, p \in Proc, status[p] = "alive", id \in SubId,
                old \in fe_for_subscription(p, id), r \in RfPath, <1>11,
                sat = None \/ has_network(r.lnb, sat) \/ UnknownNetwork,
                <1>1, <1>4, <1>7, <1>8, <1>9, <1>10, ReservedEffect DEF db

\* Subscribing to a satellite band.
LEMMA SubscribeSatBandEffect ==
  ASSUME StateOK, NEW p \in Proc, status[p] = "alive", NEW id \in SubId,
         NEW b \in BandRequest, NEW o \in BandOptions,
         NEW out \in subscribe_sat_band(p, id, b, o)
  PROVE  \E old \in fe_for_subscription(p, id) : Effect(p, id, old, NoService, out)
<1>1. PICK old \in fe_for_subscription(p, id) :
         out \in subscribe_sat_band_from(p, id, old, b, o)
  BY DEF subscribe_sat_band
<1> DEFINE rel    == fe_key_to_release(old, id)
           db     == unsubscribed(old, id)
           choice == find_fe_and_lnb_for_tuning_to_band(p, rel, b, o)
           s(r)   == desired(p, r, b.sat, b.pol, NONE, lnb_usals_pos(r.lnb))
           stored(r) == desired(p, r, b.sat, b.pol, b.band,
                                IF o.may_move THEN None ELSE lnb_usals_pos(r.lnb))
<1>0. o \in OptionType
  BY RequestAssumption
<1>2. CASE out = NotFound(old, id, o.keep)
  BY <1>2, NotFoundEffect
<1>3. CASE out # NotFound(old, id, o.keep)
  <2>1. PICK c \in choice :
          out \in Reserved(p, id, old, c.fe, s(c.path),
                           lnb_record(db[c.fe], stored(c.path), id), b.sat, o.may_move)
    BY <1>1, <1>3 DEF subscribe_sat_band_from
  <2> DEFINE r == c.path
             f == c.fe
  <2>2. /\ f \in Fe /\ r \in usable_paths(b.sat, b.pol, o)
        /\ f \in find_best_fe_for_lnb(r, rel, s(r), o.blind, FALSE, TRUE)
    BY DEF find_fe_and_lnb_for_tuning_to_band
  <2>3. r \in RfPath /\ has_network(r.lnb, b.sat)
    BY <1>0, <2>2 DEF usable_paths, OptionType
  <2>4. lnb_usals_pos(r.lnb) \in Pos /\ b.sat \in Nat
    BY <2>3, PosType, HardwareAssumption, RequestAssumption
  <2>a. b.pol \in PolType /\ b.band \in BandType
    BY DEF PolType, BandType
  <2>6. stored(r) \in SubType /\ stored(r).rf_path = r /\ stored(r).mux_key = NoMux
    BY <2>3, <2>4, <2>a, DesiredType
  <2>7. is_exclusive(s(r)) /\ s(r).dish_id = LnbInfo[r.lnb].dish
    BY DEF desired, is_exclusive, may_change_lnb
  <2>8. o.may_move /\ LnbInfo[r.lnb].dish \in Positioner => may_move_dish(stored(r))
    BY DEF desired, may_move_dish
  <2> HIDE DEF r, f, s, stored
  <2> QED BY <2>1, <2>2, <2>3, <2>6, <2>7, <2>8, LnbReservedEffect DEF r, f
<1> QED BY <1>2, <1>3

\* Subscribing to an LNB.
LEMMA SubscribeRfPathEffect ==
  ASSUME StateOK, NEW p \in Proc, status[p] = "alive", NEW id \in SubId,
         NEW q \in LnbRequest, NEW out \in subscribe_rf_path(p, id, q)
  PROVE  \E old \in fe_for_subscription(p, id) :
            Effect(p, id, old, NoService, out) \/ LeftUnreported(id, old, out)
<1>1. PICK old \in fe_for_subscription(p, id) :
         out \in subscribe_rf_path_from(p, id, old, q)
  BY DEF subscribe_rf_path
<1> DEFINE rel == fe_key_to_release(old, id)
           db  == unsubscribed(old, id)
           r   == q.path
           s   == desired(p, r, None, NONE, NONE, None)
           choice == find_best_fe_for_lnb(r, rel, s, q.blind, FALSE, q.move_to # None)
<1>2. \/ Effect(p, id, old, NoService, rf_path_not_found(old, id))
      \/ LeftUnreported(id, old, rf_path_not_found(old, id))
  <2>0. LnbRequest # {}
    OBVIOUS
  <2>1. CASE old = NoFe
    <3>1. Unchanged(id, old, NoService, rf_path_not_found(old, id))
      BY <2>1, StationaryFields DEF rf_path_not_found, Unchanged
    <3> QED BY <3>1 DEF Effect
  <2>2. CASE old # NoFe /\ db[old].subs = <<>>
    <3>1. rf_path_not_found(old, id) = Abort("double_unsubscribe")
      BY <2>2 DEF rf_path_not_found
    <3>2. Aborted(p, rf_path_not_found(old, id))
      BY <2>0, <3>1, AbortFields DEF Aborted, Blamed, Labels, NoFailure
    <3> QED BY <3>2 DEF Effect
  <2>3. CASE old # NoFe /\ db[old].subs # <<>>
    <3>1. rf_path_not_found(old, id) = Stationary(db, Failed(NoFe))
      BY <2>3 DEF rf_path_not_found
    <3>2. LeftUnreported(id, old, rf_path_not_found(old, id))
      BY <2>3, <3>1, StationaryFields DEF LeftUnreported
    <3> QED BY <3>2
  <2> QED BY <2>1, <2>2, <2>3
<1>3. Effect(p, id, old, NoService, Stationary(db, Failed(old)))
  BY StationaryFields DEF Effect, Left
<1>5. CASE r \notin RfPath \/ choice = {} \/ r.lnb \notin Lnb
  BY <1>1, <1>2, <1>3, <1>5 DEF subscribe_rf_path_from
<1>6. CASE r \in RfPath /\ choice # {} /\ r.lnb \in Lnb
  <2>1. PICK f \in choice :
          out \in Reserved(p, id, old, f, s, lnb_record(db[f], s, id), q.move_to, TRUE)
    BY <1>1, <1>6 DEF subscribe_rf_path_from
  <2>2. s \in SubType /\ s.rf_path = r /\ s.mux_key = NoMux
    <3>1. NONE \in PolType /\ NONE \in BandType
      BY DEF PolType, BandType
    <3>2. r \in RfPath /\ None \in Nat \cup {None} /\ None \in Pos \cup {None}
      BY <1>6
    <3> HIDE DEF r
    <3>3. desired(p, r, None, NONE, NONE, None) \in SubType
      BY <3>1, <3>2, DesiredType
    <3> QED BY <3>3 DEF desired
  <2>3. /\ is_exclusive(s) /\ s.dish_id = LnbInfo[r.lnb].dish
        /\ LnbInfo[r.lnb].dish \in Positioner => may_move_dish(s)
    BY DEF desired, is_exclusive, may_change_lnb, may_move_dish
  <2>4. q.move_to = None \/ has_network(r.lnb, q.move_to) \/ UnknownNetwork
    BY DEF UnknownNetwork
  <2> DEFINE spectrum == q.move_to # None
  <2>5. f \in find_best_fe_for_lnb(r, rel, s, q.blind, FALSE, spectrum)
    OBVIOUS
  <2> HIDE DEF s, r, spectrum, choice
  <2> QED BY <2>1, <2>2, <2>3, <2>4, <2>5, <1>6, LnbReservedEffect
<1> QED BY <1>5, <1>6

-----------------------------------------------------------------------------
(* The invariants of a database db and a process table st.                 *)

ServicesTuned(db) ==
  \A f \in Fe : \A i \in DOMAIN db[f].subs :
     Tuned(db[f].subs[i].service, db[f].mux_key)

\* A frontend is only reserved for what it can receive.
Equipped(db) ==
  \A f \in Fe : db[f].owner # None =>
     IF db[f].rf_path \in RfPath THEN FeInfo[f].dvbs ELSE FeInfo[f].dvbc

\* A satellite mux is received through an LNB, without exclusive control.
MuxThroughLnb(db) ==
  \A f \in Fe : db[f].mux_key \in Mux =>
     /\ MuxInfo[db[f].mux_key].dvbs <=> db[f].rf_path \in RfPath
     /\ MuxInfo[db[f].mux_key].dvbs => ~is_exclusive(db[f])

ChannelsDistinct(db, st) ==
  \A f, g \in Live(db, st) :
     /\ f # g /\ db[f].rf_path \in RfPath /\ db[g].rf_path \in RfPath
     /\ db[f].rf_path.lnb = db[g].rf_path.lnb /\ db[f].unicable_ch # None
     => db[f].unicable_ch # db[g].unicable_ch

\* Every subscriber of a mux allows every connection.
AllPathsAllowed == \A o \in MuxOptions : o.allowed = RfPath

OneTuning(db) ==
  \A f, g \in Fe :
     /\ db[f].owner # None /\ db[f].owner = db[g].owner
     /\ db[f].mux_key = db[g].mux_key /\ db[f].mux_key \in Mux
     /\ ~MuxInfo[db[f].mux_key].peak
     => f = g

\* A frontend for both satellite and cable shares its adapter with no other
\* satellite frontend.
SeparateAdapters ==
  \A f, g \in Fe :
     /\ FeInfo[f].dvbs /\ FeInfo[f].dvbc /\ FeInfo[g].dvbs
     /\ FeInfo[f].adapter = FeInfo[g].adapter
     => f = g

OnePerAdapter(db, st) ==
  \A f, g \in Live(db, st) :
     /\ db[f].rf_path \in RfPath /\ db[g].rf_path \in RfPath
     /\ FeInfo[f].adapter = FeInfo[g].adapter
     => f = g

Tunings(db, st) ==
  /\ Equipped(db) /\ MuxThroughLnb(db) /\ ChannelsDistinct(db, st)
  /\ AllPathsAllowed => OneTuning(db)
  /\ SeparateAdapters => OnePerAdapter(db, st)

\* Clearing records, changing lists of subscribers and dying processes leave
\* the tunings in order.
LEMMA SameTunings ==
  ASSUME NEW db \in [Fe -> SubType], NEW st, Tunings(db, st),
         NEW new, NEW st2,
         \A f \in Fe : new[f] = NoSub \/ SameTuning(new[f], db[f]),
         \A p \in Proc : st2[p] = "alive" => st[p] = "alive"
  PROVE  Tunings(new, st2)
<1>1. NoSub.owner = None /\ NoSub.mux_key \notin Mux
  BY ChannelAssumption DEF NoSub
<1>2. ASSUME NEW f \in Fe, new[f].owner # None \/ new[f].mux_key \in Mux
      PROVE  /\ new[f].owner = db[f].owner /\ new[f].mux_key = db[f].mux_key
             /\ new[f].rf_path = db[f].rf_path /\ new[f].unicable_ch = db[f].unicable_ch
             /\ is_exclusive(new[f]) <=> is_exclusive(db[f])
  <2>1. SameTuning(new[f], db[f])
    BY <1>1, <1>2
  <2> QED BY <2>1 DEF SameTuning, SameClaim, is_exclusive, may_change_lnb, may_move_dish
<1>3. ASSUME NEW f \in Live(new, st2)
      PROVE  f \in Live(db, st) /\ f \in Fe /\ new[f].owner # None
  <2>1. f \in Fe /\ new[f].owner # None /\ st2[new[f].owner] = "alive"
    BY DEF Live
  <2>2. new[f].owner = db[f].owner
    BY <1>2, <2>1
  <2>3. db[f].owner \in Proc
    BY <2>1, <2>2 DEF SubType
  <2> QED BY <2>1, <2>2, <2>3 DEF Live
<1>4. Equipped(new)
  BY <1>2 DEF Equipped, Tunings
<1>5. MuxThroughLnb(new)
  BY <1>2 DEF MuxThroughLnb, Tunings
<1>6. ChannelsDistinct(new, st2)
  BY <1>2, <1>3 DEF ChannelsDistinct, Tunings
<1>7. AllPathsAllowed => OneTuning(new)
  BY <1>2 DEF OneTuning, Tunings
<1>8. SeparateAdapters => OnePerAdapter(new, st2)
  BY <1>2, <1>3 DEF OnePerAdapter, Tunings
<1> QED BY <1>4, <1>5, <1>6, <1>7, <1>8 DEF Tunings

\* Reserving a free frontend leaves the tunings in order.
LEMMA ReserveTunings ==
  ASSUME StateOK, Tunings(sub, status), NEW p \in Proc, status[p] = "alive",
         NEW id \in SubId, NEW old \in fe_for_subscription(p, id), NEW service,
         NEW out, NEW f \in Fe, NEW rec \in SubType, NEW e,
         ReservedAt(p, id, old, service, out, f, rec, e)
  PROVE  Tunings(out.sub, status)
<1> DEFINE db  == unsubscribed(old, id)
           rel == fe_key_to_release(old, id)
           new == out.sub
<1>0. sub \in [Fe -> SubType] /\ db \in [Fe -> SubType]
  BY LeaveOK DEF StateOK, IInv
<1>1. \A g \in Fe : db[g] = NoSub \/ SameTuning(db[g], sub[g])
  BY LeaveKeeps
<1>2. Tunings(db, status)
  BY <1>0, <1>1, SameTunings
<1>3. /\ db[f] = NoSub /\ new = [db EXCEPT ![f] = rec] /\ rec.owner = p
      /\ SatelliteChecked(rel, f, rec) \/ CableChecked(f, rec)
      /\ MuxChecked(p, rec)
  BY DEF ReservedAt
<1> HIDE DEF new, db
<1>4. new[f] = rec /\ \A g \in Fe : g # f => new[g] = db[g]
  BY <1>0, <1>3
<1>5. Equipped(new)
  BY <1>2, <1>3, <1>4 DEF Equipped, Tunings, SatelliteChecked, CableChecked
<1>6. MuxThroughLnb(new)
  BY <1>2, <1>3, <1>4 DEF MuxThroughLnb, Tunings, MuxChecked
<1>7. NoSub.owner = None /\ NoSub.mux_key \notin Mux /\ p # None
  BY ChannelAssumption, RequestAssumption DEF NoSub
<1>8. ASSUME NEW g \in Live(new, status), g # f
      PROVE  /\ g \in Live(db, status) /\ g \in others_in_use(rel) /\ g \in Fe
             /\ is_subscribed(g) /\ new[g] = db[g] /\ SameTuning(db[g], sub[g])
  <2>1. g \in Live(db, status) /\ g \in Fe /\ new[g] = db[g] /\ db[g].owner # None
    BY <1>4, <1>8 DEF Live
  <2>2. g \in others_in_use(rel)
    BY <2>1, LeaveOK DEF StateOK, db
  <2> QED BY <2>1, <2>2, <1>1, <1>7 DEF others_in_use
<1>9. ChannelsDistinct(new, status)
  <2>1. ASSUME NEW g \in Live(new, status), g # f, new[g].rf_path \in RfPath,
               rec.rf_path \in RfPath, new[g].rf_path.lnb = rec.rf_path.lnb,
               rec.unicable_ch # None
        PROVE  new[g].unicable_ch # rec.unicable_ch
    <3>1. ChannelChecked(rel, rec)
      BY <1>3, <2>1 DEF SatelliteChecked, CableChecked
    <3>2. sub[g].rf_path = new[g].rf_path /\ sub[g].unicable_ch = new[g].unicable_ch
          /\ g \in others_in_use(rel)
      BY <1>8, <2>1 DEF SameTuning, SameClaim
    <3> QED BY <2>1, <3>1, <3>2 DEF ChannelChecked
  <2> SUFFICES ASSUME NEW g \in Live(new, status), NEW h \in Live(new, status), g # h,
                      new[g].rf_path \in RfPath, new[h].rf_path \in RfPath,
                      new[g].rf_path.lnb = new[h].rf_path.lnb, new[g].unicable_ch # None
               PROVE  new[g].unicable_ch # new[h].unicable_ch
    BY DEF ChannelsDistinct
  <2>2. CASE g = f
    BY <1>4, <2>1, <2>2
  <2>3. CASE h = f
    BY <1>4, <2>1, <2>3
  <2>4. CASE g # f /\ h # f
    BY <1>2, <1>8, <2>4 DEF ChannelsDistinct, Tunings
  <2> QED BY <2>2, <2>3, <2>4
<1>10. ASSUME AllPathsAllowed
       PROVE  OneTuning(new)
  <2>1. ASSUME NEW g \in Fe, g # f, new[g].owner = p, new[g].mux_key = rec.mux_key,
               rec.mux_key \in Mux, ~MuxInfo[rec.mux_key].peak
        PROVE  FALSE
    <3>1. PICK o \in MuxOptions : fes_on_mux(p, o, rec.mux_key) = {}
      BY <1>3, <2>1 DEF MuxChecked
    <3>2. /\ sub[g].owner = p /\ sub[g].mux_key = rec.mux_key
      BY <1>1, <1>4, <1>7, <2>1 DEF SameTuning
    <3>3. MuxInfo[rec.mux_key].dvbs => sub[g].rf_path \in o.allowed
      BY <1>10, <2>1, <3>2 DEF AllPathsAllowed, Tunings, MuxThroughLnb
    <3>4. g \in fes_on_mux(p, o, rec.mux_key)
      BY <2>1, <3>2, <3>3 DEF fes_on_mux
    <3> QED BY <3>1, <3>4
  <2>2. OneTuning(db)
    BY <1>2, <1>10 DEF Tunings
  <2> SUFFICES ASSUME NEW g \in Fe, NEW h \in Fe, new[g].owner # None,
                      new[g].owner = new[h].owner, new[g].mux_key = new[h].mux_key,
                      new[g].mux_key \in Mux, ~MuxInfo[new[g].mux_key].peak, g # h
               PROVE  FALSE
    BY DEF OneTuning
  <2>3. CASE g = f
    BY <1>3, <1>4, <2>1, <2>3
  <2>4. CASE h = f
    BY <1>3, <1>4, <2>1, <2>4
  <2>5. CASE g # f /\ h # f
    BY <1>4, <2>2, <2>5 DEF OneTuning
  <2> QED BY <2>3, <2>4, <2>5
<1>11. ASSUME SeparateAdapters
       PROVE  OnePerAdapter(new, status)
  <2>1. ASSUME NEW g \in Live(new, status), g # f, new[g].rf_path \in RfPath,
               rec.rf_path \in RfPath, FeInfo[g].adapter = FeInfo[f].adapter
        PROVE  FALSE
    <3>1. FeInfo[f].dvbs /\ (f = rel \/ ~adapter_in_use(FeInfo[f].adapter))
      BY <1>3, <2>1 DEF SatelliteChecked, CableChecked
    <3>2. /\ g \in Fe /\ is_subscribed(g) /\ sub[g].rf_path \in RfPath
          /\ FeInfo[g].dvbs /\ new[g] = db[g]
      BY <1>8, <2>1, <1>2 DEF SameTuning, SameClaim, Equipped, Tunings, Live
    <3>3. CASE ~adapter_in_use(FeInfo[f].adapter)
      BY <2>1, <3>2, <3>3 DEF adapter_in_use
    <3>4. CASE f = rel
      <4>1. f = old /\ old # NoFe
        BY <3>4 DEF fe_key_to_release, Fe, NoFe
      <4>2. sub[f].owner = p
        BY <4>1, LeaveOK DEF StateOK
      <4>3. f \in Live(sub, status) /\ g \in Live(sub, status)
        BY <4>2, <3>2, <1>7 DEF Live, is_subscribed
      <4>4. CASE sub[f].rf_path \in RfPath
        BY <4>3, <4>4, <3>2, <2>1, <1>11 DEF Tunings, OnePerAdapter
      <4>5. CASE sub[f].rf_path \notin RfPath
        <5>1. FeInfo[f].dvbc
          BY <4>2, <4>5, <1>7 DEF Tunings, Equipped
        <5> QED BY <5>1, <3>1, <3>2, <2>1, <1>11 DEF SeparateAdapters
      <4> QED BY <4>4, <4>5
    <3> QED BY <3>1, <3>3, <3>4
  <2>2. OnePerAdapter(db, status)
    BY <1>2, <1>11 DEF Tunings
  <2> SUFFICES ASSUME NEW g \in Live(new, status), NEW h \in Live(new, status),
                      new[g].rf_path \in RfPath, new[h].rf_path \in RfPath,
                      FeInfo[g].adapter = FeInfo[h].adapter, g # h
               PROVE  FALSE
    BY DEF OnePerAdapter
  <2>3. CASE g = f
    BY <1>4, <2>1, <2>3
  <2>4. CASE h = f
    BY <1>4, <2>1, <2>4
  <2>5. CASE g # f /\ h # f
    BY <1>8, <2>2, <2>5 DEF OnePerAdapter
  <2> QED BY <2>3, <2>4, <2>5
<1> QED BY <1>5, <1>6, <1>9, <1>10, <1>11 DEF Tunings, new

JoinWrites(id, old, out, f, e) ==
  /\ \A g \in Fe : g # f => out.sub[g] = unsubscribed(old, id)[g]
  /\ SameTuning(out.sub[f], sub[f])
  /\ out.sub[f].subs = Append(unsubscribed(old, id)[f].subs, e)

\* The record of a frontend that was joined: its list is one longer than what
\* was left of it, its tuning is the same; other frontends have what was left.
LEMMA JoinForm ==
  ASSUME StateOK, NEW p \in Proc, NEW id \in SubId,
         NEW old \in fe_for_subscription(p, id), NEW service, NEW out, NEW f \in Fe,
         NEW e \in EntryType, NEW ret_old, NEW reuse,
         JoinedAt(p, id, old, service, out, f, e, ret_old, reuse)
  PROVE  JoinWrites(id, old, out, f, e)
<1> DEFINE db  == unsubscribed(old, id)
           q   == Append(db[f].subs, e)
           rec == [sub[f] EXCEPT !.subs = q]
<1>1. sub[f] \in SubType /\ db \in [Fe -> SubType] /\ db[f] \in SubType
  BY LeaveOK DEF StateOK, IInv
<1>2. out.sub = [db EXCEPT ![f] = rec]
  BY DEF JoinedAt
<1>3. q \in Seq(EntryType)
  BY <1>1, AppendEntry DEF SubType, EntryType
<1> HIDE DEF db, q
<1>4. SameTuning(rec, sub[f]) /\ rec.subs = q
  BY <1>1, <1>3 DEF SubType, SameTuning, SameClaim
<1> HIDE DEF rec
<1>5. out.sub[f] = rec /\ \A g \in Fe : g # f => out.sub[g] = db[g]
  BY <1>1, <1>2
<1> QED BY <1>4, <1>5 DEF db, q, JoinWrites

\* No operation disturbs the tunings.
LEMMA EffectTunings ==
  ASSUME StateOK, Tunings(sub, status), NEW p \in Proc, status[p] = "alive",
         NEW id \in SubId, NEW old \in fe_for_subscription(p, id), NEW service, NEW out,
         Effect(p, id, old, service, out)
  PROVE  Tunings(out.sub, status)
<1> DEFINE db == unsubscribed(old, id)
<1>1. sub \in [Fe -> SubType]
  BY DEF StateOK, IInv
<1>2. \A g \in Fe : db[g] = NoSub \/ SameTuning(db[g], sub[g])
  BY LeaveKeeps
<1> HIDE DEF db
<1>3. CASE out.sub = sub
  BY <1>3
<1>4. CASE out.sub = db
  BY <1>1, <1>2, <1>4, SameTunings
<1>5. CASE Joined(p, id, old, service, out)
  <2>1p. PICK f \in Fe, e \in EntryType : \E ret_old, reuse :
           JoinedAt(p, id, old, service, out, f, e, ret_old, reuse)
    BY <1>5 DEF Joined
  <2>1. PICK ret_old, reuse :
           JoinedAt(p, id, old, service, out, f, e, ret_old, reuse)
    BY <2>1p
  <2>2. \A g \in Fe : out.sub[g] = NoSub \/ SameTuning(out.sub[g], sub[g])
    <3>1. JoinWrites(id, old, out, f, e)
      BY <2>1, JoinForm
    <3> QED BY <1>2, <3>1 DEF JoinWrites, db
  <2> QED BY <1>1, <2>2, SameTunings
<1>6. CASE ReservedNew(p, id, old, service, out)
  BY <1>6, ReserveTunings DEF ReservedNew
<1> QED BY <1>3, <1>4, <1>5, <1>6 DEF Effect, Aborted, Unchanged, Left, db

\* No operation leaves a service on a frontend that is not tuned to its mux.
LEMMA EffectServices ==
  ASSUME StateOK, ServicesTuned(sub), NEW p \in Proc, NEW id \in SubId,
         NEW old \in fe_for_subscription(p, id), NEW service, NEW out,
         Effect(p, id, old, service, out)
  PROVE  ServicesTuned(out.sub)
<1> DEFINE db == unsubscribed(old, id)
<1>0. NoSub.subs = <<>> /\ DOMAIN <<>> = {}
  BY DEF NoSub
<1>1. ASSUME NEW g \in Fe, NEW i \in DOMAIN db[g].subs
      PROVE  Tuned(db[g].subs[i].service, sub[g].mux_key) /\ db[g].mux_key = sub[g].mux_key
  <2>1. PICK k \in DOMAIN sub[g].subs : db[g].subs[i] = sub[g].subs[k]
    BY LeaveKeeps
  <2>2. db[g] = NoSub \/ SameTuning(db[g], sub[g])
    BY LeaveKeeps
  <2>3. SameTuning(db[g], sub[g])
    BY <1>0, <2>2
  <2> QED BY <2>1, <2>3 DEF ServicesTuned, SameTuning
<1>2. \A g \in Fe : db[g].subs \in Seq(EntryType)
  <2>1. \A g \in Fe : db[g] \in SubType
    BY LeaveOK DEF StateOK, IInv
  <2> HIDE DEF db
  <2> QED BY <2>1 DEF SubType, EntryType
<1>3. ASSUME NEW q \in Seq(EntryType), NEW e \in EntryType, NEW i \in DOMAIN Append(q, e)
      PROVE  \/ Append(q, e)[i] = e
             \/ i \in DOMAIN q /\ Append(q, e)[i] = q[i]
  <2>1. /\ Len(q) \in Nat /\ DOMAIN q = 1..Len(q) /\ DOMAIN Append(q, e) = 1..(Len(q) + 1)
        /\ \A j \in DOMAIN q : Append(q, e)[j] = q[j]
        /\ Append(q, e)[Len(q) + 1] = e
    BY AppendEntry
  <2> QED BY <2>1
<1> HIDE DEF db
<1>4. CASE out.sub = sub
  BY <1>4
<1>5. CASE out.sub = db
  BY <1>1, <1>5 DEF ServicesTuned
<1>6. CASE Joined(p, id, old, service, out)
  <2>1p. PICK f \in Fe, e \in EntryType : \E ret_old, reuse :
           JoinedAt(p, id, old, service, out, f, e, ret_old, reuse)
    BY <1>6 DEF Joined
  <2>1. PICK ret_old, reuse :
           JoinedAt(p, id, old, service, out, f, e, ret_old, reuse)
    BY <2>1p
  <2>0. /\ \A g \in Fe : g # f => out.sub[g] = db[g]
        /\ SameTuning(out.sub[f], sub[f])
        /\ out.sub[f].subs = Append(db[f].subs, e)
    <3>1. JoinWrites(id, old, out, f, e)
      BY <2>1, JoinForm
    <3> QED BY <3>1 DEF JoinWrites, db
  <2>2. out.sub[f].mux_key = sub[f].mux_key
    BY <2>0 DEF SameTuning
  <2>3. Tuned(e.service, sub[f].mux_key)
    BY <2>1 DEF JoinedAt
  <2> SUFFICES ASSUME NEW g \in Fe, NEW i \in DOMAIN out.sub[g].subs
               PROVE  Tuned(out.sub[g].subs[i].service, out.sub[g].mux_key)
    BY DEF ServicesTuned
  <2>4. CASE g # f
    BY <1>1, <2>0, <2>4
  <2>5. CASE g = f
    <3>1. i \in DOMAIN Append(db[f].subs, e) /\ out.sub[g].subs[i] = Append(db[f].subs, e)[i]
      BY <2>0, <2>5
    <3>2. db[f].subs \in Seq(EntryType)
      BY <1>2
    <3>3. \/ Append(db[f].subs, e)[i] = e
          \/ i \in DOMAIN db[f].subs /\ Append(db[f].subs, e)[i] = db[f].subs[i]
      BY <1>3, <3>1, <3>2
    <3>4. CASE Append(db[f].subs, e)[i] = e
      BY <2>2, <2>3, <2>5, <3>1, <3>4
    <3>5. CASE i \in DOMAIN db[f].subs /\ Append(db[f].subs, e)[i] = db[f].subs[i]
      <4>1. Tuned(db[f].subs[i].service, sub[f].mux_key)
        BY <1>1, <3>5
      <4> QED BY <2>2, <2>5, <3>1, <3>5, <4>1
    <3> QED BY <3>3, <3>4, <3>5
  <2> QED BY <2>4, <2>5
<1>7. CASE ReservedNew(p, id, old, service, out)
  <2>1. PICK f \in Fe, rec \in SubType, e \in EntryType :
           ReservedAt(p, id, old, service, out, f, rec, e)
    BY <1>7 DEF ReservedNew
  <2>2. /\ out.sub = [db EXCEPT ![f] = rec] /\ rec.subs = Append(<<>>, e)
        /\ Tuned(e.service, rec.mux_key)
    BY <2>1 DEF ReservedAt, db
  <2>3. db \in [Fe -> SubType]
    BY LeaveOK DEF StateOK, IInv, db
  <2>4. out.sub[f] = rec /\ \A g \in Fe : g # f => out.sub[g] = db[g]
    BY <2>2, <2>3
  <2>5. <<>> \in Seq(EntryType)
    BY EmptySeq
  <2> SUFFICES ASSUME NEW g \in Fe, NEW i \in DOMAIN out.sub[g].subs
               PROVE  Tuned(out.sub[g].subs[i].service, out.sub[g].mux_key)
    BY DEF ServicesTuned
  <2>6. CASE g # f
    BY <1>1, <2>4, <2>6
  <2>7. CASE g = f
    <3>1. i \in DOMAIN Append(<<>>, e) /\ out.sub[g].subs[i] = Append(<<>>, e)[i]
      BY <2>2, <2>4, <2>7
    <3>2. Append(<<>>, e)[i] = e
      BY <1>0, <1>3, <2>5, <3>1
    <3> QED BY <2>2, <2>4, <2>7, <3>1, <3>2
  <2> QED BY <2>6, <2>7
<1> QED BY <1>4, <1>5, <1>6, <1>7 DEF Effect, Aborted, Unchanged, Left, db

\* No operation retunes or clears a frontend that two subscriptions share.
LEMMA EffectShared ==
  ASSUME StateOK, NEW p \in Proc, NEW id \in SubId,
         NEW old \in fe_for_subscription(p, id), NEW service, NEW out,
         Effect(p, id, old, service, out), NEW f \in Fe, Len(sub[f].subs) >= 2
  PROVE  SameTuning(out.sub[f], sub[f])
<1> DEFINE db == unsubscribed(old, id)
<1>1. db[f] # NoSub /\ SameTuning(db[f], sub[f])
  BY LeaveKeeps
<1>2. SameTuning(sub[f], sub[f])
  BY DEF SameTuning, SameClaim
<1> HIDE DEF db
<1>3. CASE Joined(p, id, old, service, out)
  <2>1p. PICK g \in Fe, e \in EntryType : \E ret_old, reuse :
           JoinedAt(p, id, old, service, out, g, e, ret_old, reuse)
    BY <1>3 DEF Joined
  <2>1. PICK ret_old, reuse :
           JoinedAt(p, id, old, service, out, g, e, ret_old, reuse)
    BY <2>1p
  <2>2. JoinWrites(id, old, out, g, e)
    BY <2>1, JoinForm
  <2> QED BY <1>1, <2>2 DEF JoinWrites, db
<1>4. CASE ReservedNew(p, id, old, service, out)
  <2>1. PICK g \in Fe, rec \in SubType, e \in EntryType :
           ReservedAt(p, id, old, service, out, g, rec, e)
    BY <1>4 DEF ReservedNew
  <2>2. out.sub = [db EXCEPT ![g] = rec] /\ db[g] = NoSub
    BY <2>1 DEF ReservedAt, db
  <2>3. db \in [Fe -> SubType]
    BY LeaveOK DEF StateOK, IInv, db
  <2>4. out.sub[f] = db[f]
    BY <1>1, <2>2, <2>3
  <2> QED BY <1>1, <2>4
<1> QED BY <1>1, <1>2, <1>3, <1>4 DEF Effect, Aborted, Unchanged, Left, db

\* The owner of a record is the process that wrote it.
LEMMA EffectOwner ==
  ASSUME StateOK, NEW p \in Proc, NEW id \in SubId,
         NEW old \in fe_for_subscription(p, id), NEW service, NEW out,
         Effect(p, id, old, service, out), NEW f \in Fe
  PROVE  out.sub[f].owner \in {None, p, sub[f].owner}
<1> DEFINE db == unsubscribed(old, id)
<1>1. db[f].owner \in {None, sub[f].owner}
  <2>1. db[f] = NoSub \/ SameTuning(db[f], sub[f])
    BY LeaveKeeps
  <2> QED BY <2>1 DEF NoSub, SameTuning
<1> HIDE DEF db
<1>3. CASE Joined(p, id, old, service, out)
  <2>1p. PICK g \in Fe, e \in EntryType : \E ret_old, reuse :
           JoinedAt(p, id, old, service, out, g, e, ret_old, reuse)
    BY <1>3 DEF Joined
  <2>1. PICK ret_old, reuse :
           JoinedAt(p, id, old, service, out, g, e, ret_old, reuse)
    BY <2>1p
  <2>2. out.sub[f] = db[f] \/ SameTuning(out.sub[f], sub[f])
    <3>1. JoinWrites(id, old, out, g, e)
      BY <2>1, JoinForm
    <3> QED BY <3>1 DEF JoinWrites, db
  <2>3. SameTuning(out.sub[f], sub[f]) => out.sub[f].owner = sub[f].owner
    BY DEF SameTuning
  <2> QED BY <1>1, <2>2, <2>3
<1>4. CASE ReservedNew(p, id, old, service, out)
  <2>1. PICK g \in Fe, rec \in SubType, e \in EntryType :
           ReservedAt(p, id, old, service, out, g, rec, e)
    BY <1>4 DEF ReservedNew
  <2>2. out.sub = [db EXCEPT ![g] = rec] /\ rec.owner = p
    BY <2>1 DEF ReservedAt, db
  <2>3. db \in [Fe -> SubType]
    BY LeaveOK DEF StateOK, IInv, db
  <2>4. out.sub[f] = db[f] \/ out.sub[f] = rec
    BY <2>2, <2>3
  <2> QED BY <1>1, <2>2, <2>4
<1> QED BY <1>1, <1>3, <1>4 DEF Effect, Aborted, Unchanged, Left, db

\* While no dish may be moved for a mux, an operation moves no dish on which
\* it leaves a reservation that may not move it.
LEMMA EffectHeld ==
  ASSUME StateOK, ~MayMove, NEW p \in Proc, NEW id \in SubId,
         NEW old \in fe_for_subscription(p, id), NEW service, NEW out,
         Effect(p, id, old, service, out), NEW f \in Fe, is_subscribed(f),
         ~may_move_dish(sub[f]), sub[f].dish_id \in Positioner, out.sub[f] = sub[f]
  PROVE  out.dish_pos[sub[f].dish_id] = dish_pos[sub[f].dish_id]
<1> DEFINE db  == unsubscribed(old, id)
           rel == fe_key_to_release(old, id)
<1>1. CASE Still(out)
  BY <1>1 DEF Still
<1>2. CASE ReservedNew(p, id, old, service, out)
  <2>1. PICK g \in Fe, rec \in SubType, e \in EntryType :
           ReservedAt(p, id, old, service, out, g, rec, e)
    BY <1>2 DEF ReservedNew
  <2>2. out.sub = [db EXCEPT ![g] = rec] /\ DishChecked(rel, rec, out)
    BY <2>1 DEF ReservedAt
  <2>3. CASE ~Still(out)
    <3>1. PICK d \in Positioner :
             /\ \A c \in Positioner \ {d} : out.dish_pos[c] = dish_pos[c]
             /\ \A h \in others_in_use(rel) : sub[h].dish_id # d
             /\ may_move_dish(rec)
      BY <2>2, <2>3 DEF DishChecked
    <3>2. CASE sub[f].dish_id # d
      BY <3>1, <3>2
    <3>3. CASE sub[f].dish_id = d
      <4>1. f = rel
        BY <3>1, <3>3 DEF others_in_use
      <4>2. db \in [Fe -> SubType] /\ (rel # NoFe => db[rel] = NoSub)
        BY LeaveOK DEF StateOK, IInv
      <4>3. db[f] = NoSub
        BY <4>1, <4>2 DEF Fe, NoFe
      <4>4. out.sub[f] = NoSub \/ out.sub[f] = rec
        BY <2>2, <4>2, <4>3
      <4>5. sub[f].owner # None
        BY DEF is_subscribed
      <4>6. NoSub.owner = None
        BY DEF NoSub
      <4> QED BY <3>1, <4>4, <4>5, <4>6
    <3> QED BY <3>2, <3>3
  <2> QED BY <1>1, <2>3
<1> QED BY <1>1, <1>2 DEF Effect, Aborted, Unchanged, Left, Joined, JoinedAt

-----------------------------------------------------------------------------
(* The steps.                                                              *)

\* Process p carries out an operation on its reservations ...
OperatesOn(p, id, old, service, out) ==
  status[p] = "alive" /\ Effect(p, id, old, service, out) /\ Commit(p, out)

Operates(p) ==
  \E id \in SubId : \E service, out : \E old \in fe_for_subscription(p, id) :
     OperatesOn(p, id, old, service, out)

\* ... or drives a motor.
DrivesTo(p, out) ==
  /\ status[p] = "alive" /\ MotorTarget # {} /\ out.sub = sub /\ Commit(p, out)
  /\ \/ out.failed_assert = NoFailure
     \/ out.failed_assert = "unknown_position" /\ None \in MotorTarget

Drives(p) == \E out : DrivesTo(p, out)

\* Every step starts or ends a process, or is an operation, or drives a motor.
LEMMA StepForm ==
  ASSUME StateOK, Next
  PROVE  \E p \in Proc : Start(p) \/ Crash(p) \/ Exit(p) \/ Operates(p) \/ Drives(p)
<1>1. ASSUME NEW p \in Proc, NEW id \in SubId, Subscribe(p, id)
      PROVE  Operates(p)
  <2>1. CASE \E m \in Mux, o \in MuxOptions : SubscribeMux(p, id, m, o)
    <3>1. PICK m \in Mux, o \in MuxOptions : SubscribeMux(p, id, m, o)
      BY <2>1
    <3>2. status[p] = "alive"
      BY <3>1 DEF SubscribeMux
    <3>3. PICK out \in subscribe_mux(p, id, m, NoService, o) : Commit(p, out)
      BY <3>1 DEF SubscribeMux
    <3>4. Tuned(NoService, m)
      BY DEF Tuned
    <3>5. \E old \in fe_for_subscription(p, id) : Effect(p, id, old, NoService, out)
      BY <3>2, <3>4, SubscribeMuxEffect
    <3> QED BY <3>2, <3>3, <3>5 DEF Operates, OperatesOn
  <2>2. CASE \E s \in Service, o \in MuxOptions : SubscribeService(p, id, s, o)
    <3>1. PICK s \in Service, o \in MuxOptions : SubscribeService(p, id, s, o)
      BY <2>2
    <3>2. status[p] = "alive" /\ ServiceMux[s] \in Mux
      BY <3>1, ChannelAssumption DEF SubscribeService
    <3>3. PICK out \in subscribe_mux(p, id, ServiceMux[s], s, o) : Commit(p, out)
      BY <3>1 DEF SubscribeService
    <3>4. Tuned(s, ServiceMux[s])
      BY DEF Tuned
    <3>5. \E old \in fe_for_subscription(p, id) : Effect(p, id, old, s, out)
      BY <3>2, <3>4, SubscribeMuxEffect
    <3> QED BY <3>2, <3>3, <3>5 DEF Operates, OperatesOn
  <2>3. CASE \E b \in BandRequest, o \in BandOptions : SubscribeSatBand(p, id, b, o)
    <3>1. PICK b \in BandRequest, o \in BandOptions : SubscribeSatBand(p, id, b, o)
      BY <2>3
    <3>2. status[p] = "alive"
      BY <3>1 DEF SubscribeSatBand
    <3>3. PICK out \in subscribe_sat_band(p, id, b, o) : Commit(p, out)
      BY <3>1 DEF SubscribeSatBand
    <3>4. \E old \in fe_for_subscription(p, id) : Effect(p, id, old, NoService, out)
      BY <3>2, SubscribeSatBandEffect
    <3> QED BY <3>2, <3>3, <3>4 DEF Operates, OperatesOn
  <2>4. CASE \E q \in LnbRequest : SubscribeLnb(p, id, q)
    <3>1. PICK q \in LnbRequest : SubscribeLnb(p, id, q)
      BY <2>4
    <3>2. status[p] = "alive"
      BY <3>1 DEF SubscribeLnb
    <3>3. PICK out \in subscribe_rf_path(p, id, q) : Commit(p, out)
      BY <3>1 DEF SubscribeLnb
    <3>4. PICK old \in fe_for_subscription(p, id) :
             Effect(p, id, old, NoService, out) \/ LeftUnreported(id, old, out)
      BY <3>2, SubscribeRfPathEffect
    <3>5. CASE Effect(p, id, old, NoService, out)
      BY <3>2, <3>3, <3>5 DEF Operates, OperatesOn
    <3>6. CASE LeftUnreported(id, old, out)
      <4> DEFINE told == Stationary(unsubscribed(old, id), Failed(old))
      <4>1. Left(id, old, told)
        BY StationaryFields DEF Left
      <4>2. /\ told.sub = out.sub /\ told.dish_pos = out.dish_pos
            /\ told.target = out.target /\ told.failed_assert = out.failed_assert
        BY <3>6, StationaryFields DEF LeftUnreported, Still
      <4> HIDE DEF told
      <4>3. Commit(p, told)
        BY <3>3, <4>2 DEF Commit
      <4> QED BY <3>2, <4>1, <4>3 DEF Operates, OperatesOn, Effect
    <3> QED BY <3>4, <3>5, <3>6
  <2> QED BY <1>1, <2>1, <2>2, <2>3, <2>4 DEF Subscribe
<1>2. ASSUME NEW p \in Proc, NEW id \in SubId, Unsubscribe(p, id)
      PROVE  Operates(p)
  <2>1. PICK old \in fe_for_subscription(p, id) :
           Commit(p, Stationary(unsubscribed(old, id), Failed(old)))
    BY <1>2 DEF Unsubscribe
  <2>2. Left(id, old, Stationary(unsubscribed(old, id), Failed(old)))
    BY StationaryFields DEF Left
  <2>3. status[p] = "alive"
    BY <1>2 DEF Unsubscribe
  <2> QED BY <2>1, <2>2, <2>3 DEF Operates, OperatesOn, Effect
<1>3. ASSUME NEW p \in Proc, NEW id \in SubId, NEW pos \in MotorTarget,
             PositionerCmd(p, id, pos)
      PROVE  Drives(p)
  <2>1. PICK d \in Positioner :
           Commit(p, IF pos = None THEN Abort("unknown_position")
                     ELSE Outcome(sub, schedule_move(d, pos),
                                  [target EXCEPT ![d] = pos], Failed(NoFe)))
    BY <1>3 DEF PositionerCmd
  <2>2. status[p] = "alive"
    BY <1>3 DEF PositionerCmd
  <2>3. CASE pos = None
    <3>1. Commit(p, Abort("unknown_position"))
      BY <2>1, <2>3
    <3>2. DrivesTo(p, Abort("unknown_position"))
      BY <2>2, <2>3, <3>1, AbortFields DEF DrivesTo
    <3> QED BY <3>2 DEF Drives
  <2>4. CASE pos # None
    <3> DEFINE out == Outcome(sub, schedule_move(d, pos), [target EXCEPT ![d] = pos],
                              Failed(NoFe))
    <3>1. Commit(p, out)
      BY <2>1, <2>4
    <3>2. out.sub = sub /\ out.failed_assert = NoFailure
      BY DEF Outcome
    <3> HIDE DEF out
    <3>3. DrivesTo(p, out)
      BY <2>2, <3>1, <3>2 DEF DrivesTo
    <3> QED BY <3>3 DEF Drives
  <2> QED BY <2>3, <2>4
<1> QED BY <1>1, <1>2, <1>3 DEF Next

\* A process that dies of an assertion was alive, and no process starts.
LEMMA CommitStatus ==
  ASSUME StateOK, NEW p \in Proc, NEW out, Commit(p, out)
  PROVE  /\ \A q \in Proc : status'[q] = "alive" => status[q] = "alive"
         /\ sub' = out.sub
         /\ out.failed_assert = NoFailure =>
              status' = status /\ failed_assert' = failed_assert
         /\ out.failed_assert # NoFailure =>
              status'[p] = "dead" /\ failed_assert' = out.failed_assert
<1>1. status \in [Proc -> {"new", "alive", "dead"}]
  BY DEF StateOK, IInv
<1> QED BY <1>1 DEF Commit

-----------------------------------------------------------------------------
(* The invariant of the tunings.                                           *)

SharingInv == StateOK /\ Tunings(sub, status) /\ ServicesTuned(sub)

\* A database without reservations.
LEMMA EmptyTunings ==
  ASSUME NEW st
  PROVE  Tunings([f \in Fe |-> NoSub], st) /\ ServicesTuned([f \in Fe |-> NoSub])
<1> DEFINE db == [f \in Fe |-> NoSub]
<1>1. \A f \in Fe : db[f] = NoSub
  OBVIOUS
<1>2. NoSub.owner = None /\ NoSub.mux_key \notin Mux /\ DOMAIN NoSub.subs = {}
  BY ChannelAssumption DEF NoSub
<1> HIDE DEF db
<1>3. Live(db, st) = {}
  BY <1>1, <1>2 DEF Live
<1>4. Equipped(db) /\ MuxThroughLnb(db) /\ OneTuning(db) /\ ServicesTuned(db)
  BY <1>1, <1>2 DEF Equipped, MuxThroughLnb, OneTuning, ServicesTuned
<1>5. ChannelsDistinct(db, st) /\ OnePerAdapter(db, st)
  BY <1>3 DEF ChannelsDistinct, OnePerAdapter
<1> QED BY <1>4, <1>5 DEF Tunings, db

\* Every step keeps the tunings in order.
LEMMA SharingStep ==
  ASSUME SharingInv, StateOK', [Next]_vars
  PROVE  SharingInv'
<1>0. StateOK /\ Tunings(sub, status) /\ ServicesTuned(sub) /\ sub \in [Fe -> SubType]
  BY DEF SharingInv, StateOK, IInv
<1>1. ASSUME NEW p \in Proc, Start(p)
      PROVE  Tunings(sub', status') /\ ServicesTuned(sub')
  <2>1. sub' = [f \in Fe |-> NoSub]
    BY <1>1 DEF Start
  <2> QED BY <2>1, EmptyTunings
<1>2. ASSUME NEW p \in Proc, Crash(p) \/ Exit(p)
      PROVE  Tunings(sub', status') /\ ServicesTuned(sub')
  <2>1. \A f \in Fe : sub'[f] = NoSub \/ sub'[f] = sub[f]
    BY <1>0, <1>2 DEF Crash, Exit
  <2>2. \A q \in Proc : status'[q] = "alive" => status[q] = "alive"
    BY <1>0, <1>2 DEF Crash, Exit, StateOK, IInv
  <2>3. \A f \in Fe : SameTuning(sub[f], sub[f])
    BY DEF SameTuning, SameClaim
  <2>4. Tunings(sub', status')
    BY <1>0, <2>1, <2>2, <2>3, SameTunings
  <2>5. DOMAIN NoSub.subs = {}
    BY DEF NoSub
  <2>6. ServicesTuned(sub')
    BY <1>0, <2>1, <2>5 DEF ServicesTuned
  <2> QED BY <2>4, <2>6
<1>3. ASSUME NEW p \in Proc, NEW out, Commit(p, out),
             Tunings(out.sub, status), ServicesTuned(out.sub), out.sub \in [Fe -> SubType]
      PROVE  Tunings(sub', status') /\ ServicesTuned(sub')
  <2>1. sub' = out.sub /\ \A q \in Proc : status'[q] = "alive" => status[q] = "alive"
    BY <1>0, <1>3, CommitStatus
  <2>2. \A f \in Fe : SameTuning(out.sub[f], out.sub[f])
    BY DEF SameTuning, SameClaim
  <2>3. Tunings(out.sub, status')
    BY <1>3, <2>1, <2>2, SameTunings
  <2> QED BY <1>3, <2>1, <2>3
<1>4. ASSUME NEW p \in Proc, Operates(p)
      PROVE  Tunings(sub', status') /\ ServicesTuned(sub')
  <2>1p. PICK id \in SubId : \E service, out : \E old \in fe_for_subscription(p, id) :
           OperatesOn(p, id, old, service, out)
    BY <1>4 DEF Operates
  <2>1. PICK service, out : \E old \in fe_for_subscription(p, id) :
           OperatesOn(p, id, old, service, out)
    BY <2>1p
  <2>2. PICK old \in fe_for_subscription(p, id) : OperatesOn(p, id, old, service, out)
    BY <2>1
  <2>3. status[p] = "alive" /\ Effect(p, id, old, service, out) /\ Commit(p, out)
    BY <2>2 DEF OperatesOn
  <2>4. Tunings(out.sub, status)
    BY <1>0, <2>3, EffectTunings
  <2>5. ServicesTuned(out.sub)
    BY <1>0, <2>3, EffectServices
  <2>6. out.sub = sub' /\ sub' \in [Fe -> SubType]
    BY <2>3 DEF Commit, StateOK, IInv
  <2> QED BY <1>3, <2>3, <2>4, <2>5, <2>6
<1>5. ASSUME NEW p \in Proc, Drives(p)
      PROVE  Tunings(sub', status') /\ ServicesTuned(sub')
  <2>1. PICK out : DrivesTo(p, out)
    BY <1>5 DEF Drives
  <2> QED BY <1>0, <1>3, <2>1 DEF DrivesTo
<1>6. CASE UNCHANGED vars
  BY <1>0, <1>6 DEF vars, SharingInv
<1>7. CASE Next
  <2>1. PICK p \in Proc : Start(p) \/ Crash(p) \/ Exit(p) \/ Operates(p) \/ Drives(p)
    BY <1>0, <1>7, StepForm
  <2>2. Tunings(sub', status') /\ ServicesTuned(sub')
    BY <1>1, <1>2, <1>4, <1>5, <2>1
  <2> QED BY <2>2 DEF SharingInv
<1> QED BY <1>6, <1>7

-----------------------------------------------------------------------------
(* One process at a time.                                                  *)

\* At most one process is alive and every reservation is its own: a process
\* that starts removes what its predecessors left.
Alone ==
  /\ \A p, q \in Proc : status[p] = "alive" /\ status[q] = "alive" => p = q
  /\ \A p \in Proc : status[p] = "alive" => ~OthersOwn(p)

\* A process that starts while it may not have company is alone.
LEMMA StartAlone ==
  ASSUME StateOK, Alone, MaxInstances <= 1, NEW p \in Proc, Start(p)
  PROVE  Alone'
<1>1. /\ status \in [Proc -> {"new", "alive", "dead"}] /\ MaxInstances \in Nat
      /\ Cardinality({q \in Proc : status[q] = "alive"}) < MaxInstances
      /\ status' = [status EXCEPT ![p] = "alive"] /\ sub' = [f \in Fe |-> NoSub]
  BY RequestAssumption DEF Start, StateOK, IInv
<1>2. ASSUME NEW q \in Proc, status[q] = "alive"
      PROVE  FALSE
  <2>1. {r \in Proc : status[r] = "alive"} = {q}
    BY <1>2 DEF Alone
  <2>2. Cardinality({q}) = 1
    BY FS_Singleton
  <2> QED BY <1>1, <2>1, <2>2
<1>3. \A q \in Proc : status'[q] = "alive" => q = p
  BY <1>1, <1>2
<1>4. \A f \in Fe : sub'[f].owner = None
  BY <1>1 DEF NoSub
<1> QED BY <1>3, <1>4 DEF Alone, OthersOwn

\* A process that is alone stays alone, whatever it does.
LEMMA StayAlone ==
  ASSUME StateOK, Alone, NEW p \in Proc, status[p] = "alive",
         \A q \in Proc : status'[q] = "alive" => status[q] = "alive",
         \A f \in Fe : sub'[f].owner \in {None, p, sub[f].owner}
  PROVE  Alone'
<1>1. \A q \in Proc : status'[q] = "alive" => q = p
  BY DEF Alone
<1>2. \A f \in Fe : sub[f].owner \in {None, p}
  BY DEF Alone, OthersOwn
<1>3. \A f \in Fe : sub'[f].owner \in {None, p}
  BY <1>2
<1> QED BY <1>1, <1>3 DEF Alone, OthersOwn

\* What the requests and the number of processes make of each assertion.
AssertCause(label) ==
  /\ label \in {"stale_reservation", "foreign_owner"} => MaxInstances > 1
  /\ label = "reuse_of_exclusive" => MayMove
  /\ label = "double_unsubscribe" => LnbRequest # {}
  /\ label = "unknown_position"   => None \in MotorTarget

CauseInv == (MaxInstances <= 1 => Alone) /\ AssertCause(failed_assert)

\* A satellite mux is never received under exclusive control.
LEMMA NoExclusiveOnMux ==
  ASSUME Tunings(sub, status)
  PROVE  ~ExclusiveOnMux
BY DEF Tunings, MuxThroughLnb, ExclusiveOnMux

\* Every step has company only when it is allowed, and fails for a cause.
LEMMA CauseStep ==
  ASSUME SharingInv, CauseInv, [Next]_vars
  PROVE  CauseInv'
<1>0. /\ StateOK /\ Tunings(sub, status) /\ MaxInstances \in Nat
      /\ AssertCause(failed_assert) /\ (MaxInstances <= 1 => Alone)
      /\ sub \in [Fe -> SubType] /\ status \in [Proc -> {"new", "alive", "dead"}]
  BY RequestAssumption DEF SharingInv, CauseInv, StateOK, IInv
<1>1. ASSUME NEW p \in Proc, Start(p)
      PROVE  CauseInv'
  <2>1. failed_assert' = failed_assert
    BY <1>1 DEF Start
  <2>2. MaxInstances <= 1 => Alone'
    BY <1>0, <1>1, StartAlone
  <2> QED BY <1>0, <2>1, <2>2 DEF CauseInv, AssertCause
<1>2. ASSUME NEW p \in Proc, Crash(p) \/ Exit(p)
      PROVE  CauseInv'
  <2>1. /\ failed_assert' = failed_assert /\ status[p] = "alive"
        /\ \A q \in Proc : status'[q] = "alive" => status[q] = "alive"
        /\ \A f \in Fe : sub'[f] \in {NoSub, sub[f]}
    BY <1>0, <1>2 DEF Crash, Exit
  <2>2. \A f \in Fe : sub'[f].owner \in {None, p, sub[f].owner}
    BY <2>1 DEF NoSub
  <2>3. MaxInstances <= 1 => Alone'
    BY <1>0, <2>1, <2>2, StayAlone
  <2> QED BY <1>0, <2>1, <2>3 DEF CauseInv, AssertCause
<1>3. ASSUME NEW p \in Proc, status[p] = "alive", NEW out, Commit(p, out),
             \A f \in Fe : out.sub[f].owner \in {None, p, sub[f].owner},
             out.failed_assert = NoFailure \/ AssertCause(out.failed_assert)
      PROVE  CauseInv'
  <2>1. /\ \A q \in Proc : status'[q] = "alive" => status[q] = "alive"
        /\ sub' = out.sub
        /\ failed_assert' = failed_assert \/ failed_assert' = out.failed_assert
        /\ out.failed_assert = NoFailure => failed_assert' = failed_assert
    BY <1>0, <1>3, CommitStatus
  <2>2. AssertCause(failed_assert')
    BY <1>0, <1>3, <2>1
  <2>3. MaxInstances <= 1 => Alone'
    BY <1>0, <1>3, <2>1, StayAlone
  <2> QED BY <2>2, <2>3 DEF CauseInv, AssertCause
<1>4. ASSUME NEW p \in Proc, Operates(p)
      PROVE  CauseInv'
  <2>1p. PICK id \in SubId : \E service, out : \E old \in fe_for_subscription(p, id) :
           OperatesOn(p, id, old, service, out)
    BY <1>4 DEF Operates
  <2>1. PICK service, out : \E old \in fe_for_subscription(p, id) :
           OperatesOn(p, id, old, service, out)
    BY <2>1p
  <2>2. PICK old \in fe_for_subscription(p, id) : OperatesOn(p, id, old, service, out)
    BY <2>1
  <2>3. status[p] = "alive" /\ Effect(p, id, old, service, out) /\ Commit(p, out)
    BY <2>2 DEF OperatesOn
  <2>4. \A f \in Fe : out.sub[f].owner \in {None, p, sub[f].owner}
    BY <1>0, <2>3, EffectOwner
  <2>5. ASSUME out.failed_assert # NoFailure
        PROVE  AssertCause(out.failed_assert)
    <3>1. Aborted(p, out)
      BY <2>3, <2>5 DEF Effect, Unchanged, Left, Joined, JoinedAt, ReservedNew, ReservedAt
    <3>2. Blamed(p, out.failed_assert)
      BY <3>1 DEF Aborted
    <3>3. OthersOwn(p) => MaxInstances > 1
      BY <1>0, <2>3 DEF Alone
    <3>4. ~ExclusiveOnMux
      BY <1>0, NoExclusiveOnMux
    <3> QED BY <3>2, <3>3, <3>4 DEF Blamed, AssertCause
  <2> QED BY <1>3, <2>3, <2>4, <2>5
<1>5. ASSUME NEW p \in Proc, Drives(p)
      PROVE  CauseInv'
  <2>1. PICK out : DrivesTo(p, out)
    BY <1>5 DEF Drives
  <2>2. status[p] = "alive" /\ Commit(p, out) /\ out.sub = sub
    BY <2>1 DEF DrivesTo
  <2>3. out.failed_assert = NoFailure \/ AssertCause(out.failed_assert)
    BY <2>1 DEF DrivesTo, AssertCause
  <2> QED BY <1>3, <2>2, <2>3
<1>6. CASE UNCHANGED vars
  BY <1>6 DEF vars, CauseInv, Alone, OthersOwn, AssertCause
<1>7. CASE Next
  <2>1. PICK p \in Proc : Start(p) \/ Crash(p) \/ Exit(p) \/ Operates(p) \/ Drives(p)
    BY <1>0, <1>7, StepForm
  <2> QED BY <1>1, <1>2, <1>4, <1>5, <2>1
<1> QED BY <1>6, <1>7

-----------------------------------------------------------------------------
(* The theorems.                                                           *)

\* The tunings stay in order and every failed assertion has a cause: the
\* inductive invariant of this module, on top of that of FeSubscribe_proofs.
THEOREM SharingInvariant ==
  Spec => [](SharingInv /\ CauseInv)
<1>1. Init => SharingInv /\ CauseInv
  <2> SUFFICES ASSUME Init
               PROVE  SharingInv /\ CauseInv
    OBVIOUS
  <2>1. StateOK
    BY InitOK DEF Inv
  <2>2. sub = [f \in Fe |-> NoSub] /\ failed_assert = NoFailure
    BY DEF Init
  <2>3. \A p \in Proc : status[p] # "alive"
    BY DEF Init
  <2>4. SharingInv
    BY <2>1, <2>2, EmptyTunings DEF SharingInv
  <2>5. CauseInv
    BY <2>2, <2>3 DEF CauseInv, Alone, AssertCause, NoFailure
  <2> QED BY <2>4, <2>5
<1>2. Inv' /\ SharingInv /\ CauseInv /\ [Next]_vars => SharingInv' /\ CauseInv'
  BY SharingStep, CauseStep DEF Inv
<1> QED BY <1>1, <1>2, Invariance, PTL DEF Spec

\* A subscriber of a service is on a frontend tuned to the mux of that service,
\* after any sequence of joins, moves, failures and crashes.
THEOREM ServedOnTunedMux ==
  Spec => []ServiceOnTunedMux
<1>1. SharingInv => ServiceOnTunedMux
  BY DEF SharingInv, ServicesTuned, Tuned, ServiceOnTunedMux
<1> QED BY <1>1, SharingInvariant, PTL

\* Two live reservations of one unicable LNB use different user bands.
THEOREM UserBandsDistinct ==
  Spec => []UnicableDistinct
<1>1. SharingInv => UnicableDistinct
  <2> SUFFICES ASSUME SharingInv, NEW f \in SatelliteInUse, NEW g \in SatelliteInUse,
                      f # g, sub[f].rf_path.lnb = sub[g].rf_path.lnb,
                      sub[f].unicable_ch # None
               PROVE  sub[f].unicable_ch # sub[g].unicable_ch
    BY DEF UnicableDistinct
  <2>1. /\ f \in Live(sub, status) /\ g \in Live(sub, status)
        /\ sub[f].rf_path \in RfPath /\ sub[g].rf_path \in RfPath
    BY DEF SatelliteInUse, Live, is_subscribed
  <2>2. ChannelsDistinct(sub, status)
    BY DEF SharingInv, Tunings
  <2> QED BY <2>1, <2>2 DEF ChannelsDistinct
<1> QED BY <1>1, SharingInvariant, PTL

\* A process whose subscriptions allow every connection never occupies two
\* frontends with one mux.
THEOREM MuxTunedOnce ==
  ASSUME AllPathsAllowed
  PROVE  Spec => []NoDuplicateTuning
<1>1. SharingInv => NoDuplicateTuning
  BY DEF SharingInv, Tunings, OneTuning, NoDuplicateTuning
<1> QED BY <1>1, SharingInvariant, PTL

\* Two frontends of one adapter are never tuned to a satellite at the same time,
\* on hardware where no adapter mixes a hybrid frontend with another one for
\* satellites: find_best_fe_for_dvtdbc does not look at the adapter.
THEOREM AdapterTunedOnce ==
  ASSUME SeparateAdapters
  PROVE  Spec => []AdapterShared
<1>1. SharingInv => AdapterShared
  <2> SUFFICES ASSUME SharingInv, NEW f \in SatelliteInUse, NEW g \in SatelliteInUse,
                      FeInfo[f].adapter = FeInfo[g].adapter
               PROVE  f = g
    BY DEF AdapterShared
  <2>1. /\ f \in Live(sub, status) /\ g \in Live(sub, status)
        /\ sub[f].rf_path \in RfPath /\ sub[g].rf_path \in RfPath
    BY DEF SatelliteInUse, Live, is_subscribed
  <2>2. OnePerAdapter(sub, status)
    BY DEF SharingInv, Tunings
  <2> QED BY <2>1, <2>2 DEF OnePerAdapter
<1> QED BY <1>1, SharingInvariant, PTL

\* Each assertion of the reservation code can fail for one reason only: several
\* processes, a dish that may be moved for a mux, requests to control an LNB, or
\* a motor driven to an unknown position.
THEOREM AssertCauses ==
  Spec => []AssertCause(failed_assert)
<1>1. CauseInv => AssertCause(failed_assert)
  BY DEF CauseInv
<1> QED BY <1>1, SharingInvariant, PTL

\* Without those reasons no assertion of the reservation code ever fails.
THEOREM AssertionsHold ==
  ASSUME MaxInstances <= 1, ~MayMove, LnbRequest = {}, None \notin MotorTarget
  PROVE  Spec => []NoAssertFails
<1>1. Inv /\ CauseInv => NoAssertFails
  BY RequestAssumption DEF Inv, CauseInv, AssertCause, Labels, NoAssertFails
<1> QED BY <1>1, SharingInvariant, Invariance, PTL

\* While two subscriptions share a frontend, no step but a start or the end of
\* its process retunes it, releases it or gives it to another process.
THEOREM SharedTuningKept ==
  Spec => SharersKeepTuning
<1>1. SharingInv /\ [Next]_vars =>
      [NoStart => \A f \in Fe :
         /\ Len(sub[f].subs) >= 2 /\ is_subscribed(f) /\ status'[sub[f].owner] = "alive"
         => /\ sub'[f].owner = sub[f].owner /\ sub'[f].rf_path = sub[f].rf_path
            /\ sub'[f].mux_key = sub[f].mux_key]_vars
  <2> SUFFICES ASSUME SharingInv, Next, NoStart, NEW f \in Fe, Len(sub[f].subs) >= 2,
                      is_subscribed(f), status'[sub[f].owner] = "alive"
               PROVE  /\ sub'[f].owner = sub[f].owner /\ sub'[f].rf_path = sub[f].rf_path
                      /\ sub'[f].mux_key = sub[f].mux_key
    OBVIOUS
  <2>0. StateOK /\ sub \in [Fe -> SubType] /\ status \in [Proc -> {"new", "alive", "dead"}]
    BY DEF SharingInv, StateOK, IInv
  <2>1. PICK p \in Proc : Start(p) \/ Crash(p) \/ Exit(p) \/ Operates(p) \/ Drives(p)
    BY <2>0, StepForm
  <2>2. ~Start(p)
    BY <2>0 DEF Start, NoStart
  <2>3. CASE Crash(p)
    BY <2>3 DEF Crash
  <2>4. CASE Exit(p)
    <3>1. sub[f].owner # p
      BY <2>0, <2>4 DEF Exit
    <3>2. sub'[f] = sub[f]
      BY <2>4, <3>1 DEF Exit
    <3> QED BY <3>2
  <2>5. CASE Operates(p)
    <3>1p. PICK id \in SubId : \E service, out : \E old \in fe_for_subscription(p, id) :
             OperatesOn(p, id, old, service, out)
      BY <2>5 DEF Operates
    <3>1. PICK service, out : \E old \in fe_for_subscription(p, id) :
             OperatesOn(p, id, old, service, out)
      BY <3>1p
    <3>2. PICK old \in fe_for_subscription(p, id) : OperatesOn(p, id, old, service, out)
      BY <3>1
    <3>3. Effect(p, id, old, service, out) /\ sub' = out.sub
      BY <3>2 DEF OperatesOn, Commit
    <3>4. SameTuning(out.sub[f], sub[f])
      BY <2>0, <3>3, EffectShared
    <3> QED BY <3>3, <3>4 DEF SameTuning, SameClaim
  <2>6. CASE Drives(p)
    <3>1. sub' = sub
      BY <2>6 DEF Drives, DrivesTo, Commit
    <3> QED BY <3>1
  <2> QED BY <2>1, <2>2, <2>3, <2>4, <2>5, <2>6
<1> QED BY <1>1, SharingInvariant, PTL DEF Spec, SharersKeepTuning

\* As long as a reservation that may not move its dish stays, the dish stays where
\* it is, when no subscription to a mux may move a dish and nobody drives a motor.
THEOREM DishKeptStill ==
  ASSUME ~MayMove, MotorTarget = {}
  PROVE  Spec => DishHeldStill
<1>1. SharingInv /\ [Next]_vars =>
      [\A f \in Fe :
         /\ is_subscribed(f) /\ ~may_move_dish(sub[f]) /\ sub[f].dish_id \in Positioner
         /\ sub'[f] = sub[f]
         => dish_pos'[sub[f].dish_id] = dish_pos[sub[f].dish_id]]_vars
  <2> SUFFICES ASSUME SharingInv, Next, NEW f \in Fe, is_subscribed(f),
                      ~may_move_dish(sub[f]), sub[f].dish_id \in Positioner,
                      sub'[f] = sub[f]
               PROVE  dish_pos'[sub[f].dish_id] = dish_pos[sub[f].dish_id]
    OBVIOUS
  <2>0. StateOK
    BY DEF SharingInv
  <2>1. PICK p \in Proc : Start(p) \/ Crash(p) \/ Exit(p) \/ Operates(p) \/ Drives(p)
    BY <2>0, StepForm
  <2>2. CASE Start(p) \/ Crash(p) \/ Exit(p)
    BY <2>2 DEF Start, Crash, Exit
  <2>3. CASE Operates(p)
    <3>1p. PICK id \in SubId : \E service, out : \E old \in fe_for_subscription(p, id) :
             OperatesOn(p, id, old, service, out)
      BY <2>3 DEF Operates
    <3>1. PICK service, out : \E old \in fe_for_subscription(p, id) :
             OperatesOn(p, id, old, service, out)
      BY <3>1p
    <3>2. PICK old \in fe_for_subscription(p, id) : OperatesOn(p, id, old, service, out)
      BY <3>1
    <3>3. /\ Effect(p, id, old, service, out) /\ sub' = out.sub
          /\ dish_pos' = out.dish_pos
      BY <3>2 DEF OperatesOn, Commit
    <3>4. out.sub[f] = sub[f]
      BY <3>3
    <3> QED BY <2>0, <3>3, <3>4, EffectHeld
  <2>4. ~Drives(p)
    BY DEF Drives, DrivesTo
  <2> QED BY <2>1, <2>2, <2>3, <2>4
<1> QED BY <1>1, SharingInvariant, PTL DEF Spec, DishHeldStill
=============================================================================
