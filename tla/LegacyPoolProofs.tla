--------------------------- MODULE LegacyPoolProofs ---------------------------
(***************************************************************************)
(* What holds of the older allocator for every pool, any number of         *)
(* requests and experiments, and any crashes, resets and edits.            *)
(***************************************************************************)
EXTENDS LegacyPool, SequenceTheorems, FiniteSetTheorems, TLAPS

-----------------------------------------------------------------------------
(***************************************************************************)
(* The operators: taking the last element of a list and appending one.     *)
(***************************************************************************)

\* list.pop() of a list that is not empty.
LEMMA FrontProperties ==
  ASSUME NEW S, NEW list \in Seq(S), list # <<>>
  PROVE  /\ Len(list) \in Nat \ {0} /\ Last(list) \in S /\ Last(list) = list[Len(list)]
         /\ Front(list) \in Seq(S) /\ Len(Front(list)) = Len(list) - 1
         /\ DOMAIN list = 1 .. Len(list) /\ DOMAIN Front(list) = 1 .. (Len(list) - 1)
         /\ \A i \in 1 .. (Len(list) - 1) : Front(list)[i] = list[i]
  <1>1. Len(list) \in Nat \ {0}
    BY EmptySeq
  <1>2. \A i \in 1 .. Len(list) : list[i] \in S
    BY ElementOfSeq
  <1>3. /\ Front(list) \in Seq(S) /\ Len(Front(list)) = Len(list) - 1
        /\ \A i \in 1 .. (Len(list) - 1) : Front(list)[i] = list[i]
    <2>1. PICK m \in Nat : m = Len(list) - 1
      BY <1>1
    <2>2. \A i \in 1 .. m : list[i] \in S
      BY <1>1, <1>2, <2>1
    <2>3. /\ SubSeq(list, 1, m) \in Seq(S)
          /\ Len(SubSeq(list, 1, m)) = IF 1 <= m THEN m - 1 + 1 ELSE 0
          /\ \A i \in 1 .. (m - 1 + 1) : SubSeq(list, 1, m)[i] = list[1 + i - 1]
      BY <2>2, SubSeqProperties
    <2>4. /\ (IF 1 <= m THEN m - 1 + 1 ELSE 0) = m /\ m - 1 + 1 = m
          /\ \A i \in 1 .. m : 1 + i - 1 = i
      OBVIOUS
    <2>5. Front(list) = SubSeq(list, 1, m)
      BY <2>1 DEF Front
    <2> QED
      BY <2>1, <2>3, <2>4, <2>5, Zenon
  <1>4. DOMAIN list = 1 .. Len(list) /\ DOMAIN Front(list) = 1 .. (Len(list) - 1)
    BY <1>1, <1>3, LenProperties
  <1> QED
    BY <1>1, <1>2, <1>3, <1>4 DEF Last

\* value is in one place: once in the list, or with one experiment.
InOnePlace(list, allocated, value) ==
  \/ /\ \E i \in DOMAIN list : list[i] = value /\ \A j \in DOMAIN list : list[j] = value => j = i
     /\ \A x \in Experiments : allocated[x] # value
  \/ /\ \A i \in DOMAIN list : list[i] # value
     /\ \E x \in Experiments :
          allocated[x] = value /\ \A y \in Experiments : allocated[y] = value => y = x

LEMMA OnePlaceCounted ==
  ASSUME NEW list, NEW allocated, NEW value, InOnePlace(list, allocated, value)
  PROVE  Places(list, allocated, value) = 1
  <1> DEFINE I == {i \in DOMAIN list : list[i] = value}
             X == {x \in Experiments : allocated[x] = value}
  <1>1. CASE /\ \E i \in DOMAIN list :
                   list[i] = value /\ \A j \in DOMAIN list : list[j] = value => j = i
             /\ \A x \in Experiments : allocated[x] # value
    <2>1. PICK i : I = {i}
      BY <1>1
    <2>2. X = {}
      BY <1>1
    <2>3. Cardinality(I) = 1
      BY <2>1, FS_Singleton, Zenon
    <2>4. Cardinality(X) = 0
      BY <2>2, FS_EmptySet, Zenon
    <2>5. Places(list, allocated, value) = Cardinality(I) + Cardinality(X)
      BY Zenon DEF Places
    <2> HIDE DEF I, X
    <2> QED
      BY <2>3, <2>4, <2>5
  <1>2. CASE /\ \A i \in DOMAIN list : list[i] # value
             /\ \E x \in Experiments :
                  allocated[x] = value /\ \A y \in Experiments : allocated[y] = value => y = x
    <2>1. PICK x : X = {x}
      BY <1>2
    <2>2. I = {}
      BY <1>2
    <2>3. Cardinality(X) = 1
      BY <2>1, FS_Singleton, Zenon
    <2>4. Cardinality(I) = 0
      BY <2>2, FS_EmptySet, Zenon
    <2>5. Places(list, allocated, value) = Cardinality(I) + Cardinality(X)
      BY Zenon DEF Places
    <2> HIDE DEF I, X
    <2> QED
      BY <2>3, <2>4, <2>5
  <1> QED
    BY <1>1, <1>2 DEF InOnePlace

\* The last element of the list goes to an experiment that has none.
LEMMA TakenInOnePlace ==
  ASSUME NEW S, NEW list \in Seq(S), list # <<>>, None \notin S,
         NEW allocated \in [Experiments -> S \cup {None}],
         NEW x \in Experiments, allocated[x] = None,
         NEW value \in S, InOnePlace(list, allocated, value)
  PROVE  InOnePlace(Front(list), [allocated EXCEPT ![x] = Last(list)], value)
  <1> DEFINE n == Len(list)
             after == [allocated EXCEPT ![x] = Last(list)]
  <1>1. /\ n \in Nat \ {0} /\ Last(list) \in S /\ Last(list) = list[n]
        /\ DOMAIN list = 1 .. n /\ DOMAIN Front(list) = 1 .. (n - 1)
        /\ \A i \in 1 .. (n - 1) : Front(list)[i] = list[i]
    BY FrontProperties
  <1>2. /\ after[x] = Last(list)
        /\ \A y \in Experiments \ {x} : after[y] = allocated[y]
    OBVIOUS
  <1> HIDE DEF n, after
  <1>3. CASE /\ \A y \in Experiments : allocated[y] # value
             /\ \E i \in DOMAIN list :
                   list[i] = value /\ \A j \in DOMAIN list : list[j] = value => j = i
    <2>1. PICK i \in 1 .. n : list[i] = value /\ \A j \in 1 .. n : list[j] = value => j = i
      BY <1>1, <1>3
    <2>2. CASE i = n
      <3>1. \A j \in 1 .. (n - 1) : Front(list)[j] # value
        BY <1>1, <2>1, <2>2
      <3>2. after[x] = value /\ \A y \in Experiments : after[y] = value => y = x
        BY <1>1, <1>2, <1>3, <2>1, <2>2
      <3> QED
        BY <1>1, <3>1, <3>2 DEF InOnePlace
    <2>3. CASE i # n
      <3>1. i \in 1 .. (n - 1) /\ Front(list)[i] = value
        BY <1>1, <2>1, <2>3
      <3>2. \A j \in 1 .. (n - 1) : Front(list)[j] = value => j = i
        BY <1>1, <2>1
      <3>3. \A y \in Experiments : after[y] # value
        BY <1>1, <1>2, <1>3, <2>1, <2>3
      <3> QED
        BY <1>1, <3>1, <3>2, <3>3 DEF InOnePlace
    <2> QED
      BY <2>2, <2>3
  <1>4. CASE /\ \A i \in DOMAIN list : list[i] # value
             /\ \E y \in Experiments :
                  allocated[y] = value /\ \A z \in Experiments : allocated[z] = value => z = y
    <2>1. PICK y \in Experiments :
            allocated[y] = value /\ \A z \in Experiments : allocated[z] = value => z = y
      BY <1>4
    <2>2. y # x /\ Last(list) # value
      BY <1>1, <1>4, <2>1
    <2>3. after[y] = value /\ \A z \in Experiments : after[z] = value => z = y
      BY <1>2, <2>1, <2>2
    <2>4. \A j \in 1 .. (n - 1) : Front(list)[j] # value
      BY <1>1, <1>4
    <2> QED
      BY <1>1, <2>3, <2>4 DEF InOnePlace
  <1> QED
    BY <1>3, <1>4 DEF InOnePlace

\* What an experiment has goes to the end of the list.
LEMMA ReturnedInOnePlace ==
  ASSUME NEW S, NEW list \in Seq(S), None \notin S,
         NEW allocated \in [Experiments -> S \cup {None}],
         NEW x \in Experiments, allocated[x] # None,
         NEW value \in S, InOnePlace(list, allocated, value)
  PROVE  InOnePlace(Append(list, allocated[x]), [allocated EXCEPT ![x] = None], value)
  <1> DEFINE n == Len(list)
             longer == Append(list, allocated[x])
             after == [allocated EXCEPT ![x] = None]
  <1>1. /\ n \in Nat /\ DOMAIN list = 1 .. n /\ DOMAIN longer = 1 .. (n + 1)
        /\ longer[n + 1] = allocated[x] /\ \A i \in 1 .. n : longer[i] = list[i]
    <2>1. allocated[x] \in S
      OBVIOUS
    <2>2. longer \in Seq(S) /\ Len(longer) = n + 1
      BY <2>1, AppendProperties
    <2> QED
      BY <2>1, <2>2, AppendProperties, LenProperties
  <1>2. /\ after[x] = None
        /\ \A y \in Experiments \ {x} : after[y] = allocated[y]
    OBVIOUS
  <1> HIDE DEF n, longer, after
  <1>3. CASE /\ \A y \in Experiments : allocated[y] # value
             /\ \E i \in DOMAIN list :
                   list[i] = value /\ \A j \in DOMAIN list : list[j] = value => j = i
    <2>1. PICK i \in 1 .. n : list[i] = value /\ \A j \in 1 .. n : list[j] = value => j = i
      BY <1>1, <1>3
    <2>2. i \in 1 .. (n + 1) /\ longer[i] = value
          /\ \A j \in 1 .. (n + 1) : longer[j] = value => j = i
      BY <1>1, <1>3, <2>1
    <2>3. \A y \in Experiments : after[y] # value
      BY <1>2, <1>3
    <2> QED
      BY <1>1, <2>2, <2>3 DEF InOnePlace
  <1>4. CASE /\ \A i \in DOMAIN list : list[i] # value
             /\ \E y \in Experiments :
                  allocated[y] = value /\ \A z \in Experiments : allocated[z] = value => z = y
    <2>1. PICK y \in Experiments :
            allocated[y] = value /\ \A z \in Experiments : allocated[z] = value => z = y
      BY <1>4
    <2>2. CASE y = x
      <3>1. longer[n + 1] = value /\ \A j \in 1 .. (n + 1) : longer[j] = value => j = n + 1
        BY <1>1, <1>4, <2>1, <2>2
      <3>2. \A z \in Experiments : after[z] # value
        BY <1>2, <2>1, <2>2
      <3>3. n + 1 \in DOMAIN longer
        BY <1>1
      <3>4. \E i \in DOMAIN longer :
              longer[i] = value /\ \A j \in DOMAIN longer : longer[j] = value => j = i
        <4> WITNESS n + 1 \in DOMAIN longer
        <4> QED
          BY <1>1, <3>1
      <3> QED
        BY <3>2, <3>4, Zenon DEF InOnePlace, longer, after
    <2>3. CASE y # x
      <3>1. after[y] = value /\ \A z \in Experiments : after[z] = value => z = y
        BY <1>2, <2>1, <2>3
      <3>2. \A j \in 1 .. (n + 1) : longer[j] # value
        BY <1>1, <1>4, <2>1, <2>3
      <3> QED
        BY <1>1, <3>1, <3>2 DEF InOnePlace
    <2> QED
      BY <2>2, <2>3
  <1> QED
    BY <1>3, <1>4 DEF InOnePlace

-----------------------------------------------------------------------------
(***************************************************************************)
(* A database: every value is in one place, but for a subnet whose         *)
(* experiment has no address.                                              *)
(***************************************************************************)
Starved(d, subnet) == \E x \in Experiments : d.cluster[x] = subnet /\ d.metallb[x] = None

\* No address without a subnet.
Paired(d) == \A x \in Experiments : d.cluster[x] = None => d.metallb[x] = None

DbInv(d) ==
  /\ d \in Database /\ Paired(d)
  /\ \A ip \in Ips : InOnePlace(d.ips, d.metallb, ip)
  /\ \A s \in Subnets : InOnePlace(d.subnets, d.cluster, s) \/ Starved(d, s)

LEMMA DbInit == DbInv(InitialDb)
  <1>1. InitialDb \in Database /\ Paired(InitialDb)
    BY PoolAssumption DEF InitialDb, Database, Paired
  <1>2. ASSUME NEW S, NEW list \in Seq(S), IsInjective(list), NEW value \in ToSet(list),
               None \notin ToSet(list)
        PROVE  InOnePlace(list, [x \in Experiments |-> None], value)
    BY <1>2 DEF InOnePlace, ToSet, IsInjective
  <1>3. \A ip \in Ips : InOnePlace(InitialDb.ips, InitialDb.metallb, ip)
    BY <1>2, PoolAssumption, NoneAssumption DEF InitialDb, Ips
  <1>4. \A s \in Subnets : InOnePlace(InitialDb.subnets, InitialDb.cluster, s)
    BY <1>2, PoolAssumption, NoneAssumption DEF InitialDb, Subnets
  <1> QED
    BY <1>1, <1>3, <1>4 DEF DbInv

\* POST with a subnet and an address.
LEMMA DbTakeBoth ==
  ASSUME DbInv(db), NEW x \in Experiments, ~Allocated(x), db.subnets # <<>>, db.ips # <<>>
  PROVE  DbInv(TakeBoth(x))
  <1> DEFINE d == TakeBoth(x)
  <1>0. /\ db.subnets \in Seq(Subnets) /\ db.ips \in Seq(Ips)
        /\ db.cluster \in [Experiments -> Subnets \cup {None}]
        /\ db.metallb \in [Experiments -> Ips \cup {None}]
    BY DEF DbInv, Database
  <1>1. /\ db \in Database /\ Paired(db) /\ db.cluster[x] = None /\ db.metallb[x] = None
        /\ None \notin Subnets /\ None \notin Ips
    BY NoneAssumption DEF DbInv, Allocated, Paired
  <1>2. /\ Front(db.subnets) \in Seq(Subnets) /\ Last(db.subnets) \in Subnets
        /\ Front(db.ips) \in Seq(Ips) /\ Last(db.ips) \in Ips
    BY <1>1, FrontProperties DEF Database
  <1>3. /\ d.subnets = Front(db.subnets) /\ d.ips = Front(db.ips) /\ d.admins = db.admins
        /\ d.cluster = [db.cluster EXCEPT ![x] = Last(db.subnets)]
        /\ d.metallb = [db.metallb EXCEPT ![x] = Last(db.ips)]
        /\ d \in Database
    BY <1>1, <1>2 DEF Database, TakeBoth
  <1> HIDE DEF d
  <1>4. Paired(d)
    BY <1>1, <1>2, <1>3 DEF Paired, Database
  <1>5. ASSUME NEW ip \in Ips PROVE InOnePlace(d.ips, d.metallb, ip)
    <2>1. InOnePlace(db.ips, db.metallb, ip)
      BY DEF DbInv
    <2>2. InOnePlace(Front(db.ips), [db.metallb EXCEPT ![x] = Last(db.ips)], ip)
      BY <1>0, <1>1, <2>1, TakenInOnePlace
    <2> QED
      BY <1>3, <2>2
  <1>6. ASSUME NEW s \in Subnets PROVE InOnePlace(d.subnets, d.cluster, s) \/ Starved(d, s)
    <2>1. CASE InOnePlace(db.subnets, db.cluster, s)
      <3>1. InOnePlace(Front(db.subnets),
                       [db.cluster EXCEPT ![x] = Last(db.subnets)], s)
        BY <1>0, <1>1, <2>1, TakenInOnePlace
      <3> QED
        BY <1>3, <3>1
    <2>2. CASE Starved(db, s)
      BY <1>1, <1>3, <2>2 DEF Starved, Database
    <2> QED
      BY <2>1, <2>2 DEF DbInv
  <1> QED
    BY <1>3, <1>4, <1>5, <1>6 DEF DbInv, d

\* POST that pops a subnet and finds no address.
TakeSubnet(x) == [db EXCEPT !.subnets = Front(db.subnets), !.cluster[x] = Last(db.subnets)]

LEMMA DbTakeSubnet ==
  ASSUME DbInv(db), NEW x \in Experiments, ~Allocated(x), db.subnets # <<>>
  PROVE  DbInv(TakeSubnet(x))
  <1> DEFINE d == TakeSubnet(x)
  <1>0. /\ db.subnets \in Seq(Subnets) /\ db.ips \in Seq(Ips)
        /\ db.cluster \in [Experiments -> Subnets \cup {None}]
        /\ db.metallb \in [Experiments -> Ips \cup {None}]
    BY DEF DbInv, Database
  <1>1. /\ db \in Database /\ Paired(db) /\ db.cluster[x] = None /\ None \notin Subnets
    BY NoneAssumption DEF DbInv, Allocated
  <1>2. Front(db.subnets) \in Seq(Subnets) /\ Last(db.subnets) \in Subnets
    BY <1>1, FrontProperties DEF Database
  <1>3. /\ d.subnets = Front(db.subnets) /\ d.ips = db.ips /\ d.admins = db.admins
        /\ d.cluster = [db.cluster EXCEPT ![x] = Last(db.subnets)] /\ d.metallb = db.metallb
        /\ d \in Database
    BY <1>1, <1>2 DEF Database, TakeSubnet
  <1> HIDE DEF d
  <1>4. Paired(d)
    BY <1>1, <1>2, <1>3 DEF Paired, Database
  <1>5. ASSUME NEW s \in Subnets PROVE InOnePlace(d.subnets, d.cluster, s) \/ Starved(d, s)
    <2>1. CASE InOnePlace(db.subnets, db.cluster, s)
      <3>1. InOnePlace(Front(db.subnets),
                       [db.cluster EXCEPT ![x] = Last(db.subnets)], s)
        BY <1>0, <1>1, <2>1, TakenInOnePlace
      <3> QED
        BY <1>3, <3>1
    <2>2. CASE Starved(db, s)
      BY <1>1, <1>3, <2>2 DEF Starved, Database
    <2> QED
      BY <2>1, <2>2 DEF DbInv
  <1> QED
    BY <1>3, <1>4, <1>5 DEF DbInv, d

\* DELETE of an experiment that has both.
LEMMA DbReturnBoth ==
  ASSUME DbInv(db), NEW x \in Experiments, db.cluster[x] # None, db.metallb[x] # None
  PROVE  DbInv(ReturnBoth(x))
  <1> DEFINE d == ReturnBoth(x)
  <1>0. /\ db.subnets \in Seq(Subnets) /\ db.ips \in Seq(Ips)
        /\ db.cluster \in [Experiments -> Subnets \cup {None}]
        /\ db.metallb \in [Experiments -> Ips \cup {None}]
    BY DEF DbInv, Database
  <1>1. db \in Database /\ Paired(db) /\ None \notin Subnets /\ None \notin Ips
    BY NoneAssumption DEF DbInv
  <1>2. /\ Append(db.subnets, db.cluster[x]) \in Seq(Subnets)
        /\ Append(db.ips, db.metallb[x]) \in Seq(Ips)
    BY <1>1, AppendProperties DEF Database
  <1>3. /\ d.subnets = Append(db.subnets, db.cluster[x]) /\ d.ips = Append(db.ips, db.metallb[x])
        /\ d.cluster = [db.cluster EXCEPT ![x] = None] /\ d.metallb = [db.metallb EXCEPT ![x] = None]
        /\ d.admins = db.admins /\ d \in Database
    BY <1>1, <1>2 DEF Database, ReturnBoth
  <1> HIDE DEF d
  <1>4. Paired(d)
    BY <1>1, <1>3 DEF Paired, Database
  <1>5. ASSUME NEW ip \in Ips PROVE InOnePlace(d.ips, d.metallb, ip)
    <2>1. InOnePlace(db.ips, db.metallb, ip)
      BY DEF DbInv
    <2>2. InOnePlace(Append(db.ips, db.metallb[x]), [db.metallb EXCEPT ![x] = None], ip)
      BY <1>0, <1>1, <2>1, ReturnedInOnePlace
    <2> QED
      BY <1>3, <2>2
  <1>6. ASSUME NEW s \in Subnets PROVE InOnePlace(d.subnets, d.cluster, s) \/ Starved(d, s)
    <2>1. CASE InOnePlace(db.subnets, db.cluster, s)
      <3>1. InOnePlace(Append(db.subnets, db.cluster[x]),
                       [db.cluster EXCEPT ![x] = None], s)
        BY <1>0, <1>1, <2>1, ReturnedInOnePlace
      <3> QED
        BY <1>3, <3>1
    <2>2. CASE Starved(db, s)
      BY <1>1, <1>3, <2>2 DEF Starved, Database
    <2> QED
      BY <2>1, <2>2 DEF DbInv
  <1> QED
    BY <1>3, <1>4, <1>5, <1>6 DEF DbInv, d

\* DELETE of an experiment that has no address gives the subnet back, then fails.
ReturnSubnet(x) == [db EXCEPT !.subnets = Append(@, db.cluster[x])]

LEMMA DbReturnSubnet ==
  ASSUME DbInv(db), NEW x \in Experiments, db.cluster[x] # None, db.metallb[x] = None
  PROVE  DbInv(ReturnSubnet(x))
  <1> DEFINE d == ReturnSubnet(x)
  <1>1. db \in Database /\ Paired(db) /\ db.cluster[x] \in Subnets
    BY DEF DbInv, Database
  <1>2. Append(db.subnets, db.cluster[x]) \in Seq(Subnets)
    BY <1>1, AppendProperties DEF Database
  <1>3. /\ d.subnets = Append(db.subnets, db.cluster[x]) /\ d.ips = db.ips
        /\ d.cluster = db.cluster /\ d.metallb = db.metallb
        /\ d.admins = db.admins /\ d \in Database
    BY <1>1, <1>2 DEF Database, ReturnSubnet
  <1> HIDE DEF d
  <1>4. ASSUME NEW s \in Subnets PROVE InOnePlace(d.subnets, d.cluster, s) \/ Starved(d, s)
    <2>1. CASE s = db.cluster[x]
      BY <1>3, <2>1 DEF Starved
    <2>2. CASE Starved(db, s)
      BY <1>3, <2>2 DEF Starved
    <2>3. CASE s # db.cluster[x] /\ InOnePlace(db.subnets, db.cluster, s)
      <3> DEFINE n == Len(db.subnets)
      <3>1. db.subnets \in Seq(Subnets)
        BY <1>1 DEF Database
      <3>2. /\ n \in Nat /\ DOMAIN db.subnets = 1 .. n /\ DOMAIN d.subnets = 1 .. (n + 1)
            /\ d.subnets[n + 1] = db.cluster[x]
            /\ \A i \in 1 .. n : d.subnets[i] = db.subnets[i]
        BY <1>1, <1>2, <1>3, <3>1, AppendProperties, LenProperties
      <3> HIDE DEF n
      <3>3. \A i \in 1 .. (n + 1) : d.subnets[i] = s => i \in 1 .. n
        BY <2>3, <3>2
      <3>4. \A i \in 1 .. n : i \in 1 .. (n + 1)
        BY <3>2
      <3> QED
        BY <1>3, <2>3, <3>2, <3>3, <3>4 DEF InOnePlace
    <2> QED
      BY <2>1, <2>2, <2>3 DEF DbInv
  <1>5. /\ Paired(d) /\ \A ip \in Ips : InOnePlace(d.ips, d.metallb, ip)
    BY <1>3 DEF DbInv, Paired
  <1> QED
    BY <1>3, <1>4, <1>5 DEF DbInv, d

\* An edit of the roles.
LEMMA DbEdit ==
  ASSUME NEW d, DbInv(d), NEW admins \in SUBSET Users
  PROVE  DbInv([d EXCEPT !.admins = admins])
  <1> DEFINE e == [d EXCEPT !.admins = admins]
  <1>1. /\ e \in Database /\ e.subnets = d.subnets /\ e.ips = d.ips
        /\ e.cluster = d.cluster /\ e.metallb = d.metallb
    BY DEF DbInv, Database
  <1> HIDE DEF e
  <1>2. DbInv(e)
    BY <1>1 DEF DbInv, Paired, Starved
  <1> QED
    BY <1>2 DEF e

-----------------------------------------------------------------------------
(***************************************************************************)
(* The inductive invariant, one part for each concern.                     *)
(***************************************************************************)
Status == {"none", "200", "403", "404", "500"}

Frame == [experiment_id : Experiments \cup {None}, lease : Lease \cup {NoLease}, status : Status]

TypeInv ==
  /\ server \in {"up", "stopping", "down"}
  /\ pc \in [Requests -> {"idle", "reset", "save", "write", "respond"}]
  /\ frame \in [Requests -> Frame]
  /\ \A r \in Requests : frame[r].lease # NoLease => frame[r].experiment_id # None
  /\ told \in [Experiments -> Lease \cup {NoLease}]
  /\ forgotten \subseteq Experiments
  /\ edited \in [admins : SUBSET Users, fate : {"waiting", "loaded", "overwritten"}]
  /\ crashes \in 0..MaxCrashes /\ resets \in 0..MaxResets /\ edits \in 0..MaxEdits

DbsInv == DbInv(db) /\ (file # Torn => DbInv(file))

\* The file is torn while one request or the shutdown writes it, and after a
\* crash then.
FileInv ==
  /\ \A r \in Requests : pc[r] = "write" => server = "up" /\ file = Torn
  /\ \A r, q \in Requests : pc[r] = "write" /\ pc[q] = "write" => r = q
  /\ LoopFree => file # Torn
  /\ server = "stopping" => file = Torn
  /\ \A r \in Requests : server # "up" => pc[r] = "idle"
  /\ \A r \in Requests : pc[r] \in {"idle", "reset"} => frame[r] = NoFrame
  /\ edited.fate = "waiting" => file # Torn

\* An answer on its way is in the db, and in the file once it was saved; what
\* was told is in both.
LeaseInv ==
  /\ \A r \in Requests :
       frame[r].lease # NoLease /\ frame[r].experiment_id \notin forgotten =>
         /\ LeaseIn(db, frame[r].experiment_id) = frame[r].lease
         /\ pc[r] = "respond" /\ file # Torn =>
              LeaseIn(file, frame[r].experiment_id) = frame[r].lease
  /\ \A x \in Experiments \ forgotten : told[x] # NoLease =>
       /\ server # "down" => LeaseIn(db, x) = told[x]
       /\ file # Torn => LeaseIn(file, x) = told[x]

EditInv ==
  /\ LoadedEditStays
  /\ edited.fate = "waiting" => file.admins = edited.admins

Inv == TypeInv /\ DbsInv /\ FileInv /\ LeaseInv /\ EditInv

LEMMA InvInit == Init => Inv
  <1> SUFFICES ASSUME Init PROVE Inv
    OBVIOUS
  <1>1. file # Torn
    BY DbInit, TornAssumption DEF Init, DbInv
  <1>2. TypeInv
    <2>1. /\ NoFrame \in Frame /\ NoFrame.lease = NoLease
          /\ NoLease \in Lease \cup {NoLease}
      BY DEF NoFrame, Frame, Status
    <2>2. 0 \in 0..MaxCrashes /\ 0 \in 0..MaxResets /\ 0 \in 0..MaxEdits
      BY BoundsAssumption
    <2>3. frame \in [Requests -> Frame] /\ \A r \in Requests : frame[r].lease = NoLease
      BY <2>1 DEF Init
    <2>4. told \in [Experiments -> Lease \cup {NoLease}]
      BY <2>1 DEF Init
    <2> QED
      BY <2>2, <2>3, <2>4 DEF Init, TypeInv
  <1>3. DbsInv
    BY DbInit DEF Init, DbsInv
  <1>4. FileInv
    BY <1>1 DEF Init, FileInv, LoopFree
  <1>5. LeaseInv
    BY DEF Init, LeaseInv, NoFrame
  <1>6. EditInv
    BY DEF Init, EditInv, LoadedEditStays, InitialDb
  <1> QED
    BY <1>2, <1>3, <1>4, <1>5, <1>6 DEF Inv

\* A database can be told from Torn.
LEMMA NotTorn == ASSUME NEW d, DbInv(d) PROVE d # Torn
  BY TornAssumption DEF DbInv

-----------------------------------------------------------------------------
(***************************************************************************)
(* The two handlers.                                                       *)
(***************************************************************************)

\* How POST leaves r: what it answers is what x has.
PostOutcome(r, x, label, lease, status) ==
  /\ label \in {"save", "respond"} /\ lease \in Lease \cup {NoLease} /\ status \in Status
  /\ pc' = [pc EXCEPT ![r] = label]
  /\ frame' = [frame EXCEPT ![r] = FrameOf(x, lease, status)]
  /\ lease # NoLease => LeaseIn(db', x) = lease /\ label = "save"

\* POST moves at most one subnet and one address to x, or fails to.
LEMMA PostEffect ==
  ASSUME DbInv(db), NEW r \in Requests, NEW x \in Experiments, PostPrefix(r, x)
  PROVE  /\ DbInv(db') /\ db'.admins = db.admins
         /\ \A y \in Experiments : y # x \/ Allocated(x) => LeaseIn(db', y) = LeaseIn(db, y)
         /\ \E label, lease, status : PostOutcome(r, x, label, lease, status)
  <1>1. db \in Database /\ None \notin Subnets /\ None \notin Ips
    BY NoneAssumption DEF DbInv
  <1>2. CASE /\ Allocated(x) /\ db.metallb[x] # None
             /\ Handled(r, x, LeaseIn(db, x), "200") /\ UNCHANGED db
    <2>1. LeaseIn(db, x) \in Lease
      BY <1>1, <1>2 DEF Allocated, LeaseIn, Lease, Database
    <2>2. PostOutcome(r, x, "save", LeaseIn(db, x), "200")
      BY <1>2, <2>1 DEF Handled, PostOutcome, Status
    <2> QED
      BY <1>2, <2>2, Zenon
  <1>3. CASE Raised(r, x) /\ UNCHANGED db
    <2>1. PostOutcome(r, x, "respond", NoLease, "500")
      BY <1>3 DEF Raised, PostOutcome, Status
    <2> QED
      BY <1>3, <2>1, Zenon
  <1>4. CASE Handled(r, x, NoLease, "404") /\ UNCHANGED db
    <2>1. PostOutcome(r, x, "save", NoLease, "404")
      BY <1>4 DEF Handled, PostOutcome, Status
    <2> QED
      BY <1>4, <2>1, Zenon
  <1>5. CASE /\ ~Allocated(x) /\ db.subnets # <<>>
             /\ Handled(r, x, NoLease, "404") /\ db' = TakeSubnet(x)
    <2>1. DbInv(db')
      BY <1>5, DbTakeSubnet
    <2>2. /\ db'.admins = db.admins
          /\ \A y \in Experiments : y # x => LeaseIn(db', y) = LeaseIn(db, y)
      BY <1>1, <1>5 DEF TakeSubnet, LeaseIn, Database
    <2>3. PostOutcome(r, x, "save", NoLease, "404")
      BY <1>5 DEF Handled, PostOutcome, Status
    <2> QED
      BY <1>5, <2>1, <2>2, <2>3, Zenon
  <1>6. CASE /\ ~Allocated(x) /\ db.subnets # <<>> /\ db.ips # <<>>
             /\ db' = TakeBoth(x) /\ Handled(r, x, LeaseIn(db', x), "200")
    <2>1. DbInv(db')
      BY <1>6, DbTakeBoth
    <2>2. /\ db'.admins = db.admins
          /\ \A y \in Experiments : y # x => LeaseIn(db', y) = LeaseIn(db, y)
      BY <1>1, <1>6 DEF TakeBoth, LeaseIn, Database
    <2>3. db.subnets \in Seq(Subnets) /\ db.ips \in Seq(Ips)
      BY <1>1 DEF Database
    <2>4. Last(db.subnets) \in Subnets /\ Last(db.ips) \in Ips
      BY <1>6, <2>3, FrontProperties
    <2>5. LeaseIn(db', x) \in Lease
      BY <1>1, <1>6, <2>4 DEF TakeBoth, LeaseIn, Lease, Database
    <2>6. PostOutcome(r, x, "save", LeaseIn(db', x), "200")
      BY <1>6, <2>5 DEF Handled, PostOutcome, Status
    <2> QED
      BY <1>6, <2>1, <2>2, <2>6, Zenon
  <1> QED
    BY <1>2, <1>3, <1>4, <1>5, <1>6, Zenon DEF PostPrefix, TakeSubnet

\* How DELETE leaves r, and the other requests of x.
DeleteOutcome(r, x, label, status) ==
  /\ label \in {"save", "respond"} /\ status \in Status
  /\ pc' = [pc EXCEPT ![r] = label]
  /\ frame' = Outdated(x, [frame EXCEPT ![r] = FrameOf(x, NoLease, status)])

\* DELETE gives back what x has, or a part of it.
LEMMA DeleteEffect ==
  ASSUME DbInv(db), NEW r \in Requests, NEW x \in Experiments, DeletePrefix(r, x)
  PROVE  /\ DbInv(db') /\ db'.admins = db.admins
         /\ \A y \in Experiments : y # x => LeaseIn(db', y) = LeaseIn(db, y)
         /\ \E label, status : DeleteOutcome(r, x, label, status)
  <1>1. db \in Database
    BY DEF DbInv
  <1>2. \E label, status : DeleteOutcome(r, x, label, status)
    <2>1. \/ DeleteOutcome(r, x, "save", "404") \/ DeleteOutcome(r, x, "respond", "500")
          \/ DeleteOutcome(r, x, "save", "200")
      BY DEF DeletePrefix, DeleteOutcome, Status
    <2> QED
      BY <2>1, Zenon
  <1>3. CASE UNCHANGED db
    BY <1>2, <1>3, Zenon
  <1>4. CASE db.cluster[x] # None /\ db.metallb[x] = None /\ db' = ReturnSubnet(x)
    <2>1. DbInv(db')
      BY <1>4, DbReturnSubnet
    <2>2. db'.admins = db.admins /\ \A y \in Experiments : LeaseIn(db', y) = LeaseIn(db, y)
      BY <1>1, <1>4 DEF ReturnSubnet, LeaseIn, Database
    <2> QED
      BY <1>2, <2>1, <2>2, Zenon
  <1>5. CASE db.cluster[x] # None /\ db.metallb[x] # None /\ db' = ReturnBoth(x)
    <2>1. DbInv(db')
      BY <1>5, DbReturnBoth
    <2>2. /\ db'.admins = db.admins
          /\ \A y \in Experiments : y # x => LeaseIn(db', y) = LeaseIn(db, y)
      BY <1>1, <1>5 DEF ReturnBoth, LeaseIn, Database
    <2> QED
      BY <1>2, <2>1, <2>2, Zenon
  <1> QED
    BY <1>3, <1>4, <1>5 DEF DeletePrefix, ReturnSubnet

\* What becomes of each frame.
LEMMA OutdatedFrames ==
  ASSUME NEW frames \in [Requests -> Frame], NEW x \in Experiments
  PROVE  /\ Outdated(x, frames) \in [Requests -> Frame]
         /\ \A q \in Requests :
              IF frames[q].experiment_id = x
              THEN /\ Outdated(x, frames)[q].experiment_id = x
                   /\ Outdated(x, frames)[q].lease = NoLease
              ELSE Outdated(x, frames)[q] = frames[q]
  <1>1. NoLease \in Lease \cup {NoLease}
    OBVIOUS
  <1>2. ASSUME NEW q \in Requests
        PROVE  /\ [frames[q] EXCEPT !.lease = NoLease] \in Frame
               /\ [frames[q] EXCEPT !.lease = NoLease].lease = NoLease
               /\ [frames[q] EXCEPT !.lease = NoLease].experiment_id = frames[q].experiment_id
    BY <1>1 DEF Frame
  <1> QED
    BY <1>2 DEF Outdated

LEMMA FrameType ==
  ASSUME NEW x \in Experiments \cup {None}, NEW lease \in Lease \cup {NoLease},
         NEW status \in Status
  PROVE  /\ FrameOf(x, lease, status) \in Frame
         /\ FrameOf(x, lease, status).experiment_id = x
         /\ FrameOf(x, lease, status).lease = lease
  BY DEF FrameOf, Frame

\* The frame of a request that is not about an experiment.
LEMMA EmptyFrame ==
  \A status \in Status : /\ FrameOf(None, NoLease, status) \in Frame
                        /\ FrameOf(None, NoLease, status).lease = NoLease
                        /\ FrameOf(None, NoLease, status).experiment_id = None
  BY FrameType

LEMMA NoFrameType ==
  NoFrame \in Frame /\ NoFrame.lease = NoLease /\ NoFrame.experiment_id = None
  BY DEF NoFrame, Frame, Status

\* The frames after DELETE.
LEMMA DeleteFrames ==
  ASSUME TypeInv, NEW r \in Requests, NEW x \in Experiments, NEW label, NEW status,
         DeleteOutcome(r, x, label, status)
  PROVE  /\ frame' \in [Requests -> Frame]
         /\ frame'[r].experiment_id = x /\ frame'[r].lease = NoLease
         /\ \A q \in Requests \ {r} :
              IF frame[q].experiment_id = x
              THEN frame'[q].experiment_id = x /\ frame'[q].lease = NoLease
              ELSE frame'[q] = frame[q]
  <1> DEFINE new == FrameOf(x, NoLease, status)
             frames == [frame EXCEPT ![r] = new]
  <1>1. new \in Frame /\ new.experiment_id = x
    BY FrameType DEF DeleteOutcome
  <1>2. /\ frames \in [Requests -> Frame] /\ frames[r] = new
        /\ \A q \in Requests \ {r} : frames[q] = frame[q]
    BY <1>1 DEF TypeInv
  <1>3. frame' = Outdated(x, frames)
    BY DEF DeleteOutcome
  <1> HIDE DEF new, frames
  <1>4. /\ frame' \in [Requests -> Frame]
        /\ \A q \in Requests :
              IF frames[q].experiment_id = x
              THEN frame'[q].experiment_id = x /\ frame'[q].lease = NoLease
              ELSE frame'[q] = frames[q]
    BY <1>2, <1>3, OutdatedFrames
  <1> QED
    BY <1>1, <1>2, <1>4

-----------------------------------------------------------------------------
(***************************************************************************)
(* The steps, one lemma for each part of the invariant.                    *)
(***************************************************************************)
LEMMA TypeNext == Inv /\ [Next]_vars => TypeInv'
  <1> SUFFICES ASSUME Inv, [Next]_vars PROVE TypeInv'
    OBVIOUS
  <1>0. TypeInv /\ DbInv(db) /\ MaxCrashes \in Nat /\ MaxResets \in Nat /\ MaxEdits \in Nat
    BY BoundsAssumption DEF Inv, DbsInv
  <1>1. ASSUME NEW r \in Requests, NEW x \in Experiments, PostPrefix(r, x) PROVE TypeInv'
    <2>1. PICK label, lease, status : PostOutcome(r, x, label, lease, status)
      BY <1>0, <1>1, PostEffect
    <2>2. /\ FrameOf(x, lease, status) \in Frame
          /\ FrameOf(x, lease, status).experiment_id = x
      BY <2>1, FrameType DEF PostOutcome
    <2> QED
      BY <1>0, <1>1, <2>1, <2>2, NoneAssumption
         DEF PostPrefix, PostOutcome, TypeInv, counters
  <1>2. ASSUME NEW r \in Requests, NEW x \in Experiments, DeletePrefix(r, x) PROVE TypeInv'
    <2>1. PICK label, status : DeleteOutcome(r, x, label, status)
      BY <1>0, <1>2, DeleteEffect
    <2>2. /\ frame' \in [Requests -> Frame]
          /\ \A q \in Requests : frame'[q].lease # NoLease => frame'[q].experiment_id # None
      BY <1>0, <2>1, DeleteFrames DEF TypeInv
    <2>3. told' \in [Experiments -> Lease \cup {NoLease}]
      BY <1>0, <1>2 DEF TypeInv, DeletePrefix, GiveUp
    <2> QED
      BY <1>0, <1>2, <2>1, <2>2, <2>3 DEF DeletePrefix, DeleteOutcome, TypeInv, counters
  <1>3. ASSUME NEW r \in Requests, OtherRequest(r) PROVE TypeInv'
    <2>1. /\ pc' \in [Requests -> {"idle", "reset", "save", "write", "respond"}]
          /\ \E status \in Status : frame' = [frame EXCEPT ![r] = FrameOf(None, NoLease, status)]
      BY <1>0, <1>3 DEF OtherRequest, Handled, Raised, Status, TypeInv
    <2> QED
      BY <1>0, <1>3, <2>1, EmptyFrame DEF OtherRequest, TypeInv, counters
  <1>4. ASSUME NEW r \in Requests, NEW u \in Users, CheckRole(r, u) PROVE TypeInv'
    <2>1. /\ pc' \in [Requests -> {"idle", "reset", "save", "write", "respond"}]
          /\ \/ frame' = frame
             \/ \E status \in Status : frame' = [frame EXCEPT ![r] = FrameOf(None, NoLease, status)]
      BY <1>0, <1>4 DEF CheckRole, Handled, Status, TypeInv
    <2>2. resets' \in 0..MaxResets
      BY <1>0, <1>4 DEF CheckRole, TypeInv
    <2> QED
      BY <1>0, <1>4, <2>1, <2>2, EmptyFrame DEF CheckRole, TypeInv
  <1>5. ASSUME NEW r \in Requests, GetReset(r) PROVE TypeInv'
    <2>1. edited' \in [admins : SUBSET Users, fate : {"waiting", "loaded", "overwritten"}]
      BY <1>0, <1>5 DEF GetReset, Fate, TypeInv
    <2>2. /\ pc' \in [Requests -> {"idle", "reset", "save", "write", "respond"}]
          /\ \E status \in Status : frame' = [frame EXCEPT ![r] = FrameOf(None, NoLease, status)]
      BY <1>0, <1>5 DEF GetReset, Handled, Status, TypeInv
    <2> QED
      BY <1>0, <1>5, <2>1, <2>2, EmptyFrame DEF GetReset, TypeInv, counters
  <1>6. ASSUME NEW r \in Requests, SaveDb(r) PROVE TypeInv'
    BY <1>0, <1>6 DEF SaveDb, Fate, TypeInv, counters
  <1>7. ASSUME NEW r \in Requests, WriteDb(r) PROVE TypeInv'
    BY <1>0, <1>7 DEF WriteDb, TypeInv, counters
  <1>8. ASSUME NEW r \in Requests, Respond(r) PROVE TypeInv'
    <2>1. /\ frame[r] \in Frame
          /\ frame[r].lease # NoLease =>
               frame[r].experiment_id \in Experiments /\ frame[r].lease \in Lease
      BY <1>0 DEF TypeInv, Frame
    <2>2. told' \in [Experiments -> Lease \cup {NoLease}]
      BY <1>0, <1>8, <2>1 DEF TypeInv, Respond
    <2> QED
      BY <1>0, <1>8, <2>2, NoFrameType DEF Respond, TypeInv, counters
  <1>9. CASE Boot
    BY <1>0, <1>9 DEF Boot, Fate, TypeInv, counters
  <1>10. CASE Shutdown
    BY <1>0, <1>10 DEF Shutdown, Fate, TypeInv, counters
  <1>11. CASE FinishShutdown
    BY <1>0, <1>11 DEF FinishShutdown, TypeInv, counters
  <1>12. CASE Crash
    BY <1>0, <1>12, NoFrameType DEF Crash, TypeInv
  <1>13. ASSUME NEW admins \in SUBSET Users, EditFile(admins) PROVE TypeInv'
    BY <1>0, <1>13 DEF EditFile, TypeInv
  <1>14. CASE UNCHANGED vars
    BY <1>0, <1>14 DEF vars, TypeInv, counters
  <1> QED
    BY <1>1, <1>2, <1>3, <1>4, <1>5, <1>6, <1>7, <1>8, <1>9, <1>10, <1>11, <1>12, <1>13, <1>14
       DEF Next

LEMMA DbsNext == Inv /\ [Next]_vars => DbsInv'
  <1> SUFFICES ASSUME Inv, [Next]_vars PROVE DbsInv'
    OBVIOUS
  <1>0. /\ DbInv(db) /\ (file # Torn => DbInv(file))
        /\ LoopFree => file # Torn
    BY DEF Inv, DbsInv, FileInv
  <1> DEFINE Good == DbInv(db') /\ (file' # Torn => DbInv(file'))
  <1>1. ASSUME NEW r \in Requests, NEW x \in Experiments, PostPrefix(r, x) PROVE Good
    BY <1>0, <1>1, PostEffect DEF PostPrefix
  <1>2. ASSUME NEW r \in Requests, NEW x \in Experiments, DeletePrefix(r, x) PROVE Good
    BY <1>0, <1>2, DeleteEffect DEF DeletePrefix
  <1>3. ASSUME NEW r \in Requests, GetReset(r) PROVE Good
    BY <1>0, <1>3 DEF GetReset
  <1>4. ASSUME NEW r \in Requests, SaveDb(r) PROVE Good
    BY <1>0, <1>4 DEF SaveDb
  <1>5. ASSUME NEW r \in Requests, WriteDb(r) PROVE Good
    BY <1>0, <1>5 DEF WriteDb
  <1>6. ASSUME Boot PROVE Good
    BY <1>0, <1>6 DEF Boot
  <1>7. ASSUME Shutdown PROVE Good
    BY <1>0, <1>7 DEF Shutdown
  <1>8. ASSUME FinishShutdown PROVE Good
    BY <1>0, <1>8 DEF FinishShutdown
  <1>9. ASSUME NEW admins \in SUBSET Users, EditFile(admins) PROVE Good
    <2>1. DbInv(file) /\ file' = [file EXCEPT !.admins = admins] /\ db' = db
      BY <1>0, <1>9 DEF EditFile
    <2> QED
      BY <1>0, <2>1, DbEdit
  <1>10. ASSUME UNCHANGED <<db, file>> PROVE Good
    BY <1>0, <1>10
  <1>11. Good
    <2>1. \A r \in Requests :
            /\ OtherRequest(r) \/ Respond(r) => UNCHANGED <<db, file>>
            /\ \A u \in Users : CheckRole(r, u) => UNCHANGED <<db, file>>
      BY DEF OtherRequest, Respond, CheckRole
    <2>2. Crash \/ UNCHANGED vars => UNCHANGED <<db, file>>
      BY DEF Crash, vars
    <2> QED
      BY <1>1, <1>2, <1>3, <1>4, <1>5, <1>6, <1>7, <1>8, <1>9, <1>10, <2>1, <2>2 DEF Next
  <1> QED
    BY <1>11 DEF DbsInv, DbInv, InOnePlace, Starved, Paired

LEMMA FileNext == Inv /\ [Next]_vars => FileInv'
  <1> SUFFICES ASSUME Inv, [Next]_vars PROVE FileInv'
    OBVIOUS
  <1>0. /\ FileInv /\ TypeInv /\ db # Torn /\ None \notin Experiments
        /\ \A admins : file # Torn => [file EXCEPT !.admins = admins] # Torn \/ admins \notin SUBSET Users
    BY DbEdit, NotTorn, NoneAssumption DEF Inv, DbsInv
  <1>1. ASSUME NEW r \in Requests, NEW x \in Experiments, PostPrefix(r, x) PROVE FileInv'
    <2>1. PICK label, lease, status : PostOutcome(r, x, label, lease, status)
      BY <1>1, PostEffect DEF Inv, DbsInv
    <2> QED
      BY <1>0, <1>1, <2>1 DEF PostPrefix, PostOutcome, FileInv, TypeInv, LoopFree
  <1>2. ASSUME NEW r \in Requests, NEW x \in Experiments, DeletePrefix(r, x) PROVE FileInv'
    <2>1. PICK label, status : DeleteOutcome(r, x, label, status)
      BY <1>2, DeleteEffect DEF Inv, DbsInv
    <2>2. \A q \in Requests \ {r} : frame[q] = NoFrame => frame'[q] = NoFrame
      BY <1>0, <2>1, DeleteFrames, NoFrameType
    <2> QED
      BY <1>0, <1>2, <2>1, <2>2 DEF DeletePrefix, DeleteOutcome, FileInv, TypeInv, LoopFree
  <1>3. ASSUME NEW r \in Requests, OtherRequest(r) PROVE FileInv'
    BY <1>0, <1>3 DEF OtherRequest, Handled, Raised, FileInv, TypeInv, LoopFree
  <1>4. ASSUME NEW r \in Requests, NEW u \in Users, CheckRole(r, u) PROVE FileInv'
    BY <1>0, <1>4 DEF CheckRole, Handled, FileInv, TypeInv, LoopFree
  <1>5. ASSUME NEW r \in Requests, GetReset(r) PROVE FileInv'
    BY <1>0, <1>5 DEF GetReset, Handled, Fate, FileInv, TypeInv, LoopFree
  <1>6. ASSUME NEW r \in Requests, SaveDb(r) PROVE FileInv'
    BY <1>0, <1>6 DEF SaveDb, Fate, FileInv, TypeInv, LoopFree
  <1>7. ASSUME NEW r \in Requests, WriteDb(r) PROVE FileInv'
    BY <1>0, <1>7 DEF WriteDb, FileInv, TypeInv, LoopFree
  <1>8. ASSUME NEW r \in Requests, Respond(r) PROVE FileInv'
    BY <1>0, <1>8 DEF Respond, FileInv, TypeInv, LoopFree
  <1>9. CASE Boot
    BY <1>0, <1>9 DEF Boot, Fate, FileInv, TypeInv, LoopFree
  <1>10. CASE Shutdown
    BY <1>0, <1>10 DEF Shutdown, Fate, FileInv, TypeInv, LoopFree
  <1>11. CASE FinishShutdown
    BY <1>0, <1>11 DEF FinishShutdown, FileInv, TypeInv, LoopFree
  <1>12. CASE Crash
    BY <1>0, <1>12 DEF Crash, FileInv, TypeInv, LoopFree
  <1>13. ASSUME NEW admins \in SUBSET Users, EditFile(admins) PROVE FileInv'
    BY <1>0, <1>13 DEF EditFile, FileInv, TypeInv, LoopFree
  <1>14. CASE UNCHANGED vars
    BY <1>0, <1>14 DEF vars, FileInv, LoopFree
  <1> QED
    BY <1>1, <1>2, <1>3, <1>4, <1>5, <1>6, <1>7, <1>8, <1>9, <1>10, <1>11, <1>12, <1>13, <1>14
       DEF Next

LEMMA LeaseNext == Inv /\ [Next]_vars => LeaseInv'
  <1> SUFFICES ASSUME Inv, [Next]_vars PROVE LeaseInv'
    OBVIOUS
  <1>0. /\ FileInv /\ TypeInv /\ LeaseInv /\ DbInv(db)
        /\ None \notin Experiments /\ None \notin Subnets /\ None \notin Ips
    BY NoneAssumption DEF Inv, DbsInv
  <1>1. ASSUME NEW r \in Requests, NEW x \in Experiments, PostPrefix(r, x) PROVE LeaseInv'
    <2>1. PICK label, lease, status : PostOutcome(r, x, label, lease, status)
      BY <1>0, <1>1, PostEffect
    <2>2. \A y \in Experiments : y # x \/ Allocated(x) => LeaseIn(db', y) = LeaseIn(db, y)
      BY <1>0, <1>1, PostEffect
    <2>3. ~Allocated(x) => LeaseIn(db, x) \notin Lease
      BY <1>0 DEF Allocated, LeaseIn, Lease
    <2>4. /\ FrameOf(x, lease, status).experiment_id = x
          /\ FrameOf(x, lease, status).lease = lease
      BY <2>1, FrameType DEF PostOutcome
    <2>5. /\ server = "up" /\ file' = file /\ server' = server /\ told' = told
          /\ forgotten' = forgotten
      BY <1>1 DEF PostPrefix, LoopFree
    <2>6. \A q \in Requests :
            /\ frame[q].experiment_id \in Experiments \cup {None}
            /\ frame[q].lease \in Lease \cup {NoLease}
            /\ frame[q].lease # NoLease => frame[q].experiment_id # None
      BY <1>0 DEF TypeInv, Frame
    <2>7. \A q \in Requests \ {r} : frame'[q] = frame[q] /\ pc'[q] = pc[q]
      BY <1>0, <2>1 DEF PostOutcome, TypeInv
    <2>8. frame'[r] = FrameOf(x, lease, status) /\ pc'[r] = label
      BY <1>0, <2>1 DEF PostOutcome, TypeInv
    <2>9. \A q \in Requests :
            frame'[q].lease # NoLease /\ frame'[q].experiment_id \notin forgotten' =>
              /\ LeaseIn(db', frame'[q].experiment_id) = frame'[q].lease
              /\ pc'[q] = "respond" /\ file' # Torn =>
                   LeaseIn(file', frame'[q].experiment_id) = frame'[q].lease
      BY <1>0, <2>1, <2>2, <2>3, <2>4, <2>5, <2>6, <2>7, <2>8 DEF LeaseInv, PostOutcome
    <2>10. \A y \in Experiments \ forgotten' : told'[y] # NoLease =>
             /\ server' # "down" => LeaseIn(db', y) = told'[y]
             /\ file' # Torn => LeaseIn(file', y) = told'[y]
      BY <1>0, <2>2, <2>3, <2>5 DEF LeaseInv, TypeInv
    <2> QED
      BY <2>9, <2>10 DEF LeaseInv, LeaseIn
  <1>2. ASSUME NEW r \in Requests, NEW x \in Experiments, DeletePrefix(r, x) PROVE LeaseInv'
    <2>1. PICK label, status : DeleteOutcome(r, x, label, status)
      BY <1>0, <1>2, DeleteEffect
    <2>2. \A y \in Experiments : y # x => LeaseIn(db', y) = LeaseIn(db, y)
      BY <1>0, <1>2, DeleteEffect
    <2>3. /\ frame'[r].lease = NoLease
          /\ \A q \in Requests \ {r} : frame'[q].lease # NoLease =>
               frame'[q] = frame[q] /\ frame[q].experiment_id # x
      BY <1>0, <2>1, DeleteFrames
    <2>4. \A q \in Requests \ {r} : pc'[q] = pc[q]
      BY <1>0, <2>1 DEF DeleteOutcome, TypeInv
    <2>5. /\ server = "up" /\ file' = file /\ server' = server
          /\ told'[x] = NoLease /\ \A y \in Experiments \ {x} : told'[y] = told[y]
          /\ forgotten' = forgotten
      BY <1>0, <1>2 DEF DeletePrefix, LoopFree, GiveUp, TypeInv
    <2>6. \A q \in Requests :
            /\ frame[q].experiment_id \in Experiments \cup {None}
            /\ frame[q].lease # NoLease => frame[q].experiment_id # None
      BY <1>0 DEF TypeInv, Frame
    <2>7. \A q \in Requests :
            frame'[q].lease # NoLease /\ frame'[q].experiment_id \notin forgotten' =>
              /\ LeaseIn(db', frame'[q].experiment_id) = frame'[q].lease
              /\ pc'[q] = "respond" /\ file' # Torn =>
                   LeaseIn(file', frame'[q].experiment_id) = frame'[q].lease
      BY <1>0, <2>2, <2>3, <2>4, <2>5, <2>6 DEF LeaseInv
    <2>8. \A y \in Experiments \ forgotten' : told'[y] # NoLease =>
             /\ server' # "down" => LeaseIn(db', y) = told'[y]
             /\ file' # Torn => LeaseIn(file', y) = told'[y]
      BY <1>0, <2>2, <2>5 DEF LeaseInv
    <2> QED
      BY <2>7, <2>8 DEF LeaseInv, LeaseIn
  <1>3. ASSUME NEW r \in Requests, OtherRequest(r) PROVE LeaseInv'
    <2>1. /\ \E label, status : /\ pc' = [pc EXCEPT ![r] = label]
                               /\ frame' = [frame EXCEPT ![r] = FrameOf(None, NoLease, status)]
                               /\ status \in Status
          /\ UNCHANGED <<db, file, server, told, forgotten>>
      BY <1>3 DEF OtherRequest, Handled, Raised, Status
    <2> QED
      BY <1>0, <2>1, EmptyFrame DEF LeaseInv, TypeInv, LeaseIn
  <1>4. ASSUME NEW r \in Requests, NEW u \in Users, CheckRole(r, u) PROVE LeaseInv'
    <2>1. CASE UNCHANGED frame /\ pc' = [pc EXCEPT ![r] = "reset"]
      BY <1>0, <1>4, <2>1 DEF CheckRole, LeaseInv, TypeInv, LeaseIn
    <2>2. CASE Handled(r, None, NoLease, "403")
      BY <1>0, <1>4, <2>2, EmptyFrame DEF CheckRole, Handled, Status, LeaseInv, TypeInv, LeaseIn
    <2> QED
      BY <1>4, <2>1, <2>2 DEF CheckRole
  <1>5. ASSUME NEW r \in Requests, GetReset(r) PROVE LeaseInv'
    <2>1. /\ db' = file /\ file' = file /\ file # Torn /\ server' = server /\ server = "up"
          /\ told' = told
          /\ pc' = [pc EXCEPT ![r] = "save"]
          /\ frame' = [frame EXCEPT ![r] = FrameOf(None, NoLease, "200")]
          /\ forgotten' = forgotten \cup
                            {x \in Experiments : LeaseIn(db, x) # LeaseIn(file, x)}
      BY <1>0, <1>5 DEF GetReset, Handled, FileInv, LoopFree
    <2>2. /\ frame'[r].lease = NoLease
          /\ \A q \in Requests \ {r} : frame'[q] = frame[q] /\ pc'[q] = pc[q]
      BY <1>0, <2>1, EmptyFrame DEF TypeInv, Status
    <2>3. \A q \in Requests :
            /\ frame[q].experiment_id \in Experiments \cup {None}
            /\ frame[q].lease # NoLease => frame[q].experiment_id # None
      BY <1>0 DEF TypeInv, Frame
    <2>4. \A q \in Requests :
            frame'[q].lease # NoLease /\ frame'[q].experiment_id \notin forgotten' =>
              LeaseIn(file, frame'[q].experiment_id) = frame'[q].lease
      BY <1>0, <2>1, <2>2, <2>3 DEF LeaseInv
    <2>5. \A y \in Experiments \ forgotten' : told'[y] # NoLease => LeaseIn(file, y) = told'[y]
      BY <1>0, <2>1 DEF LeaseInv
    <2> QED
      BY <2>1, <2>4, <2>5 DEF LeaseInv, LeaseIn
  <1>6. ASSUME NEW r \in Requests, SaveDb(r) PROVE LeaseInv'
    BY <1>0, <1>6 DEF SaveDb, LeaseInv, TypeInv, LeaseIn
  <1>7. ASSUME NEW r \in Requests, WriteDb(r) PROVE LeaseInv'
    BY <1>0, <1>7 DEF WriteDb, LeaseInv, TypeInv, LeaseIn
  <1>8. ASSUME NEW r \in Requests, Respond(r) PROVE LeaseInv'
    <2>1. /\ UNCHANGED <<db, file, server, forgotten>> /\ server = "up" /\ pc[r] = "respond"
          /\ frame'[r] = NoFrame
          /\ \A q \in Requests \ {r} : frame'[q] = frame[q] /\ pc'[q] = pc[q]
      BY <1>0, <1>8 DEF Respond, LoopFree, TypeInv
    <2>2. \A x \in Experiments :
            \/ told'[x] = told[x]
            \/ frame[r].experiment_id = x /\ told'[x] = frame[r].lease
      BY <1>0, <1>8 DEF Respond, TypeInv
    <2> QED
      BY <1>0, <2>1, <2>2, NoFrameType DEF LeaseInv, LeaseIn
  <1>9. CASE Boot
    BY <1>0, <1>9, NoFrameType DEF Boot, FileInv, LeaseInv, LeaseIn
  <1>10. CASE Shutdown
    BY <1>0, <1>10 DEF Shutdown, LeaseInv, LeaseIn
  <1>11. CASE FinishShutdown
    BY <1>0, <1>11 DEF FinishShutdown, LeaseInv, LeaseIn
  <1>12. CASE Crash
    BY <1>0, <1>12, NoFrameType DEF Crash, LeaseInv, LeaseIn
  <1>13. ASSUME NEW admins \in SUBSET Users, EditFile(admins) PROVE LeaseInv'
    <2>1. file' = [file EXCEPT !.admins = admins] /\ file \in Database /\ file # Torn
      BY <1>13 DEF EditFile, Inv, DbsInv, DbInv
    <2>2. \A x \in Experiments : LeaseIn(file', x) = LeaseIn(file, x)
      BY <2>1 DEF LeaseIn, Database
    <2> QED
      BY <1>0, <1>13, <2>1, <2>2 DEF EditFile, LeaseInv, LeaseIn
  <1>14. CASE UNCHANGED vars
    BY <1>0, <1>14 DEF vars, LeaseInv, LeaseIn
  <1> QED
    BY <1>1, <1>2, <1>3, <1>4, <1>5, <1>6, <1>7, <1>8, <1>9, <1>10, <1>11, <1>12, <1>13, <1>14
       DEF Next

LEMMA EditNext == Inv /\ [Next]_vars => EditInv'
  <1> SUFFICES ASSUME Inv, [Next]_vars PROVE EditInv'
    OBVIOUS
  <1>0. /\ FileInv /\ EditInv /\ DbInv(db)
        /\ edited \in [admins : SUBSET Users, fate : {"waiting", "loaded", "overwritten"}]
        /\ file # Torn => file \in Database
    BY DEF Inv, DbsInv, DbInv, TypeInv
  <1>1. ASSUME UNCHANGED <<file, server, edited>>, db'.admins = db.admins PROVE EditInv'
    BY <1>0, <1>1 DEF EditInv, LoadedEditStays
  <1>2. ASSUME NEW r \in Requests, NEW x \in Experiments, PostPrefix(r, x) PROVE EditInv'
    BY <1>0, <1>1, <1>2, PostEffect DEF PostPrefix
  <1>3. ASSUME NEW r \in Requests, NEW x \in Experiments, DeletePrefix(r, x) PROVE EditInv'
    BY <1>0, <1>1, <1>3, DeleteEffect DEF DeletePrefix
  <1>4. ASSUME NEW r \in Requests, \/ OtherRequest(r) \/ Respond(r)
                                  \/ \E u \in Users : CheckRole(r, u)
        PROVE EditInv'
    BY <1>1, <1>4 DEF OtherRequest, Respond, CheckRole
  <1>5. ASSUME NEW r \in Requests, GetReset(r) PROVE EditInv'
    <2>1. db' = file /\ file' = file /\ file # Torn /\ server' = server /\ edited' = Fate("loaded")
      BY <1>0, <1>5 DEF GetReset, FileInv
    <2>2. file.admins = edited.admins \/ edited.fate = "overwritten"
      BY <1>0, <2>1 DEF EditInv, LoadedEditStays
    <2>3. /\ edited'.admins = edited.admins /\ edited'.fate # "waiting"
          /\ edited.fate = "overwritten" => edited'.fate = "overwritten"
      BY <1>0, <2>1 DEF Fate
    <2> QED
      BY <2>1, <2>2, <2>3 DEF EditInv, LoadedEditStays
  <1>6. ASSUME edited' = Fate("overwritten"), file' = Torn, db' = db, server # "down"
        PROVE EditInv'
    <2>1. /\ edited'.admins = edited.admins /\ edited'.fate # "waiting"
          /\ edited'.fate = "loaded" => edited.fate = "loaded"
      BY <1>0, <1>6 DEF Fate
    <2> QED
      BY <1>0, <1>6, <2>1 DEF EditInv, LoadedEditStays
  <1>7. ASSUME NEW r \in Requests, SaveDb(r) PROVE EditInv'
    BY <1>6, <1>7 DEF SaveDb, LoopFree
  <1>8. CASE Shutdown
    BY <1>6, <1>8 DEF Shutdown
  <1>9. ASSUME file = Torn, file' = db, db' = db, server # "down", edited' = edited PROVE EditInv'
    BY <1>0, <1>9 DEF EditInv, LoadedEditStays, FileInv
  <1>10. ASSUME NEW r \in Requests, WriteDb(r) PROVE EditInv'
    BY <1>0, <1>9, <1>10 DEF WriteDb, FileInv
  <1>11. CASE FinishShutdown
    BY <1>0, <1>9, <1>11 DEF FinishShutdown, FileInv
  <1>12. CASE Boot
    <2>1. /\ edited'.admins = edited.admins /\ edited'.fate # "waiting"
          /\ edited'.fate = "loaded" => file.admins = edited.admins
      BY <1>0, <1>12 DEF Boot, Fate, EditInv, LoadedEditStays
    <2> QED
      BY <1>12, <2>1 DEF Boot, EditInv, LoadedEditStays
  <1>13. CASE Crash
    BY <1>0, <1>13 DEF Crash, EditInv, LoadedEditStays
  <1>14. ASSUME NEW admins \in SUBSET Users, EditFile(admins) PROVE EditInv'
    <2>1. /\ file \in Database /\ file' = [file EXCEPT !.admins = admins]
          /\ edited' = [admins |-> admins, fate |-> "waiting"]
      BY <1>0, <1>14 DEF EditFile
    <2>2. file'.admins = admins /\ edited'.admins = admins /\ edited'.fate = "waiting"
      BY <2>1 DEF Database
    <2> QED
      BY <2>2 DEF EditInv, LoadedEditStays
  <1>15. CASE UNCHANGED vars
    BY <1>1, <1>15 DEF vars
  <1> QED
    BY <1>2, <1>3, <1>4, <1>5, <1>7, <1>8, <1>10, <1>11, <1>12, <1>13, <1>14, <1>15 DEF Next

LEMMA Invariance == Spec => []Inv
  <1>1. Inv /\ [Next]_vars => Inv'
    BY TypeNext, DbsNext, FileNext, LeaseNext, EditNext DEF Inv
  <1> QED
    BY <1>1, InvInit, PTL DEF Spec

-----------------------------------------------------------------------------
(***************************************************************************)
(* The variables keep their types: the global db is always a database,     *)
(* and /db.json is one or is torn.                                         *)
(***************************************************************************)
THEOREM LegacyTypeCorrect == Spec => []TypeOK
  <1>1. Inv => TypeOK
    BY DEF Inv, DbsInv, DbInv, TypeInv, TypeOK, Frame
  <1> QED
    BY <1>1, Invariance, PTL

(***************************************************************************)
(* Every address is free or of one experiment, in the db and in the file,  *)
(* whatever post_prefix and get_prefix do and wherever a handler, a save   *)
(* or the server stops.                                                    *)
(***************************************************************************)
THEOREM IpsInOnePlaceAlways == Spec => []IpsInOnePlace
  <1>1. Inv => IpsInOnePlace
    <2> SUFFICES ASSUME Inv, NEW d \in Databases, NEW ip \in Ips
                 PROVE  Places(d.ips, d.metallb, ip) = 1
      BY DEF IpsInOnePlace
    <2>1. DbInv(d)
      BY DEF Databases, Inv, DbsInv
    <2> QED
      BY <2>1, OnePlaceCounted DEF DbInv
  <1> QED
    BY <1>1, Invariance, PTL

(***************************************************************************)
(* So is every subnet, unless the experiment that has it got no address    *)
(* with it, which is where get_prefix fails halfway.                       *)
(***************************************************************************)
THEOREM SubnetsInOnePlaceAlways == Spec => []SubnetsInOnePlace
  <1>1. Inv => SubnetsInOnePlace
    <2> SUFFICES ASSUME Inv, NEW d \in Databases, NEW s \in Subnets
                 PROVE  Places(d.subnets, d.cluster, s) = 1 \/ Starved(d, s)
      BY DEF SubnetsInOnePlace, Starved
    <2>1. DbInv(d)
      BY DEF Databases, Inv, DbsInv
    <2> QED
      BY <2>1, OnePlaceCounted DEF DbInv
  <1> QED
    BY <1>1, Invariance, PTL

(***************************************************************************)
(* An edit of the roles that the server has read (load_db, at import and   *)
(* in /reset/) stays in the db and in every save that follows.             *)
(***************************************************************************)
THEOREM LoadedEditStaysAlways == Spec => []LoadedEditStays
  <1>1. Inv => LoadedEditStays
    BY DEF Inv, EditInv
  <1> QED
    BY <1>1, Invariance, PTL

(***************************************************************************)
(* An experiment that no reset forgot is told one lease until it asks for  *)
(* its release, after a crash and a restart too.                           *)
(***************************************************************************)
THEOREM OncePerExperimentAlways == Spec => OncePerExperiment
  <1> DEFINE Once == \A x \in Experiments \ forgotten :
                       told[x] # NoLease /\ told'[x] # NoLease => told'[x] = told[x]
  <1>1. Inv /\ [Next]_vars => [Once]_vars
    <2> SUFFICES ASSUME Inv, Next PROVE Once
      BY DEF vars
    <2>1. ASSUME NEW r \in Requests, Respond(r) PROVE Once
      <3>1. server = "up" /\ told \in [Experiments -> Lease \cup {NoLease}]
        BY <2>1 DEF Respond, LoopFree, Inv, TypeInv
      <3>2. \/ told' = told
            \/ /\ frame[r].lease # NoLease
               /\ told' = [told EXCEPT ![frame[r].experiment_id] = frame[r].lease]
        BY <2>1 DEF Respond
      <3>3. \A x \in Experiments \ forgotten :
              /\ told[x] # NoLease => LeaseIn(db, x) = told[x]
              /\ frame[r].lease # NoLease /\ frame[r].experiment_id = x =>
                   LeaseIn(db, x) = frame[r].lease
        BY <3>1 DEF Inv, LeaseInv
      <3> QED
        BY <3>1, <3>2, <3>3
    <2>2. ASSUME NEW r \in Requests, NEW x \in Experiments, DeletePrefix(r, x) PROVE Once
      BY <2>2 DEF DeletePrefix, GiveUp, Inv, TypeInv
    <2>3. ASSUME told' = told PROVE Once
      BY <2>3
    <2> QED
      BY <2>1, <2>2, <2>3
         DEF Next, PostPrefix, OtherRequest, CheckRole, GetReset, SaveDb, WriteDb, Boot,
             Shutdown, FinishShutdown, Crash, EditFile
  <1> QED
    BY <1>1, Invariance, PTL DEF Spec, OncePerExperiment

-----------------------------------------------------------------------------
(***************************************************************************)
(* Without resets, nothing is forgotten.                                   *)
(***************************************************************************)
NoReset == forgotten = {} /\ \A r \in Requests : pc[r] # "reset"

LEMMA NoResetAlways == ASSUME MaxResets = 0 PROVE Spec => []NoReset
  <1>1. Init => NoReset
    BY DEF Init, NoReset
  <1>2. Inv /\ NoReset /\ [Next]_vars => NoReset'
    <2> SUFFICES ASSUME Inv, NoReset, [Next]_vars PROVE NoReset'
      OBVIOUS
    <2>0. pc \in [Requests -> {"idle", "reset", "save", "write", "respond"}]
      BY DEF Inv, TypeInv
    <2>1. ASSUME NEW r \in Requests, NEW x \in Experiments, PostPrefix(r, x) PROVE NoReset'
      BY <2>0, <2>1 DEF PostPrefix, Handled, Raised, NoReset
    <2>2. ASSUME NEW r \in Requests, NEW x \in Experiments, DeletePrefix(r, x) PROVE NoReset'
      BY <2>0, <2>2 DEF DeletePrefix, NoReset
    <2>3. ASSUME NEW r \in Requests, NEW u \in Users, CheckRole(r, u) PROVE NoReset'
      BY <2>3 DEF CheckRole, Inv, TypeInv
    <2>4. ASSUME NEW r \in Requests, OtherRequest(r) PROVE NoReset'
      BY <2>0, <2>4 DEF OtherRequest, Handled, Raised, NoReset
    <2>5. ASSUME NEW r \in Requests, GetReset(r) PROVE NoReset'
      BY <2>5 DEF GetReset, NoReset
    <2>6. ASSUME NEW r \in Requests, SaveDb(r) \/ WriteDb(r) \/ Respond(r) PROVE NoReset'
      BY <2>0, <2>6 DEF SaveDb, WriteDb, Respond, NoReset
    <2>7. CASE Boot \/ Shutdown \/ FinishShutdown \/ Crash
      BY <2>0, <2>7 DEF Boot, Shutdown, FinishShutdown, Crash, NoReset
    <2>8. ASSUME NEW admins \in SUBSET Users, EditFile(admins) PROVE NoReset'
      BY <2>8 DEF EditFile, NoReset
    <2>9. CASE UNCHANGED vars
      BY <2>9 DEF vars, NoReset
    <2> QED
      BY <2>1, <2>2, <2>3, <2>4, <2>5, <2>6, <2>7, <2>8, <2>9 DEF Next
  <1> QED
    BY <1>1, <1>2, Invariance, PTL DEF Spec

(***************************************************************************)
(* Until a reset drops an allocation, what was told is in the file a       *)
(* restart would load: the middleware saves before the answer is sent.     *)
(***************************************************************************)
THEOREM DurableUntilReset == Spec => [](forgotten = {} => ToldIsDurable)
  <1>1. Inv => (forgotten = {} => ToldIsDurable)
    BY DEF Inv, LeaseInv, ToldIsDurable
  <1> QED
    BY <1>1, Invariance, PTL

(***************************************************************************)
(* So it always is when GET /reset/ is not used.                           *)
(***************************************************************************)
THEOREM ToldIsDurableAlways == ASSUME MaxResets = 0 PROVE Spec => []ToldIsDurable
  <1>1. NoReset => forgotten = {}
    BY DEF NoReset
  <1> QED
    BY <1>1, NoResetAlways, DurableUntilReset, PTL

-----------------------------------------------------------------------------
(***************************************************************************)
(* The promise of LeaseRegistry: with an address for every subnet no       *)
(* experiment is left with a subnet alone.                                 *)
(***************************************************************************)
EnoughIps == Len(InitialIps) >= Len(InitialSubnets)

Plenty(d) ==
  /\ Len(d.ips) >= Len(d.subnets)
  /\ \A x \in Experiments : d.cluster[x] # None => d.metallb[x] # None

PlentyInv == Plenty(db) /\ (file # Torn => Plenty(file))

LEMMA PlentyPost ==
  ASSUME DbInv(db), Plenty(db), NEW r \in Requests, NEW x \in Experiments, PostPrefix(r, x)
  PROVE  Plenty(db')
  <1>1. /\ db \in Database /\ None \notin Subnets /\ None \notin Ips
        /\ db.subnets \in Seq(Subnets) /\ db.ips \in Seq(Ips)
    BY NoneAssumption DEF DbInv, Database
  <1>2. CASE UNCHANGED db
    BY <1>2
  <1>3. CASE ~Allocated(x) /\ db.subnets # <<>> /\ db.ips = <<>>
    <2>1. Len(db.subnets) \in Nat \ {0} /\ Len(db.ips) = 0
      BY <1>1, <1>3, FrontProperties, EmptySeq
    <2> QED
      BY <2>1 DEF Plenty
  <1>4. CASE ~Allocated(x) /\ db.subnets # <<>> /\ db.ips # <<>> /\ db' = TakeBoth(x)
    <2>1. /\ Len(db.subnets) \in Nat \ {0} /\ Len(Front(db.subnets)) = Len(db.subnets) - 1
          /\ Len(db.ips) \in Nat \ {0} /\ Len(Front(db.ips)) = Len(db.ips) - 1
          /\ Last(db.ips) \in Ips
      BY <1>1, <1>4, FrontProperties
    <2>2. /\ db'.subnets = Front(db.subnets) /\ db'.ips = Front(db.ips)
          /\ db'.cluster = [db.cluster EXCEPT ![x] = Last(db.subnets)]
          /\ db'.metallb = [db.metallb EXCEPT ![x] = Last(db.ips)]
      BY <1>1, <1>4 DEF TakeBoth, Database
    <2>3. Len(db'.ips) >= Len(db'.subnets)
      BY <2>1, <2>2 DEF Plenty
    <2>4. \A y \in Experiments : db'.cluster[y] # None => db'.metallb[y] # None
      BY <1>1, <2>1, <2>2 DEF Plenty, Database
    <2> QED
      BY <2>3, <2>4 DEF Plenty
  <1> QED
    BY <1>2, <1>3, <1>4 DEF PostPrefix

LEMMA PlentyDelete ==
  ASSUME DbInv(db), Plenty(db), NEW r \in Requests, NEW x \in Experiments, DeletePrefix(r, x)
  PROVE  Plenty(db')
  <1>1. db \in Database /\ db.subnets \in Seq(Subnets) /\ db.ips \in Seq(Ips)
    BY DEF DbInv, Database
  <1>2. CASE UNCHANGED db
    BY <1>2
  <1>3. CASE db.cluster[x] # None /\ db.metallb[x] # None /\ db' = ReturnBoth(x)
    <2>1. db.cluster[x] \in Subnets /\ db.metallb[x] \in Ips
      BY <1>1, <1>3 DEF Database
    <2>2. /\ Len(db.subnets) \in Nat /\ Len(db.ips) \in Nat
          /\ Len(Append(db.subnets, db.cluster[x])) = Len(db.subnets) + 1
          /\ Len(Append(db.ips, db.metallb[x])) = Len(db.ips) + 1
      BY <1>1, <2>1, AppendProperties, LenProperties
    <2>3. /\ db'.subnets = Append(db.subnets, db.cluster[x])
          /\ db'.ips = Append(db.ips, db.metallb[x])
          /\ db'.cluster = [db.cluster EXCEPT ![x] = None]
          /\ db'.metallb = [db.metallb EXCEPT ![x] = None]
      BY <1>1, <1>3 DEF ReturnBoth, Database
    <2>4. Len(db'.ips) >= Len(db'.subnets)
      BY <2>2, <2>3 DEF Plenty
    <2>5. \A y \in Experiments : db'.cluster[y] # None => db'.metallb[y] # None
      BY <1>1, <2>3 DEF Plenty, Database
    <2> QED
      BY <2>4, <2>5 DEF Plenty
  <1> QED
    BY <1>2, <1>3 DEF DeletePrefix, Plenty

LEMMA PlentyAlways == ASSUME EnoughIps PROVE Spec => []PlentyInv
  <1>1. Init => PlentyInv
    BY DEF Init, PlentyInv, Plenty, InitialDb, EnoughIps
  <1>2. Inv /\ PlentyInv /\ [Next]_vars => PlentyInv'
    <2> SUFFICES ASSUME Inv, PlentyInv, [Next]_vars PROVE PlentyInv'
      OBVIOUS
    <2> DEFINE Good == Plenty(db') /\ (file' # Torn => Plenty(file'))
    <2>0. /\ Plenty(db) /\ (file # Torn => Plenty(file)) /\ DbInv(db) /\ (LoopFree => file # Torn)
          /\ file # Torn => file \in Database
      BY DEF PlentyInv, Inv, DbsInv, FileInv, DbInv
    <2>1. ASSUME NEW r \in Requests, NEW x \in Experiments, PostPrefix(r, x) PROVE Good
      BY <2>0, <2>1, PlentyPost DEF PostPrefix
    <2>2. ASSUME NEW r \in Requests, NEW x \in Experiments, DeletePrefix(r, x) PROVE Good
      BY <2>0, <2>2, PlentyDelete DEF DeletePrefix
    <2>3. ASSUME NEW r \in Requests, GetReset(r) \/ SaveDb(r) \/ WriteDb(r) PROVE Good
      BY <2>0, <2>3 DEF GetReset, SaveDb, WriteDb
    <2>4. ASSUME Boot \/ Shutdown \/ FinishShutdown PROVE Good
      BY <2>0, <2>4 DEF Boot, Shutdown, FinishShutdown
    <2>5. ASSUME NEW admins \in SUBSET Users, EditFile(admins) PROVE Good
      <3>1. /\ file # Torn /\ file' = [file EXCEPT !.admins = admins] /\ db' = db
        BY <2>5 DEF EditFile
      <3>2. /\ file'.ips = file.ips /\ file'.subnets = file.subnets
            /\ file'.cluster = file.cluster /\ file'.metallb = file.metallb
        BY <2>0, <3>1 DEF Database
      <3> QED
        BY <2>0, <3>1, <3>2 DEF Plenty
    <2>6. ASSUME \/ UNCHANGED vars \/ Crash
                 \/ \E r \in Requests : OtherRequest(r) \/ Respond(r)
                                       \/ \E u \in Users : CheckRole(r, u)
          PROVE  Good
      BY <2>0, <2>6 DEF vars, Crash, OtherRequest, Respond, CheckRole
    <2>7. Good
      BY <2>1, <2>2, <2>3, <2>4, <2>5, <2>6 DEF Next
    <2> QED
      BY <2>7 DEF PlentyInv, Plenty
  <1> QED
    BY <1>1, <1>2, Invariance, PTL DEF Spec

\* What an experiment was told is of no other experiment.
LEMMA LeasesApart ==
  ASSUME DbInv(db), Plenty(db), NEW x \in Experiments, NEW y \in Experiments, x # y,
         LeaseIn(db, x) \in Lease, LeaseIn(db, y) \in Lease
  PROVE  db.cluster[x] # db.cluster[y] /\ db.metallb[x] # db.metallb[y]
  <1>1. /\ db.cluster[x] \in Subnets /\ db.metallb[x] \in Ips
        /\ db.cluster[y] \in Subnets /\ db.metallb[y] \in Ips
    BY DEF LeaseIn, Lease
  <1>2. db.metallb[x] # db.metallb[y]
    BY <1>1 DEF DbInv, InOnePlace
  <1>3. ~Starved(db, db.cluster[x])
    BY <1>1, NoneAssumption DEF Starved, Plenty
  <1>4. db.cluster[x] # db.cluster[y]
    BY <1>1, <1>3 DEF DbInv, InOnePlace
  <1> QED
    BY <1>2, <1>4

\* The response tells what keeps clear of what the others were told.
LEMMA RespondTells ==
  ASSUME Inv, NoReset, Plenty(db), NEW r \in Requests, Respond(r), frame[r].lease # NoLease
  PROVE  \E l \in Registry!Lease : Registry!Tell(l)
  <1> DEFINE x == frame[r].experiment_id
             lease == frame[r].lease
             l == [experiment_id |-> x, ip |-> lease.lb, prefix |-> lease.subnet,
                   expiration_time |-> 0]
  <1>1. x \in Experiments /\ lease \in Lease /\ told \in [Experiments -> Lease \cup {NoLease}]
    BY DEF Inv, TypeInv, Frame
  <1>2. told' = [told EXCEPT ![x] = lease] /\ server = "up"
    BY DEF Respond, LoopFree
  <1>3. LeaseIn(db, x) = lease /\ DbInv(db) /\ NoLease \notin Lease
    BY <1>1, NoneAssumption DEF Inv, LeaseInv, DbsInv, NoReset, NoLease, Lease
  <1>4. \A y \in Experiments : told[y] # NoLease => LeaseIn(db, y) = told[y]
    BY <1>2 DEF Inv, LeaseInv, NoReset
  <1> HIDE DEF x, lease
  <1>5. l \in Registry!Lease
    BY <1>1 DEF Lease, Registry!Lease
  <1>6. ASSUME NEW m \in HeldLeases
        PROVE  IF m.experiment_id = l.experiment_id THEN m = l ELSE ~Registry!Overlap(l, m)
    <2>1. PICK y \in Experiments :
            /\ told[y] # NoLease
            /\ m = [experiment_id |-> y, ip |-> told[y].lb, prefix |-> told[y].subnet,
                    expiration_time |-> 0]
      BY DEF HeldLeases
    <2>2. LeaseIn(db, y) = told[y] /\ told[y] \in Lease
      BY <1>1, <1>4, <2>1
    <2>3. CASE y = x
      BY <1>3, <2>1, <2>2, <2>3
    <2>4. CASE y # x
      <3>1. db.cluster[x] # db.cluster[y] /\ db.metallb[x] # db.metallb[y]
        BY <1>1, <1>3, <2>2, <2>4, LeasesApart
      <3>2. lease.lb # told[y].lb /\ lease.subnet # told[y].subnet
        BY <1>3, <2>2, <3>1 DEF LeaseIn
      <3> QED
        BY <2>1, <2>4, <3>2 DEF Registry!Overlap
    <2> QED
      BY <2>3, <2>4
  <1>7. HeldLeases' = {m \in HeldLeases : m.experiment_id # x} \cup {l}
    <2>1. /\ told'[x] = lease /\ lease # NoLease
          /\ \A y \in Experiments \ {x} : told'[y] = told[y]
      BY <1>1, <1>2, <1>3
    <2>2. ASSUME NEW m \in HeldLeases' PROVE m \in {k \in HeldLeases : k.experiment_id # x} \cup {l}
      <3>1. PICK y \in Experiments :
              /\ told'[y] # NoLease
              /\ m = [experiment_id |-> y, ip |-> told'[y].lb, prefix |-> told'[y].subnet,
                      expiration_time |-> 0]
        BY <2>2 DEF HeldLeases
      <3>2. CASE y = x
        BY <2>1, <3>1, <3>2
      <3>3. CASE y # x
        BY <2>1, <3>1, <3>3 DEF HeldLeases
      <3> QED
        BY <3>2, <3>3
    <2>3. ASSUME NEW m \in HeldLeases, m.experiment_id # x PROVE m \in HeldLeases'
      BY <2>1, <2>3 DEF HeldLeases
    <2>4. l \in HeldLeases'
      BY <1>1, <2>1 DEF HeldLeases
    <2> HIDE DEF l
    <2> QED
      BY <2>2, <2>3, <2>4
  <1>8. l.experiment_id = x
    OBVIOUS
  <1> HIDE DEF l
  <1>9. Registry!Tell(l)
    BY <1>6, <1>7, <1>8 DEF Registry!Tell
  <1> QED
    BY <1>5, <1>9

\* A DELETE releases what its experiment was told, before anything is given back.
LEMMA DeleteReleases ==
  ASSUME Inv, NEW r \in Requests, NEW x \in Experiments, DeletePrefix(r, x)
  PROVE  Registry!Release(x)
  <1>1. /\ told'[x] = NoLease /\ \A y \in Experiments \ {x} : told'[y] = told[y]
    BY DEF DeletePrefix, GiveUp, Inv, TypeInv
  <1>2. ASSUME NEW m \in HeldLeases' PROVE m \in HeldLeases /\ m.experiment_id # x
    BY <1>1, <1>2 DEF HeldLeases
  <1>3. ASSUME NEW m \in HeldLeases, m.experiment_id # x PROVE m \in HeldLeases'
    BY <1>1, <1>3 DEF HeldLeases
  <1>4. HeldLeases' = {m \in HeldLeases : m.experiment_id # x}
    BY <1>2, <1>3
  <1> QED
    BY <1>4 DEF Registry!Release

LEMMA RegistryStep ==
  ASSUME Inv, NoReset, PlentyInv, [Next]_vars
  PROVE  [Registry!RegistryNext]_Registry!registryVars
  <1> USE DEF Registry!RegistryNext
  <1>1. ASSUME told' = told PROVE UNCHANGED Registry!registryVars
    BY <1>1 DEF HeldLeases, Registry!registryVars
  <1>2. ASSUME NEW r \in Requests, Respond(r), frame[r].lease # NoLease
        PROVE  Registry!RegistryNext
    BY <1>2, RespondTells DEF PlentyInv
  <1>3. ASSUME NEW r \in Requests, Respond(r), frame[r].lease = NoLease PROVE told' = told
    BY <1>3 DEF Respond
  <1>4. ASSUME NEW r \in Requests, NEW x \in Experiments, DeletePrefix(r, x)
        PROVE  Registry!RegistryNext
    BY <1>4, DeleteReleases
  <1>5. ASSUME NEW r \in Requests,
               \/ \E x \in Experiments : PostPrefix(r, x)
               \/ \E u \in Users : CheckRole(r, u)
               \/ OtherRequest(r) \/ GetReset(r) \/ SaveDb(r) \/ WriteDb(r)
        PROVE  told' = told
    BY <1>5 DEF PostPrefix, CheckRole, OtherRequest, GetReset, SaveDb, WriteDb
  <1>6. ASSUME \/ Boot \/ Shutdown \/ FinishShutdown \/ Crash \/ UNCHANGED vars
               \/ \E admins \in SUBSET Users : EditFile(admins)
        PROVE  told' = told
    BY <1>6 DEF Boot, Shutdown, FinishShutdown, Crash, vars, EditFile
  <1> QED
    BY <1>1, <1>2, <1>3, <1>4, <1>5, <1>6 DEF Next

(***************************************************************************)
(* Without resets, and with an address for every subnet, the older         *)
(* allocator keeps the promise of LeaseRegistry through every crash: a     *)
(* response to POST tells a lease that overlaps no other, a DELETE         *)
(* releases one, and nothing else changes what the experiments hold.       *)
(***************************************************************************)
THEOREM LegacyImplementsRegistry ==
  ASSUME MaxResets = 0, EnoughIps PROVE Spec => ImplementsRegistry
  <1>1. Init => Registry!RegistryInit
    BY DEF Init, HeldLeases, Registry!RegistryInit
  <1>2. Inv /\ NoReset /\ PlentyInv /\ [Next]_vars =>
          [Registry!RegistryNext]_Registry!registryVars
    BY RegistryStep
  <1> QED
    BY <1>1, <1>2, Invariance, NoResetAlways, PlentyAlways, PTL
       DEF Spec, ImplementsRegistry, Registry!RegistrySpec

=============================================================================
