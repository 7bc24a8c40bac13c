---------------------------- MODULE Host_proofs ----------------------------
(***************************************************************************)
(* What iscsiadm says of a card is true, for every table of CHAP entries,   *)
(* every size of an answer, every number of pings and every pair of         *)
(* commands: the listing is complete and names no entry twice, a ping that  *)
(* is reported completed was completed, and flash nodes keep what updates   *)
(* of other parameters do not name.                                         *)
(***************************************************************************)
EXTENDS Host, FiniteSetTheorems, WellFoundedInduction, TLAPS

AdmFields == {"cmd", "pc", "rc", "recs", "cnt", "used", "changed", "left", "idx", "out", "v4", "nl", "sent",
              "completed"}

CardFields == {"chap", "max", "nodes", "flash", "pings", "good"}

Shape ==
  /\ DOMAIN adm = Admins
  /\ \A p \in Admins : DOMAIN adm[p] = AdmFields
  /\ DOMAIN card = CardFields
  /\ card.nodes = DOMAIN card.flash
  /\ \A n \in card.nodes : DOMAIN card.flash[n] = {"st", "v4", "set"}

(* The table is finite: it has a last index. *)
TableEnds == card.chap \subseteq Nat /\ \E b \in Nat : \A i \in card.chap : i <= b

IndexType == \A p \in Admins : adm[p].idx \in Nat /\ adm[p].cmd.idx \in Nat /\ adm[p].cmd.second \in Nat

(* Another process writes entry i. *)
Added(p, i) == \E q \in Admins \ {p} : adm[q].cmd.op = "chap_new" /\ adm[q].cmd.idx = i

(* While the listing goes on, it has printed what is before idx, once. *)
ListedOnce ==
  \A p \in Admins :
    /\ \A e \in adm[p].out : e \in Nat \X {1}
    /\ adm[p].pc = "start" => \A e \in adm[p].out : e[1] < adm[p].idx

ListedAll ==
  \A p \in Admins : adm[p].cmd.op = "chap_show" =>
    /\ adm[p].pc = "start" =>
         /\ adm[p].rc # "bytes"
         /\ \A i \in card.chap : i < adm[p].idx => <<i, 1>> \in adm[p].out \/ Added(p, i)
    /\ adm[p].rc = "bytes" => \A i \in card.chap : <<i, 1>> \in adm[p].out \/ Added(p, i)

(* A completion with status 0 that waits in a socket has the id of a ping that was answered. *)
Event == (Nat \X Nat) \X {0, 1}

GoodIds == {PingId(ping[1], ping[2]) : ping \in card.good}

TrueEvents(s, good) == s \in Seq(Event) /\ \A k \in 1..Len(s) : s[k][2] = 0 => s[k][1] \in good

EventsTrue == \A p \in Admins : adm[p].sent \in Nat /\ TrueEvents(adm[p].nl, GoodIds)

PingsTrue == \A p \in Admins : \A k \in adm[p].completed : PingId(p, k) \in GoodIds

ChapInv == TableEnds /\ IndexType /\ ListedOnce /\ ListedAll

PingInv == card.pings \subseteq Admins \X Nat /\ card.good \subseteq Admins \X Nat /\ EventsTrue /\ PingsTrue

HostInv == Shape /\ ChapInv /\ PingInv

-----------------------------------------------------------------------------
LEMMA Least == ASSUME NEW T, T \subseteq Nat, T # {} PROVE \E x \in T : \A y \in T : x <= y
<1> DEFINE R == OpToRel(<, Nat)
<1>1. IsWellFoundedOn(R, Nat)
  BY NatLessThanWellFounded, Zenon
<1>2. \A x, y \in Nat : y < x => <<y, x>> \in R
  BY DEF OpToRel
<1> HIDE DEF R
<1>3. PICK x \in T : \A y \in T : ~ (<<y, x>> \in R)
  BY <1>1, WFMin
<1>4. \A y \in T : ~(y < x)
  BY <1>2, <1>3, Zenon
<1>5. \A y \in T : x <= y
  BY <1>4
<1>6. QED
  BY <1>5

LEMMA Greatest ==
  ASSUME NEW T, T \subseteq Nat, T # {}, NEW b \in Nat, \A y \in T : y <= b
  PROVE  Max(T) \in T /\ \A y \in T : y <= Max(T)
<1> DEFINE U == {n \in Nat : \A y \in T : y <= n}
<1>1. PICK u \in U : \A n \in U : u <= n
  <2>1. U \subseteq Nat /\ b \in U
    OBVIOUS
  <2> HIDE DEF U
  <2>2. QED
    BY <2>1, Least
<1>2. u \in T
  <2> SUFFICES ASSUME u \notin T PROVE FALSE
    OBVIOUS
  <2>1. PICK t \in T : TRUE
    OBVIOUS
  <2>2. t \in Nat /\ u \in Nat /\ t < u
    BY <2>1
  <2>3. u - 1 \in Nat /\ \A y \in T : y <= u - 1
    BY <2>2
  <2>4. u - 1 \in U
    BY <2>3
  <2>5. QED
    BY <2>2, <2>4, <1>1
<1>3. \A x \in T : (\A y \in T : x >= y) => x = u
  BY <1>1, <1>2
<1>4. u \in T /\ \A y \in T : u >= y
  BY <1>1, <1>2
<1>5. Max(T) = u
  BY <1>3, <1>4 DEF Max
<1>6. QED
  BY <1>4, <1>5

(* One answer of ISCSI_UEVENT_GET_CHAP: the entries from idx on without a gap; *)
(* an answer that is not full is the last one.                                *)
LEMMA AnswerIsPrefix ==
  ASSUME TableEnds, NEW idx \in Nat
  PROVE  LET got == GetChap(idx)
         IN /\ \A i \in got : i \in card.chap /\ i >= idx
            /\ Cardinality(got) = NumEntries =>
                 /\ Max(got) \in got /\ \A i \in got : i <= Max(got)
                 /\ \A j \in card.chap : idx <= j /\ j <= Max(got) => j \in got
            /\ Cardinality(got) # NumEntries => \A j \in card.chap : idx <= j => j \in got
<1> DEFINE Below(i) == {j \in card.chap : idx <= j /\ j < i}
           got == GetChap(idx)
<1>0. card.chap \subseteq Nat /\ NumEntries \in Nat /\ NumEntries # 0
  BY HostAssumption DEF TableEnds
<1>1. PICK b \in Nat : \A i \in card.chap : i <= b
  BY DEF TableEnds
<1>2. IsFiniteSet(card.chap)
  BY <1>0, <1>1, FS_BoundedSetOfNaturals
<1>3. \A i : IsFiniteSet(Below(i)) /\ Cardinality(Below(i)) \in Nat
  BY <1>2, FS_Subset, FS_CardinalityType
<1>4. \A i : i \in got <=> i \in card.chap /\ i >= idx /\ Cardinality(Below(i)) < NumEntries
  BY DEF GetChap
<1>a. \A i \in got : i \in card.chap /\ i \in Nat /\ idx <= i
  BY <1>0 DEF GetChap
<1>5. IsFiniteSet(got) /\ Cardinality(got) \in Nat
  BY <1>2, <1>4, FS_Subset, FS_CardinalityType
<1>6. \A i, j \in card.chap : j <= i => Cardinality(Below(j)) <= Cardinality(Below(i))
  <2> SUFFICES ASSUME NEW i \in card.chap, NEW j \in card.chap, j <= i
               PROVE Cardinality(Below(j)) <= Cardinality(Below(i))
    OBVIOUS
  <2>1. Below(j) \subseteq Below(i)
    BY <1>0
  <2> HIDE DEF Below
  <2>2. QED
    BY <1>3, <2>1, FS_Subset
<1> HIDE DEF got
<1>7. \A i \in got : \A j \in card.chap : idx <= j /\ j <= i => j \in got
  <2> SUFFICES ASSUME NEW i \in got, NEW j \in card.chap, idx <= j, j <= i PROVE j \in got
    OBVIOUS
  <2> HIDE DEF Below
  <2>1. Cardinality(Below(j)) <= Cardinality(Below(i)) /\ Cardinality(Below(i)) < NumEntries
    BY <1>4, <1>6
  <2>2. Cardinality(Below(j)) < NumEntries
    BY <2>1, <1>0, <1>3
  <2>3. QED
    BY <1>0, <1>4, <2>2
<1>8. got # {} => Max(got) \in got /\ \A i \in got : i <= Max(got)
  BY <1>0, <1>1, <1>4, Greatest
<1>9. Cardinality(got) = NumEntries => got # {}
  BY <1>0, FS_EmptySet
<1>10. Cardinality(got) <= NumEntries
  <2>1. CASE got = {}
    BY <1>0, <2>1, FS_EmptySet
  <2>2. CASE got # {}
    <3> DEFINE m == Max(got)
    <3>1. m \in got /\ m \in Nat /\ \A i \in got : i \in Nat /\ i <= m
      BY <1>0, <1>4, <1>8, <2>2
    <3>2. \A i \in got : i # m => i \in Below(m)
      BY <1>a, <3>1
    <3>3. got \subseteq Below(m) \cup {m}
      BY <3>2
    <3> HIDE DEF Below, m
    <3>4. IsFiniteSet(Below(m) \cup {m}) /\ Cardinality(Below(m) \cup {m}) <= Cardinality(Below(m)) + 1
      BY <1>3, FS_AddElement
    <3>5. Cardinality(got) <= Cardinality(Below(m) \cup {m}) /\ Cardinality(Below(m) \cup {m}) \in Nat
      BY <3>3, <3>4, FS_Subset, FS_CardinalityType
    <3>6. Cardinality(Below(m)) < NumEntries
      BY <1>4, <3>1
    <3>7. QED
      BY <1>0, <1>3, <1>5, <3>4, <3>5, <3>6
  <2>3. QED
    BY <2>1, <2>2
<1>11. ASSUME NEW j \in card.chap, idx <= j, j \notin got PROVE Cardinality(got) = NumEntries
  <2> DEFINE Miss == {i \in card.chap : idx <= i /\ i \notin got}
  <2>1. PICK i \in Miss : \A k \in Miss : i <= k
    <3>1. Miss \subseteq Nat /\ Miss # {}
      BY <1>0, <1>11
    <3> HIDE DEF Miss
    <3>2. QED
      BY <3>1, Least
  <2>2. Below(i) \subseteq got
    BY <1>0, <2>1
  <2>a. i \in card.chap /\ i \in Nat /\ i >= idx /\ i \notin got
    BY <1>0, <2>1
  <2> HIDE DEF Below, Miss
  <2>3. Cardinality(Below(i)) >= NumEntries
    BY <1>0, <1>3, <1>4, <2>a
  <2>4. Cardinality(Below(i)) <= Cardinality(got)
    BY <1>5, <2>2, FS_Subset
  <2>5. QED
    BY <1>0, <1>3, <1>5, <1>10, <2>3, <2>4
<1>12. QED
  BY <1>4, <1>7, <1>8, <1>9, <1>11 DEF got

-----------------------------------------------------------------------------
(* Set changes the named fields of one process. *)
LEMMA SetGives ==
  ASSUME Shape, NEW p \in Admins, NEW f, DOMAIN f \subseteq AdmFields, Set(p, f)
  PROVE  /\ DOMAIN adm' = Admins
         /\ \A q \in Admins : DOMAIN adm'[q] = AdmFields
         /\ \A q \in Admins \ {p} : adm'[q] = adm[q]
         /\ \A x \in AdmFields : adm'[p][x] = IF x \in DOMAIN f THEN f[x] ELSE adm[p][x]
BY DEF Set, Shape

(* What a step does that lists no CHAP entries. *)
ChapFrame ==
  /\ \A q \in Admins :
       /\ adm'[q].cmd = adm[q].cmd /\ adm'[q].out = adm[q].out /\ adm'[q].idx = adm[q].idx
       /\ adm'[q].pc = "start" => adm[q].pc = "start"
       /\ adm[q].cmd.op = "chap_show" => adm'[q].rc = adm[q].rc
  /\ \/ card'.chap \subseteq card.chap
     \/ \E q \in Admins : adm[q].cmd.op = "chap_new" /\ card'.chap = card.chap \cup {adm[q].cmd.idx}

(* What a step does that pings nobody. *)
PingFrame ==
  /\ \A q \in Admins :
       /\ adm'[q].cmd = adm[q].cmd /\ adm'[q].sent = adm[q].sent
       /\ adm'[q].nl = adm[q].nl /\ adm'[q].completed = adm[q].completed
  /\ card'.good = card.good /\ card'.pings = card.pings

LEMMA ChapFrameKeeps == ASSUME ChapInv, ChapFrame PROVE ChapInv'
<1>1. IndexType'
  BY DEF ChapInv, ChapFrame, IndexType
<1>2. TableEnds'
  <2>1. CASE card'.chap \subseteq card.chap
    BY <2>1 DEF ChapInv, TableEnds
  <2>2. ASSUME NEW q \in Admins, card'.chap = card.chap \cup {adm[q].cmd.idx} PROVE TableEnds'
    <3> DEFINE n == adm[q].cmd.idx
    <3>1. n \in Nat /\ card.chap \subseteq Nat
      BY DEF ChapInv, IndexType, TableEnds
    <3>2. PICK b \in Nat : \A i \in card.chap : i <= b
      BY DEF ChapInv, TableEnds
    <3> HIDE DEF n
    <3>3. b + n \in Nat /\ \A i \in card.chap \cup {n} : i <= b + n
      BY <3>1, <3>2
    <3>4. card'.chap = card.chap \cup {n}
      BY <2>2 DEF n
    <3>5. QED
      BY <3>1, <3>3, <3>4 DEF TableEnds
  <2>3. QED
    BY <2>1, <2>2 DEF ChapFrame
<1>3. ListedOnce'
  BY DEF ChapInv, ChapFrame, ListedOnce
<1>4. \A p \in Admins : adm[p].cmd.op = "chap_show" => \A i \in card'.chap : i \in card.chap \/ Added(p, i)
  BY DEF ChapFrame, Added
<1>5. \A p \in Admins : \A i : Added(p, i)' <=> Added(p, i)
  BY DEF Added, ChapFrame
<1>6. ListedAll'
  BY <1>4, <1>5 DEF ChapInv, ChapFrame, ListedAll
<1>7. QED
  BY <1>1, <1>2, <1>3, <1>6 DEF ChapInv

LEMMA MoreGood ==
  ASSUME NEW s, NEW good, NEW more, TrueEvents(s, good), good \subseteq more
  PROVE  TrueEvents(s, more)
BY DEF TrueEvents

(* The ids of a process are fixed by the second in which it began. *)
LEMMA IdsStay ==
  ASSUME \A q \in Admins : adm'[q].cmd = adm[q].cmd, card.good \subseteq Admins \X Nat, card.good \subseteq card'.good
  PROVE  /\ \A q \in Admins : \A k : PingId(q, k)' = PingId(q, k)
         /\ GoodIds \subseteq GoodIds'
<1>1. \A q \in Admins : \A k : PingId(q, k)' = PingId(q, k)
  BY DEF PingId
<1>2. ASSUME NEW ping \in card.good PROVE PingId(ping[1], ping[2]) \in GoodIds'
  <2>1. ping[1] \in Admins /\ ping \in card'.good
    OBVIOUS
  <2>2. PingId(ping[1], ping[2])' = PingId(ping[1], ping[2])
    BY <1>1, <2>1
  <2>3. PingId(ping[1], ping[2])' \in GoodIds'
    BY <2>1 DEF GoodIds
  <2>4. QED
    BY <2>2, <2>3
<1>3. QED
  BY <1>1, <1>2 DEF GoodIds

LEMMA PingFrameKeeps == ASSUME PingInv, PingFrame PROVE PingInv'
<1>1. card'.pings \subseteq Admins \X Nat /\ card'.good \subseteq Admins \X Nat
  BY DEF PingInv, PingFrame
<1>2. (\A q \in Admins : \A k : PingId(q, k)' = PingId(q, k)) /\ GoodIds \subseteq GoodIds'
  BY IdsStay DEF PingInv, PingFrame
<1>3. EventsTrue'
  BY <1>2, MoreGood DEF PingInv, PingFrame, EventsTrue
<1>4. PingsTrue'
  BY <1>2 DEF PingInv, PingFrame, PingsTrue
<1>5. QED
  BY <1>1, <1>3, <1>4 DEF PingInv

-----------------------------------------------------------------------------
QuietFields == {"pc", "rc", "recs", "cnt", "used", "changed", "left", "v4"}

(* The processes after a step that lists nothing and pings nobody. *)
QuietAdm ==
  /\ DOMAIN adm' = Admins /\ \A q \in Admins : DOMAIN adm'[q] = AdmFields
  /\ \A q \in Admins :
       /\ \A x \in AdmFields \ QuietFields : adm'[q][x] = adm[q][x]
       /\ adm'[q].pc = "start" => adm[q].pc = "start"
       /\ adm[q].cmd.op = "chap_show" => adm'[q].rc = adm[q].rc

LEMMA QuietSet ==
  ASSUME Shape, NEW p \in Admins, adm[p].cmd.op # "chap_show",
         NEW f, DOMAIN f \subseteq QuietFields, "pc" \in DOMAIN f => f["pc"] # "start", Set(p, f)
  PROVE  QuietAdm
<1>1. DOMAIN f \subseteq AdmFields
  BY DEF QuietFields, AdmFields
<1>2. QED
  BY <1>1, SetGives DEF QuietAdm, QuietFields, AdmFields

LEMMA QuietFinish ==
  ASSUME Shape, NEW p \in Admins, adm[p].cmd.op # "chap_show", NEW r, Finish(p, r)
  PROVE  QuietAdm
BY QuietSet DEF Finish, QuietFields

QuietStep(p) ==
  \/ ApplyCount(p) \/ ApplyFill(p) \/ ApplyCall(p) \/ UpdateStart(p) \/ UpdateSync(p) \/ UpdateOwn(p)
  \/ ChapSet(p) \/ ChapDelete(p)
  \/ FlashStart(p) \/ FlashUpdate(p) \/ FlashNew(p) \/ FlashNewFails(p)
  \/ FlashDelete(p) \/ FlashLogin(p) \/ FlashLogout(p) \/ HostStats(p) \/ PingStart(p)

LEMMA QuietSteps == ASSUME Shape, NEW p \in Admins, QuietStep(p) PROVE QuietAdm
<1>0. adm[p].cmd.op # "chap_show"
  BY DEF QuietStep, ApplyCount, ApplyFill, ApplyCall, UpdateStart, UpdateSync, UpdateOwn, ChapSet, ChapDelete,
         FlashStart, FlashUpdate, FlashNew, FlashNewFails, FlashCall, FlashDelete, FlashLogin, FlashLogout,
         HostStats, PingStart, At
<1>1. CASE ApplyCount(p)
  BY <1>0, <1>1, QuietSet, QuietFinish DEF ApplyCount, QuietFields
<1>2. CASE ApplyFill(p)
  BY <1>0, <1>2, QuietSet DEF ApplyFill, QuietFields
<1>3. CASE ApplyCall(p)
  BY <1>0, <1>3, QuietFinish DEF ApplyCall
<1>4. CASE UpdateStart(p)
  BY <1>0, <1>4, QuietSet, QuietFinish DEF UpdateStart, QuietFields
<1>5. CASE UpdateSync(p)
  BY <1>0, <1>5, QuietSet DEF UpdateSync, QuietFields
<1>6. CASE UpdateOwn(p)
  BY <1>0, <1>6, QuietFinish DEF UpdateOwn
<1>7. CASE ChapSet(p)
  BY <1>0, <1>7, QuietFinish DEF ChapSet
<1>8. CASE ChapDelete(p)
  BY <1>0, <1>8, QuietFinish DEF ChapDelete
<1>9. CASE FlashStart(p)
  BY <1>0, <1>9, QuietSet, QuietFinish DEF FlashStart, QuietFields
<1>10. CASE FlashUpdate(p) \/ FlashNew(p) \/ FlashNewFails(p)
  BY <1>0, <1>10, QuietFinish DEF FlashUpdate, FlashNew, FlashNewFails
<1>11. CASE FlashDelete(p) \/ FlashLogin(p) \/ FlashLogout(p)
  BY <1>0, <1>11, QuietFinish DEF FlashDelete, FlashLogin, FlashLogout, FlashCall
<1>12. CASE HostStats(p)
  BY <1>0, <1>12, QuietFinish DEF HostStats
<1>13. CASE PingStart(p)
  BY <1>0, <1>13, QuietSet, QuietFinish DEF PingStart, QuietFields
<1>14. QED
  BY <1>1, <1>2, <1>3, <1>4, <1>5, <1>6, <1>7, <1>8, <1>9, <1>10, <1>11, <1>12, <1>13 DEF QuietStep

(* The card after such a step. *)
QuietCard ==
  /\ DOMAIN card' = CardFields
  /\ card'.nodes = DOMAIN card'.flash
  /\ \A n \in card'.nodes : DOMAIN card'.flash[n] = {"st", "v4", "set"}
  /\ card'.good = card.good /\ card'.pings = card.pings
  /\ \/ card'.chap \subseteq card.chap
     \/ \E q \in Admins : adm[q].cmd.op = "chap_new" /\ card'.chap = card.chap \cup {adm[q].cmd.idx}

LEMMA QuietCards == ASSUME Shape, NEW p \in Admins, QuietStep(p) PROVE QuietCard
<1>1. CASE UNCHANGED card
  BY <1>1 DEF QuietCard, Shape
<1>2. CASE ChapSet(p)
  <2>1. PICK r : card' = [card EXCEPT !.chap = IF r = "ok" /\ adm[p].cmd.params # <<>>
                                               THEN @ \cup {adm[p].cmd.idx} ELSE @]
    BY <1>2 DEF ChapSet
  <2>2. adm[p].cmd.op = "chap_new"
    BY <1>2 DEF ChapSet, At
  <2>3. QED
    BY <2>1, <2>2 DEF QuietCard, Shape, CardFields
<1>3. CASE ChapDelete(p)
  <2>1. PICK r : card' = [card EXCEPT !.chap = IF r = "bytes" THEN @ \ {adm[p].cmd.idx} ELSE @]
    BY <1>3 DEF ChapDelete
  <2>2. QED
    BY <2>1 DEF QuietCard, Shape, CardFields
<1>4. CASE FlashUpdate(p)
  <2>1. card' = card \/ card' = [card EXCEPT !.flash[adm[p].cmd.idx].set = FlashWrite(p, FlashConfig(p))]
    BY <1>4 DEF FlashUpdate
  <2>2. QED
    BY <2>1 DEF QuietCard, Shape, CardFields
<1>5. CASE FlashNew(p)
  <2>1. PICK n : card' = [card EXCEPT !.flash[n].st = "saved"]
    BY <1>5 DEF FlashNew
  <2>2. QED
    BY <2>1 DEF QuietCard, Shape, CardFields
<1>6. CASE FlashDelete(p) \/ FlashLogin(p) \/ FlashLogout(p)
  <2>1. PICK to : card' = card \/ card' = [card EXCEPT !.flash[adm[p].cmd.idx] = [@ EXCEPT !.st = to]]
    BY <1>6 DEF FlashDelete, FlashLogin, FlashLogout, FlashCall
  <2>2. QED
    BY <2>1 DEF QuietCard, Shape, CardFields
<1>7. QED
  BY <1>1, <1>2, <1>3, <1>4, <1>5, <1>6
     DEF QuietStep, ApplyCount, ApplyFill, ApplyCall, UpdateStart, UpdateSync, UpdateOwn, FlashStart,
         FlashNewFails, HostStats, PingStart

LEMMA QuietKeeps == ASSUME HostInv, NEW p \in Admins, QuietStep(p) PROVE HostInv'
<1>1. QuietAdm /\ QuietCard
  BY QuietSteps, QuietCards DEF HostInv
<1>2. Shape'
  BY <1>1 DEF QuietAdm, QuietCard, Shape
<1>3. ChapFrame /\ PingFrame
  BY <1>1 DEF QuietAdm, QuietCard, ChapFrame, PingFrame, AdmFields, QuietFields
<1>4. QED
  BY <1>2, <1>3, ChapFrameKeeps, PingFrameKeeps DEF HostInv

-----------------------------------------------------------------------------
(* get_host_chap_info: every answer starts behind the last one. *)
LEMMA ChapShowKeeps == ASSUME HostInv, NEW p \in Admins, ChapShow(p) PROVE HostInv'
<1> DEFINE idx == adm[p].idx
           got == GetChap(idx)
           again == {i \in got : \E k \in 1..2 : <<i, k>> \in adm[p].out}
           out == adm[p].out \cup (again \X {2}) \cup ((got \ again) \X {1})
<1> USE DEF HostInv
<1>1. card' = card /\ adm[p].cmd.op = "chap_show" /\ adm[p].pc = "start"
  BY DEF ChapShow, At
<1>2. idx \in Nat /\ TableEnds
  BY DEF ChapInv, IndexType
<1>3. /\ \A i \in got : i \in card.chap /\ i >= idx /\ i \in Nat
      /\ Cardinality(got) = NumEntries =>
           /\ Max(got) \in got /\ \A i \in got : i <= Max(got)
           /\ \A j \in card.chap : idx <= j /\ j <= Max(got) => j \in got
      /\ Cardinality(got) # NumEntries => \A j \in card.chap : idx <= j => j \in got
  BY <1>2, AnswerIsPrefix DEF TableEnds
<1>4. again = {}
  BY <1>1, <1>2, <1>3 DEF ChapInv, ListedOnce
<1>5. out = adm[p].out \cup (got \X {1})
  BY <1>4
<1>6. \/ Finish(p, "err")
      \/ Cardinality(got) # NumEntries /\ Set(p, [out |-> out, pc |-> "done", rc |-> "bytes"])
      \/ Cardinality(got) = NumEntries /\ Set(p, [out |-> out, idx |-> NextChapIdx(idx, got)])
  BY DEF ChapShow
<1> HIDE DEF got, again, out
<1>7. CASE Finish(p, "err")
  <2>1. /\ DOMAIN adm' = Admins /\ \A q \in Admins : DOMAIN adm'[q] = AdmFields
        /\ \A q \in Admins \ {p} : adm'[q] = adm[q]
        /\ \A x \in AdmFields \ {"pc", "rc"} : adm'[p][x] = adm[p][x]
        /\ adm'[p].pc = "done" /\ adm'[p].rc = "err"
    BY <1>7, SetGives DEF Finish, AdmFields
  <2>2. Shape' /\ PingFrame
    BY <1>1, <2>1 DEF Shape, PingFrame, AdmFields
  <2>3. \A q \in Admins : adm'[q].cmd = adm[q].cmd /\ adm'[q].out = adm[q].out /\ adm'[q].idx = adm[q].idx
    BY <2>1 DEF AdmFields
  <2>4. TableEnds' /\ IndexType' /\ ListedOnce'
    BY <1>1, <2>1, <2>3 DEF ChapInv, TableEnds, IndexType, ListedOnce
  <2>5. ListedAll'
    BY <1>1, <2>1, <2>3 DEF ChapInv, ListedAll, Added
  <2>6. QED
    BY <2>2, <2>4, <2>5, PingFrameKeeps DEF ChapInv
<1>8. CASE Cardinality(got) # NumEntries /\ Set(p, [out |-> out, pc |-> "done", rc |-> "bytes"])
  <2>1. /\ DOMAIN adm' = Admins /\ \A q \in Admins : DOMAIN adm'[q] = AdmFields
        /\ \A q \in Admins \ {p} : adm'[q] = adm[q]
        /\ \A x \in AdmFields \ {"out", "pc", "rc"} : adm'[p][x] = adm[p][x]
        /\ adm'[p].pc = "done" /\ adm'[p].rc = "bytes" /\ adm'[p].out = out
    BY <1>8, SetGives DEF AdmFields
  <2>2. Shape' /\ PingFrame
    BY <1>1, <2>1 DEF Shape, PingFrame, AdmFields
  <2>3. \A q \in Admins : adm'[q].cmd = adm[q].cmd /\ adm'[q].idx = adm[q].idx
    BY <2>1 DEF AdmFields
  <2>4. TableEnds' /\ IndexType' /\ ListedOnce'
    BY <1>1, <1>3, <1>5, <2>1, <2>3 DEF ChapInv, TableEnds, IndexType, ListedOnce
  <2>5. \A i \in card.chap : <<i, 1>> \in out \/ Added(p, i)
    <3> SUFFICES ASSUME NEW i \in card.chap PROVE <<i, 1>> \in out \/ Added(p, i)
      OBVIOUS
    <3>1. i \in Nat
      BY <1>2 DEF TableEnds
    <3>2. CASE i < idx
      BY <1>1, <1>5, <3>2 DEF ChapInv, ListedAll
    <3>3. CASE idx <= i
      BY <1>3, <1>5, <1>8, <3>3
    <3>4. QED
      BY <1>2, <3>1, <3>2, <3>3
  <2>6. \A q \in Admins : \A i : Added(q, i)' <=> Added(q, i)
    BY <2>3 DEF Added
  <2>7. ListedAll'
    BY <1>1, <2>1, <2>3, <2>5, <2>6 DEF ChapInv, ListedAll
  <2>8. QED
    BY <2>2, <2>4, <2>7, PingFrameKeeps DEF ChapInv
<1>9. CASE Cardinality(got) = NumEntries /\ Set(p, [out |-> out, idx |-> NextChapIdx(idx, got)])
  <2> DEFINE next == NextChapIdx(idx, got)
  <2>1. /\ DOMAIN adm' = Admins /\ \A q \in Admins : DOMAIN adm'[q] = AdmFields
        /\ \A q \in Admins \ {p} : adm'[q] = adm[q]
        /\ \A x \in AdmFields \ {"out", "idx"} : adm'[p][x] = adm[p][x]
        /\ adm'[p].idx = next /\ adm'[p].out = out
    BY <1>9, SetGives DEF AdmFields
  <2>2. Shape' /\ PingFrame
    BY <1>1, <2>1 DEF Shape, PingFrame, AdmFields
  <2>3. next = Max(got) + 1 /\ next \in Nat /\ idx < next /\ \A i \in got : i < next
    BY <1>2, <1>3, <1>9 DEF NextChapIdx
  <2> HIDE DEF next
  <2>4. \A q \in Admins : adm'[q].cmd = adm[q].cmd /\ adm'[q].pc = adm[q].pc /\ adm'[q].rc = adm[q].rc
    BY <2>1 DEF AdmFields
  <2>5. TableEnds' /\ IndexType'
    BY <1>1, <2>1, <2>3, <2>4 DEF ChapInv, TableEnds, IndexType
  <2>6. ListedOnce'
    <3>1. \A e \in out : e \in Nat \X {1} /\ e[1] < next
      <4> SUFFICES ASSUME NEW e \in out PROVE e \in Nat \X {1} /\ e[1] < next
        OBVIOUS
      <4>1. CASE e \in adm[p].out
        BY <1>1, <1>2, <2>3, <4>1 DEF ChapInv, ListedOnce
      <4>2. CASE e \in got \X {1}
        BY <1>3, <2>3, <4>2
      <4>3. QED
        BY <1>5, <4>1, <4>2
    <3>2. QED
      BY <2>1, <2>4, <3>1 DEF ChapInv, ListedOnce
  <2>7. \A i \in card.chap : i < next => <<i, 1>> \in out \/ Added(p, i)
    <3> SUFFICES ASSUME NEW i \in card.chap, i < next PROVE <<i, 1>> \in out \/ Added(p, i)
      OBVIOUS
    <3>1. i \in Nat
      BY <1>2 DEF TableEnds
    <3>2. CASE i < idx
      BY <1>1, <1>5, <3>2 DEF ChapInv, ListedAll
    <3>3. CASE idx <= i
      <4>1. Max(got) \in Nat /\ i <= Max(got)
        BY <1>3, <1>9, <2>3, <3>1
      <4>2. i \in got
        BY <1>3, <1>9, <3>3, <4>1
      <4>3. QED
        BY <1>5, <4>2
    <3>4. QED
      BY <1>2, <3>1, <3>2, <3>3
  <2>8. \A q \in Admins : \A i : Added(q, i)' <=> Added(q, i)
    BY <2>4 DEF Added
  <2>9. ListedAll'
    BY <1>1, <2>1, <2>4, <2>7, <2>8 DEF ChapInv, ListedAll
  <2>10. QED
    BY <2>2, <2>5, <2>6, <2>9, PingFrameKeeps DEF ChapInv
<1>10. QED
  BY <1>6, <1>7, <1>8, <1>9

-----------------------------------------------------------------------------
(* A ping ends: only one that succeeded with status 0 is reported completed. *)
LEMMA PingOverGives ==
  ASSUME HostInv, NEW p \in Admins, adm[p].cmd.op = "ping", NEW r, NEW status, PingOver(p, r, status)
  PROVE  /\ DOMAIN adm' = Admins /\ \A q \in Admins : DOMAIN adm'[q] = AdmFields
         /\ \A q \in Admins \ {p} : adm'[q] = adm[q]
         /\ \A x \in {"cmd", "out", "idx"} : adm'[p][x] = adm[p][x]
         /\ adm'[p].pc # "start" /\ adm'[p].nl = <<>> /\ adm'[p].sent = adm[p].sent + 1
         /\ adm'[p].completed = adm[p].completed \cup (IF r = "ok" /\ status = 0 THEN {adm[p].sent} ELSE {})
<1> DEFINE last == adm[p].sent = adm[p].cmd.count
           f == [rc |-> IF last THEN r ELSE "", sent |-> adm[p].sent + 1, nl |-> <<>>,
                 completed |-> adm[p].completed \cup (IF r = "ok" /\ status = 0 THEN {adm[p].sent} ELSE {}),
                 pc |-> IF last THEN "done" ELSE IF adm[p].cmd.uip THEN "uip" ELSE "send"]
<1>1. DOMAIN f = {"rc", "sent", "nl", "completed", "pc"} /\ f["pc"] # "start" /\ f["nl"] = <<>>
      /\ f["sent"] = adm[p].sent + 1
      /\ f["completed"] = adm[p].completed \cup (IF r = "ok" /\ status = 0 THEN {adm[p].sent} ELSE {})
  OBVIOUS
<1>2. Set(p, f)
  BY DEF PingOver
<1> HIDE DEF f
<1>3. /\ DOMAIN adm' = Admins
      /\ \A q \in Admins : DOMAIN adm'[q] = AdmFields
      /\ \A q \in Admins \ {p} : adm'[q] = adm[q]
      /\ \A x \in AdmFields : adm'[p][x] = IF x \in DOMAIN f THEN f[x] ELSE adm[p][x]
  BY <1>1, <1>2, SetGives DEF HostInv, AdmFields
<1>4. QED
  BY <1>1, <1>3 DEF AdmFields

LEMMA NoEvents == ASSUME NEW good PROVE TrueEvents(<<>>, good)
BY DEF TrueEvents

LEMMA FewerEvents ==
  ASSUME NEW s, NEW good, TrueEvents(s, good), s # <<>>
  PROVE  TrueEvents(Tail(s), good)
<1>1. /\ Tail(s) \in Seq(Event) /\ Len(Tail(s)) = Len(s) - 1 /\ Len(s) \in Nat
      /\ \A k \in 1..Len(Tail(s)) : Tail(s)[k] = s[k + 1]
  BY DEF TrueEvents
<1>2. \A k \in 1..Len(Tail(s)) : k + 1 \in 1..Len(s)
  BY <1>1
<1>3. QED
  BY <1>1, <1>2 DEF TrueEvents

LEMMA OneMoreEvent ==
  ASSUME NEW s, NEW good, NEW more, TrueEvents(s, good), good \subseteq more,
         NEW e, e \in Event, e[2] = 0 => e[1] \in more
  PROVE  TrueEvents(Append(s, e), more)
<1> DEFINE t == Append(s, e)
<1>1. t \in Seq(Event) /\ Len(t) = Len(s) + 1 /\ Len(s) \in Nat /\ t[Len(s) + 1] = e
      /\ \A k \in 1..Len(s) : t[k] = s[k]
  BY DEF TrueEvents
<1> HIDE DEF t
<1>2. \A k \in 1..Len(t) : k \in 1..Len(s) \/ k = Len(s) + 1
  BY <1>1
<1>3. TrueEvents(t, more)
  BY <1>1, <1>2 DEF TrueEvents
<1>4. QED
  BY <1>3 DEF t

LEMMA PingOverKeeps ==
  ASSUME HostInv, NEW p \in Admins, adm[p].cmd.op = "ping", NEW r, NEW status, PingOver(p, r, status),
         DOMAIN card' = CardFields, card'.chap = card.chap, card'.nodes = card.nodes, card'.flash = card.flash,
         card'.pings \subseteq Admins \X Nat, card'.good \subseteq Admins \X Nat, card.good \subseteq card'.good,
         r = "ok" /\ status = 0 => PingId(p, adm[p].sent) \in GoodIds \/ <<p, adm[p].sent>> \in card'.good
  PROVE  HostInv'
<1> DEFINE n == adm[p].sent
<1>1. /\ DOMAIN adm' = Admins /\ \A q \in Admins : DOMAIN adm'[q] = AdmFields
      /\ \A q \in Admins \ {p} : adm'[q] = adm[q]
      /\ \A x \in {"cmd", "out", "idx"} : adm'[p][x] = adm[p][x]
      /\ adm'[p].pc # "start" /\ adm'[p].nl = <<>> /\ adm'[p].sent = n + 1
      /\ adm'[p].completed = adm[p].completed \cup (IF r = "ok" /\ status = 0 THEN {n} ELSE {})
  BY PingOverGives
<1>2. Shape'
  BY <1>1 DEF HostInv, Shape
<1>3. ChapFrame
  BY <1>1 DEF ChapFrame
<1>4. n \in Nat /\ \A q \in Admins : adm[q].sent \in Nat
  BY DEF HostInv, PingInv, EventsTrue
<1>5. adm'[p].sent \in Nat /\ TrueEvents(adm'[p].nl, GoodIds')
  BY <1>1, <1>4, NoEvents
<1>a. (\A q \in Admins : \A k : PingId(q, k)' = PingId(q, k)) /\ GoodIds \subseteq GoodIds'
  BY <1>3, IdsStay DEF HostInv, PingInv, ChapFrame
<1>6. EventsTrue'
  <2>1. ASSUME NEW q \in Admins PROVE adm'[q].sent \in Nat /\ TrueEvents(adm'[q].nl, GoodIds')
    <3>1. CASE q = p
      BY <1>5, <3>1
    <3>2. CASE q # p
      BY <1>1, <1>a, <3>2, MoreGood DEF HostInv, PingInv, EventsTrue
    <3>3. QED
      BY <3>1, <3>2
  <2>2. QED
    BY <2>1 DEF EventsTrue
<1>7. PingsTrue'
  <2>1. r = "ok" /\ status = 0 => PingId(p, n) \in GoodIds'
    <3>1. CASE <<p, n>> \in card'.good
      <4>1. \A k : <<p, k>> \in card'.good => PingId(p, k)' \in GoodIds'
        BY DEF GoodIds
      <4>2. \A k : <<p, k>> \in card'.good => PingId(p, k) \in GoodIds'
        BY <1>a, <4>1
      <4>3. QED
        BY <3>1, <4>2
    <3>2. QED
      BY <1>a, <3>1
  <2>2. \A q \in Admins : \A k \in adm'[q].completed : PingId(q, k) \in GoodIds'
    BY <1>1, <1>a, <2>1 DEF HostInv, PingInv, PingsTrue
  <2>3. QED
    BY <1>a, <2>2 DEF PingsTrue
<1>8. QED
  BY <1>2, <1>3, <1>6, <1>7, ChapFrameKeeps DEF HostInv, PingInv

(* A ping goes on: the socket holds what it held, or less. *)
LEMMA PingGoesOn ==
  ASSUME HostInv, NEW p \in Admins, adm[p].cmd.op = "ping", NEW f, DOMAIN f \subseteq {"pc", "nl"}, Set(p, f),
         "pc" \in DOMAIN f => f["pc"] # "start",
         "nl" \in DOMAIN f => f["nl"] = <<>> \/ (adm[p].nl # <<>> /\ f["nl"] = Tail(adm[p].nl)),
         DOMAIN card' = CardFields, card'.chap = card.chap, card'.nodes = card.nodes, card'.flash = card.flash,
         card'.pings \subseteq Admins \X Nat, card'.good = card.good
  PROVE  HostInv'
<1>1. /\ DOMAIN adm' = Admins /\ \A q \in Admins : DOMAIN adm'[q] = AdmFields
      /\ \A q \in Admins \ {p} : adm'[q] = adm[q]
      /\ \A x \in AdmFields \ {"pc", "nl"} : adm'[p][x] = adm[p][x]
      /\ adm'[p].pc = "start" => adm[p].pc = "start"
      /\ adm'[p].nl \in {adm[p].nl, <<>>} \/ (adm[p].nl # <<>> /\ adm'[p].nl = Tail(adm[p].nl))
  BY SetGives DEF HostInv, AdmFields
<1>2. Shape'
  BY <1>1 DEF HostInv, Shape
<1>3. ChapFrame
  BY <1>1 DEF ChapFrame, AdmFields
<1>a. (\A q \in Admins : \A k : PingId(q, k)' = PingId(q, k)) /\ GoodIds \subseteq GoodIds'
  BY <1>3, IdsStay DEF HostInv, PingInv, ChapFrame
<1>4. EventsTrue'
  <2>1. TrueEvents(adm'[p].nl, GoodIds) /\ adm'[p].sent = adm[p].sent
    BY <1>1, NoEvents, FewerEvents DEF HostInv, PingInv, EventsTrue, AdmFields
  <2>2. \A q \in Admins : adm'[q].sent \in Nat /\ TrueEvents(adm'[q].nl, GoodIds)
    BY <1>1, <2>1 DEF HostInv, PingInv, EventsTrue
  <2>3. QED
    BY <1>a, <2>2, MoreGood DEF EventsTrue
<1>5. PingsTrue'
  <2>1. \A q \in Admins : adm'[q].completed = adm[q].completed
    BY <1>1 DEF AdmFields
  <2>2. QED
    BY <1>a, <2>1 DEF HostInv, PingInv, PingsTrue
<1>6. card'.good \subseteq Admins \X Nat
  BY DEF HostInv, PingInv
<1>7. QED
  BY <1>2, <1>3, <1>4, <1>5, <1>6, ChapFrameKeeps DEF HostInv, PingInv

LEMMA PingStepKeeps ==
  ASSUME HostInv, NEW p \in Admins,
         UipPing(p) \/ KsendPing(p) \/ PingAnswer(p) \/ PingPoll(p) \/ PingTimeout(p)
  PROVE  HostInv'
<1> DEFINE n == adm[p].sent
<1>1. adm[p].cmd.op = "ping"
  BY DEF UipPing, KsendPing, PingAnswer, PingPoll, PingTimeout, At
<1>2. /\ DOMAIN card = CardFields /\ n \in Nat
      /\ card.pings \subseteq Admins \X Nat /\ card.good \subseteq Admins \X Nat
  BY DEF HostInv, Shape, PingInv, EventsTrue
<1>3. CASE UipPing(p)
  <2>a. PICK a \in uip_broadcast("iface"), b \in uip_broadcast("ping") :
          LET r == IF a \in {"ok", "again"} THEN b ELSE a
          IN /\ PingOver(p, r, 0)
             /\ card' = [card EXCEPT !.good = IF r = "ok" THEN @ \cup {<<p, n>>} ELSE @]
    BY <1>3 DEF UipPing
  <2> DEFINE r == IF a \in {"ok", "again"} THEN b ELSE a
  <2>1. /\ PingOver(p, r, 0)
        /\ card' = [card EXCEPT !.good = IF r = "ok" THEN @ \cup {<<p, n>>} ELSE @]
    BY <2>a
  <2> HIDE DEF r
  <2>2. /\ DOMAIN card' = CardFields /\ card'.chap = card.chap /\ card'.nodes = card.nodes
        /\ card'.flash = card.flash /\ card'.pings = card.pings
        /\ card'.good = IF r = "ok" THEN card.good \cup {<<p, n>>} ELSE card.good
    BY <1>2, <2>1 DEF CardFields
  <2>3. /\ card.good \subseteq card'.good /\ card'.good \subseteq Admins \X Nat
        /\ r = "ok" => <<p, n>> \in card'.good
    BY <1>2, <2>2
  <2>4. QED
    BY <1>1, <1>2, <2>1, <2>2, <2>3, PingOverKeeps
<1>4. CASE KsendPing(p)
  <2>1. CASE PingOver(p, "err", 0) /\ UNCHANGED card
    BY <1>1, <1>2, <2>1, PingOverKeeps
  <2>2. CASE card' = [card EXCEPT !.pings = @ \cup {<<p, n>>}] /\ Set(p, [pc |-> "answer", nl |-> <<>>])
    <3>1. /\ DOMAIN card' = CardFields /\ card'.chap = card.chap /\ card'.nodes = card.nodes
          /\ card'.flash = card.flash /\ card'.good = card.good /\ card'.pings = card.pings \cup {<<p, n>>}
      BY <1>2, <2>2 DEF CardFields
    <3>2. card'.pings \subseteq Admins \X Nat
      BY <1>2, <3>1
    <3>3. QED
      BY <1>1, <2>2, <3>1, <3>2, PingGoesOn
  <2>3. QED
    BY <1>4, <2>1, <2>2 DEF KsendPing
<1>5. CASE PingAnswer(p)
  <2>1. CASE Set(p, [pc |-> "poll", nl |-> <<>>]) /\ UNCHANGED card
    BY <1>1, <1>2, <2>1, PingGoesOn
  <2>2. ASSUME NEW r \in {"not_supp", "inval", "err"}, PingOver(p, r, 0),
               card' = [card EXCEPT !.pings = @ \ {<<p, n>>}]
        PROVE  HostInv'
    <3>1. /\ DOMAIN card' = CardFields /\ card'.chap = card.chap /\ card'.nodes = card.nodes
          /\ card'.flash = card.flash /\ card'.good = card.good /\ card'.pings = card.pings \ {<<p, n>>}
      BY <1>2, <2>2 DEF CardFields
    <3>2. QED
      BY <1>1, <1>2, <2>2, <3>1, PingOverKeeps
  <2>3. QED
    BY <1>5, <2>1, <2>2 DEF PingAnswer
<1>6. CASE PingPoll(p)
  <2> DEFINE ev == Head(adm[p].nl)
  <2>1. adm[p].nl # <<>> /\ UNCHANGED card
    BY <1>6 DEF PingPoll
  <2>2. CASE OwnEvent(p, ev) /\ PingOver(p, "ok", ev[2])
    <3>1. ev[2] = 0 => ev[1] \in GoodIds
      BY <2>1 DEF HostInv, PingInv, EventsTrue, TrueEvents
    <3>2. ev[1] = PingId(p, n)
      BY <2>2 DEF OwnEvent
    <3>3. QED
      BY <1>1, <1>2, <2>1, <2>2, <3>1, <3>2, PingOverKeeps
  <2>3. CASE Set(p, [nl |-> Tail(adm[p].nl)])
    BY <1>1, <1>2, <2>1, <2>3, PingGoesOn
  <2>4. QED
    BY <1>6, <2>2, <2>3 DEF PingPoll
<1>7. CASE PingTimeout(p)
  BY <1>1, <1>2, <1>7, PingOverKeeps DEF PingTimeout
<1>8. QED
  BY <1>3, <1>4, <1>5, <1>6, <1>7

(* The completion event goes to every socket with its id and its status. *)
LEMMA PingCompKeeps == ASSUME HostInv, NEW ping \in card.pings, PingComp(ping) PROVE HostInv'
<1> DEFINE id == PingId(ping[1], ping[2])
<1>1. PICK status \in {0, 1} :
        /\ adm' = [p \in Admins |-> IF adm[p].pc \in {"answer", "poll"}
                                    THEN [adm[p] EXCEPT !.nl = Append(@, <<id, status>>)] ELSE adm[p]]
        /\ card' = [card EXCEPT !.pings = @ \ {ping}, !.good = IF status = 0 THEN @ \cup {ping} ELSE @]
  BY DEF PingComp
<1>2. ping \in Admins \X Nat /\ ping[1] \in Admins /\ card.good \subseteq Admins \X Nat
  BY DEF HostInv, PingInv
<1>3. id \in Nat \X Nat
  BY <1>2 DEF HostInv, ChapInv, IndexType, PingId
<1> HIDE DEF id
<1>4. /\ DOMAIN card' = CardFields /\ card'.chap = card.chap /\ card'.nodes = card.nodes
      /\ card'.flash = card.flash /\ card'.pings = card.pings \ {ping}
      /\ card'.good = IF status = 0 THEN card.good \cup {ping} ELSE card.good
  BY <1>1 DEF HostInv, Shape, CardFields
<1>5. /\ DOMAIN adm' = Admins
      /\ \A p \in Admins :
           /\ DOMAIN adm'[p] = AdmFields
           /\ \A x \in AdmFields \ {"nl"} : adm'[p][x] = adm[p][x]
           /\ adm'[p].nl = adm[p].nl \/ adm'[p].nl = Append(adm[p].nl, <<id, status>>)
  BY <1>1 DEF HostInv, Shape, AdmFields
<1>6. Shape'
  BY <1>4, <1>5 DEF HostInv, Shape
<1>7. ChapFrame
  BY <1>4, <1>5 DEF ChapFrame, AdmFields
<1>8. /\ card'.pings \subseteq Admins \X Nat /\ card'.good \subseteq Admins \X Nat
      /\ card.good \subseteq card'.good /\ (status = 0 => ping \in card'.good)
  BY <1>2, <1>4 DEF HostInv, PingInv
<1>9. \A p \in Admins : adm'[p].sent = adm[p].sent /\ adm'[p].completed = adm[p].completed
  BY <1>5 DEF AdmFields
<1>10. (\A q \in Admins : \A k : PingId(q, k)' = PingId(q, k)) /\ GoodIds \subseteq GoodIds'
  BY <1>7, <1>8, IdsStay DEF HostInv, PingInv, ChapFrame
<1>11. status = 0 => id \in GoodIds'
  <2>1. status = 0 => PingId(ping[1], ping[2])' \in GoodIds'
    BY <1>8 DEF GoodIds
  <2>2. QED
    BY <1>2, <1>10, <2>1 DEF id
<1>12. ASSUME NEW p \in Admins PROVE TrueEvents(adm'[p].nl, GoodIds')
  <2>1. TrueEvents(adm[p].nl, GoodIds)
    BY DEF HostInv, PingInv, EventsTrue
  <2>2. CASE adm'[p].nl = adm[p].nl
    BY <1>10, <2>1, <2>2, MoreGood
  <2>3. CASE adm'[p].nl = Append(adm[p].nl, <<id, status>>)
    <3> DEFINE e == <<id, status>>
    <3>1. e \in Event /\ (e[2] = 0 => e[1] \in GoodIds')
      BY <1>3, <1>11 DEF Event
    <3>2. adm'[p].nl = Append(adm[p].nl, e)
      BY <2>3
    <3> HIDE DEF e
    <3>3. QED
      BY <1>10, <2>1, <3>1, <3>2, OneMoreEvent
  <2>4. QED
    BY <1>5, <2>2, <2>3
<1>13. EventsTrue'
  BY <1>9, <1>12 DEF HostInv, PingInv, EventsTrue
<1>14. PingsTrue'
  BY <1>9, <1>10 DEF HostInv, PingInv, PingsTrue
<1>15. QED
  BY <1>6, <1>7, <1>8, <1>13, <1>14, ChapFrameKeeps DEF HostInv, PingInv

LEMMA HostInvInit == HostInit => HostInv
<1> SUFFICES ASSUME NEW sc \in HostScenes, card = sc.card,
                    adm = [p \in Admins |-> NewAdm(IF p = "A" THEN sc.a ELSE sc.b)]
             PROVE  HostInv
  BY DEF HostInit
<1>1. /\ DOMAIN card = CardFields /\ card.max \in Nat /\ card.chap \subseteq 0..card.max
      /\ card.pings = {} /\ card.nodes = DOMAIN card.flash
      /\ \A n \in card.nodes : DOMAIN card.flash[n] = {"st", "v4", "set"}
      /\ sc.a.idx \in Nat /\ sc.b.idx \in Nat /\ sc.a.second \in Nat /\ sc.b.second \in Nat /\ card.good = {}
  BY HostAssumption DEF CardFields
<1>2. \A p \in Admins :
        /\ DOMAIN adm[p] = AdmFields /\ adm[p].cmd \in {sc.a, sc.b} /\ adm[p].rc = "" /\ adm[p].idx = 0
        /\ adm[p].out = {} /\ adm[p].nl = <<>> /\ adm[p].sent = 1 /\ adm[p].completed = {}
  BY DEF NewAdm, AdmFields
<1>3. Shape
  BY <1>1, <1>2 DEF Shape
<1>4. TableEnds
  BY <1>1 DEF TableEnds
<1>5. IndexType /\ ListedOnce
  <2>1. ASSUME NEW p \in Admins PROVE adm[p].idx \in Nat /\ adm[p].cmd.idx \in Nat /\ adm[p].cmd.second \in Nat
    <3>1. adm[p].idx = 0 /\ (adm[p].cmd = sc.a \/ adm[p].cmd = sc.b)
      BY <1>2
    <3>2. QED
      BY <1>1, <3>1
  <2>2. QED
    BY <1>2, <2>1 DEF IndexType, ListedOnce
<1>6. ListedAll
  <2>1. \A p \in Admins : adm[p].rc # "bytes" /\ adm[p].idx = 0
    BY <1>2
  <2>2. \A i \in card.chap : ~(i < 0)
    BY <1>1
  <2>3. QED
    BY <2>1, <2>2 DEF ListedAll
<1>7. PingInv
  <2>1. ASSUME NEW p \in Admins
        PROVE  adm[p].sent \in Nat /\ adm[p].completed = {} /\ TrueEvents(adm[p].nl, GoodIds)
    <3>1. adm[p].sent = 1 /\ adm[p].completed = {} /\ adm[p].nl = <<>>
      BY <1>2
    <3>2. QED
      BY <3>1, NoEvents
  <2>2. QED
    BY <1>1, <2>1 DEF PingInv, EventsTrue, PingsTrue
<1>8. QED
  BY <1>3, <1>4, <1>5, <1>6, <1>7 DEF HostInv, ChapInv

LEMMA HostInvNext == HostInv /\ [HostNext]_hostvars => HostInv'
<1> SUFFICES ASSUME HostInv, [HostNext]_hostvars PROVE HostInv'
  OBVIOUS
<1>1. ASSUME NEW p \in Admins, AdmStep(p) PROVE HostInv'
  <2>1. CASE QuietStep(p)
    BY <2>1, QuietKeeps
  <2>2. CASE ChapShow(p)
    BY <2>2, ChapShowKeeps
  <2>3. CASE UipPing(p) \/ KsendPing(p) \/ PingAnswer(p) \/ PingPoll(p) \/ PingTimeout(p)
    BY <2>3, PingStepKeeps
  <2>4. QED
    BY <1>1, <2>1, <2>2, <2>3 DEF AdmStep, QuietStep
<1>2. ASSUME NEW ping \in card.pings, PingComp(ping) PROVE HostInv'
  BY <1>2, PingCompKeeps
<1>3. CASE UNCHANGED hostvars
  <2>1. Shape' /\ ChapFrame /\ PingFrame
    BY <1>3 DEF hostvars, HostInv, Shape, ChapFrame, PingFrame
  <2>2. QED
    BY <2>1, ChapFrameKeeps, PingFrameKeeps DEF HostInv
<1>4. QED
  BY <1>1, <1>2, <1>3 DEF HostNext

(* get_host_chap_info lists every entry once, and kexec_ping reports a ping  *)
(* as completed only if one with its id was, which is a ping of its own or   *)
(* of a process that began in the same second: for every card, every answer  *)
(* size and every two commands that run at the same time.                    *)
THEOREM CardIsToldTrue == HostSpec => []CardTruth
<1>1. HostInv => CardTruth
  <2> SUFFICES ASSUME HostInv, NEW p \in Admins
               PROVE /\ \A e \in adm[p].out : e[2] = 1
                     /\ adm[p].rc = "bytes" /\ adm[p].cmd.op = "chap_show" =>
                          \A i \in card.chap : <<i, 1>> \in adm[p].out \/ Added(p, i)
                     /\ \A k \in adm[p].completed :
                          \E q \in Admins : PingId(q, k) = PingId(p, k) /\ <<q, k>> \in card.good
    BY DEF CardTruth, Added
  <2>1. \A e \in adm[p].out : e[2] = 1
    BY DEF HostInv, ChapInv, ListedOnce
  <2>2. ASSUME NEW k \in adm[p].completed
        PROVE  \E q \in Admins : PingId(q, k) = PingId(p, k) /\ <<q, k>> \in card.good
    <3>1. PICK ping \in card.good : PingId(ping[1], ping[2]) = PingId(p, k)
      BY DEF HostInv, PingInv, PingsTrue, GoodIds
    <3>2. ping[1] \in Admins /\ ping = <<ping[1], ping[2]>> /\ ping[2] = k
      BY <3>1 DEF HostInv, PingInv, PingId
    <3>3. QED
      BY <3>1, <3>2
  <2>3. QED
    BY <2>1, <2>2 DEF HostInv, ChapInv, ListedAll
<1>2. QED
  BY <1>1, HostInvInit, HostInvNext, PTL DEF HostSpec

-----------------------------------------------------------------------------
FlashStep ==
  \A n \in card.nodes : \A x \in DOMAIN card.flash[n].set :
    card'.flash[n].set[x] # card.flash[n].set[x] =>
      \E p \in Admins : adm[p].cmd.op = "flash_update" /\ x \in adm[p].cmd.names /\ card'.flash[n].set[x] = p

LEMMA FlashSetSame ==
  ASSUME \A n \in card.nodes : card'.flash[n].set = card.flash[n].set
  PROVE  FlashStep
BY DEF FlashStep

LEMMA FlashStepHolds == ASSUME Shape, HostNext PROVE FlashStep
<1>1. ASSUME NEW p \in Admins, FlashUpdate(p) PROVE FlashStep
  <2> DEFINE i == adm[p].cmd.idx
             used == FlashConfig(p)
  <2>1. card' = card \/ card' = [card EXCEPT !.flash[i].set = FlashWrite(p, used)]
    BY <1>1 DEF FlashUpdate
  <2>2. CASE card' = card
    BY <2>2, FlashSetSame
  <2>3. CASE card' = [card EXCEPT !.flash[i].set = FlashWrite(p, used)]
    <3>1. adm[p].cmd.op = "flash_update" /\ \A x \in used : x \in adm[p].cmd.names
      BY <1>1 DEF FlashUpdate, At, FlashConfig
    <3> HIDE DEF used
    <3>2. \A n \in card.nodes : card'.flash[n].set = IF n = i THEN FlashWrite(p, used) ELSE card.flash[n].set
      BY <2>3 DEF Shape, CardFields
    <3>3. \A x \in DOMAIN card.flash[i].set : FlashWrite(p, used)[x] = IF x \in used THEN p ELSE card.flash[i].set[x]
      BY DEF FlashWrite, Flash
    <3>4. QED
      BY <3>1, <3>2, <3>3 DEF FlashStep
  <2>4. QED
    BY <2>1, <2>2, <2>3
<1>2. ASSUME NEW p \in Admins, FlashNew(p) PROVE FlashStep
  <2>1. PICK n : card' = [card EXCEPT !.flash[n].st = "saved"]
    BY <1>2 DEF FlashNew
  <2>2. QED
    BY <2>1, FlashSetSame DEF Shape, CardFields
<1>3. ASSUME NEW p \in Admins, FlashDelete(p) \/ FlashLogin(p) \/ FlashLogout(p) PROVE FlashStep
  <2>1. PICK to : card' = card \/ card' = [card EXCEPT !.flash[adm[p].cmd.idx] = [@ EXCEPT !.st = to]]
    BY <1>3 DEF FlashDelete, FlashLogin, FlashLogout, FlashCall
  <2>2. QED
    BY <2>1, FlashSetSame DEF Shape, CardFields
<1>4. ASSUME card'.flash = card.flash PROVE FlashStep
  BY <1>4, FlashSetSame
<1>5. ASSUME NEW p \in Admins, ChapSet(p) \/ ChapDelete(p) PROVE card'.flash = card.flash
  BY <1>5 DEF ChapSet, ChapDelete, Shape, CardFields
<1>6. ASSUME NEW p \in Admins, UipPing(p) \/ KsendPing(p) \/ PingAnswer(p) PROVE card'.flash = card.flash
  BY <1>6 DEF UipPing, KsendPing, PingAnswer, Shape, CardFields
<1>7. ASSUME NEW ping \in card.pings, PingComp(ping) PROVE card'.flash = card.flash
  BY <1>7 DEF PingComp, Shape, CardFields
<1>8. ASSUME NEW p \in Admins, AdmStep(p) PROVE FlashStep
  <2>1. \/ FlashUpdate(p) \/ FlashNew(p) \/ FlashDelete(p) \/ FlashLogin(p) \/ FlashLogout(p)
        \/ ChapSet(p) \/ ChapDelete(p) \/ UipPing(p) \/ KsendPing(p) \/ PingAnswer(p) \/ UNCHANGED card
    BY <1>8 DEF AdmStep, ApplyCount, ApplyFill, ApplyCall, UpdateStart, UpdateSync, UpdateOwn, ChapShow,
                FlashStart, FlashNewFails, HostStats, PingStart, PingPoll, PingTimeout
  <2>2. QED
    BY <1>1, <1>2, <1>3, <1>4, <1>5, <1>6, <2>1
<1>9. QED
  BY <1>4, <1>7, <1>8 DEF HostNext

(* What an update wrote to a flash node stays until another one names it:    *)
(* no other command of host mode touches the parameters of a node.           *)
THEOREM FlashNodesKept == HostSpec => FlashKept
<1>1. HostInv /\ [HostNext]_hostvars => [FlashStep]_hostvars
  BY FlashStepHolds DEF HostInv
<1>2. QED
  BY <1>1, HostInvInit, HostInvNext, PTL DEF HostSpec, FlashKept, FlashStep
=============================================================================
