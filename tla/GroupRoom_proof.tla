--------------------------- MODULE GroupRoom_proof ---------------------------
(***************************************************************************)
(* Theorems about GroupRoom, for any number of members, settings' values   *)
(* and changes: types, that the room agrees with the group once nothing is *)
(* under way, and that SetGroupAdmin is only asked for what it changes.    *)
(***************************************************************************)
EXTENDS GroupRoom, FiniteSetTheorems, SequenceTheorems, TLAPS

SettingKinds == {"name", "topic", "avatar", "mute", "read", "typing", "profile"}

LevelChanges == UNION {[T -> [orig: Nat, new: Nat]] : T \in SUBSET Everybody}

Events ==
  [kind: {"levels"}, users: LevelChanges] \cup [kind: {"leave", "join"}, who: Everybody]
    \cup [kind: SettingKinds, value: Values] \cup [kind: {"resync"}]

HandlerKinds == {"none", "levels", "leave", "join", "resync"} \cup SettingKinds

Elements(s) == {s[i] : i \in DOMAIN s}

(* The calls the handler has to make yet.                                  *)
Pending == {handler.todo[i] : i \in {j \in DOMAIN handler.todo : ~(handler.stage = "done" /\ j = 1)}}

(* No two calls are about the same, but for a read receipt's.              *)
ApartOrRead(kind, todo) ==
  /\ kind # "read" => \A i, j \in DOMAIN todo : todo[i].item = todo[j].item => i = j
  /\ kind = "read" => \A i \in DOMAIN todo : todo[i].item = "read"

-----------------------------------------------------------------------------
(* The inductive invariant, in named parts. *)

(* A resync makes no calls. *)
HandlerShape ==
  /\ handler \in [kind: HandlerKinds, todo: Seq(CallRecords), stage: {"none", "asked", "done"}]
  /\ handler.kind \in {"none", "resync"} <=> handler.todo = <<>>
  /\ ApartOrRead(handler.kind, handler.todo)

PrivateHasNoRoles == ~group => role = Nothing

(* What a resync has fetched is still so, where nothing has changed.       *)
SnapIsFresh == handler.kind = "resync" => \A m \in Members \ touched : snap[m] = role[m]

Waits(k, i)  == k \in ItemsOf(queue[i])
NoneWaits(k) == \A i \in DOMAIN queue : ~Waits(k, i)

(* The last change of a setting is the one wanted: it waits, or a call of  *)
(* the handler is to make it, or it is made.                               *)
LastWaits(k) ==
  \A i \in DOMAIN queue :
    Waits(k, i) /\ (\A j \in DOMAIN queue : Waits(k, j) => j <= i) =>
      queue[i].value = wanted[k]

ByCalls(k) ==
  /\ \A c \in Pending : c.item = k => c.value = wanted[k]
  /\ \/ setting[k] = wanted[k]
     \/ /\ \E c \in Pending : c.item = k
        /\ handler.stage = "done" => handler.todo[1].item # k

SettingFollows(k) == LastWaits(k) /\ (NoneWaits(k) => ByCalls(k))

LevelWaits(m, i) == queue[i].kind = "levels" /\ m \in DOMAIN queue[i].users
LeaveWaits(m, i) == queue[i].kind = "leave" /\ queue[i].who = m
JoinWaits(m)     == \E i \in DOMAIN queue : queue[i].kind = "join" /\ queue[i].who = m

(* Each change of a level that waits begins where the one before it ends,  *)
(* and the last ends with the level.                                       *)
Chained(m) ==
  /\ \A i, j \in DOMAIN queue :
       LevelWaits(m, i) /\ LevelWaits(m, j) /\ i < j
         /\ (\A k \in DOMAIN queue : i < k /\ k < j => ~LevelWaits(m, k)) =>
         queue[j].users[m].orig = queue[i].users[m].new
  /\ \A i \in DOMAIN queue :
       LevelWaits(m, i) /\ (\A j \in DOMAIN queue : LevelWaits(m, j) => j <= i) =>
         queue[i].users[m].new = level[m]

AdminCallOf(m, c) == c.item = m /\ c.value # "out"

(* Level b is what QQ's role of m comes to, or the call about it does.     *)
Agrees(m, b) ==
  /\ \A c \in Pending : AdminCallOf(m, c) => (c.value = "admin" <=> b >= powerAdmin)
  /\ (\A c \in Pending : ~AdminCallOf(m, c)) /\ role[m] # "out" =>
       (b >= powerAdmin <=> role[m] \in {"owner", "admin"})

(* The first change that waits begins there; with none the level is there. *)
FirstFollows(m) ==
  \A i \in DOMAIN queue :
    LevelWaits(m, i) /\ (\A j \in DOMAIN queue : LevelWaits(m, j) => i <= j) =>
      Agrees(m, queue[i].users[m].orig)

LevelFollows(m) ==
  /\ FirstFollows(m)
  /\ (\A i \in DOMAIN queue : ~LevelWaits(m, i)) => Agrees(m, level[m])

(* A call about a role changes it. *)
CallsChange(m) ==
  \A c \in Pending : AdminCallOf(m, c) /\ role[m] # "out" =>
    (c.value = "admin" <=> role[m] = "member")

(* Who is in the room is in the group, unless a leave is to be carried out *)
(* or a join waits, which will be out of step when it is handled.          *)
JoinedFollows(m) ==
  \/ JoinWaits(m)
  \/ m \in joined <=>
       /\ role[m] # "out"
       /\ \A i \in DOMAIN queue : ~LeaveWaits(m, i)
       /\ Set(m, "out") \notin Pending

MemberFollows(m) == Chained(m) /\ LevelFollows(m) /\ CallsChange(m) /\ JoinedFollows(m)

SettingsFollow == \A k \in Settings \ dirty : SettingFollows(k)
MembersFollow  == group => \A m \in Members \ dirty : MemberFollows(m)

Types == TypeOK /\ queue \in Seq(Events) /\ HandlerShape /\ PrivateHasNoRoles

IInv ==
  /\ Types
  /\ SnapIsFresh
  /\ SettingsFollow
  /\ MembersFollow

-----------------------------------------------------------------------------
(* Events and the calls they lead to. *)

(* What each kind of event carries, and the items it is about. *)
LEMMA EventFacts ==
  ASSUME NEW e \in Events
  PROVE  /\ e.kind \in {"levels", "leave", "join", "resync"} \cup SettingKinds
         /\ e.kind = "levels" =>
              /\ DOMAIN e.users \subseteq Everybody
              /\ \A p \in DOMAIN e.users : e.users[p].orig \in Nat /\ e.users[p].new \in Nat
              /\ ItemsOf(e) = DOMAIN e.users \cap Members
         /\ e.kind \in {"leave", "join"} =>
              e.who \in Everybody /\ ItemsOf(e) = {e.who} \cap Members
         /\ e.kind = "resync" => ItemsOf(e) = {}
         /\ e.kind = "profile" => ItemsOf(e) = {"nickname", "portrait"}
         /\ e.kind \in SettingKinds \ {"profile"} => ItemsOf(e) = {e.kind}
         /\ e.kind \in SettingKinds => e.value \in Values /\ ItemsOf(e) \subseteq Settings
         /\ ItemsOf(e) \subseteq Items
<1>1. CASE e \in [kind: {"levels"}, users: LevelChanges]
  <2>1. e.kind = "levels" /\ e.users \in LevelChanges
    BY <1>1
  <2>2. PICK T \in SUBSET Everybody : e.users \in [T -> [orig: Nat, new: Nat]]
    BY <2>1 DEF LevelChanges
  <2>3. DOMAIN e.users = T /\ \A p \in T : e.users[p].orig \in Nat /\ e.users[p].new \in Nat
    BY <2>2
  <2>4. ItemsOf(e) = DOMAIN e.users \cap Members
    BY <2>1 DEF ItemsOf
  <2> QED
    BY <2>1, <2>2, <2>3, <2>4 DEF SettingKinds, Items
<1>2. CASE e \in [kind: {"leave", "join"}, who: Everybody]
  <2>1. e.kind \in {"leave", "join"} /\ e.who \in Everybody
    BY <1>2
  <2>2. ItemsOf(e) = {e.who} \cap Members
    BY <2>1 DEF ItemsOf
  <2> QED
    BY <2>1, <2>2 DEF SettingKinds, Items
<1>3. CASE e \in [kind: SettingKinds, value: Values]
  <2>1. e.kind \in SettingKinds /\ e.value \in Values
    BY <1>3
  <2>2. ItemsOf(e) = IF e.kind = "profile" THEN {"nickname", "portrait"} ELSE {e.kind}
    BY <2>1 DEF ItemsOf, SettingKinds
  <2> QED
    BY <2>1, <2>2 DEF SettingKinds, Settings, Items
<1>4. CASE e \in [kind: {"resync"}]
  <2>1. e.kind = "resync"
    BY <1>4
  <2>2. ItemsOf(e) = {}
    BY <2>1 DEF ItemsOf
  <2> QED
    BY <2>1, <2>2 DEF SettingKinds
<1> QED
  BY <1>1, <1>2, <1>3, <1>4 DEF Events

(* An order has every call of the set, once. *)
LEMMA OrderFacts ==
  ASSUME NEW S, IsFiniteSet(S), NEW s \in Orders(S)
  PROVE  /\ s \in Seq(S)
         /\ Elements(s) = S
         /\ \A i, j \in DOMAIN s : s[i] = s[j] => i = j
<1> DEFINE n == Cardinality(S)
<1>1. n \in Nat
  BY FS_CardinalityType
<1>2. s \in [1..n -> S] /\ \A x \in S : \E i \in 1..n : s[i] = x
  BY DEF Orders
<1> HIDE DEF n
<1>3. s \in Seq(S)
  BY <1>1, <1>2
<1>4. Elements(s) = S
  BY <1>2 DEF Elements
<1>5. IsFiniteSet(1..n) /\ Cardinality(1..n) = n
  BY <1>1, FS_Interval
<1>6. s \in Surjection(1..n, S)
  BY <1>2 DEF Surjection
<1>7. s \in Injection(1..n, S)
  BY <1>5, <1>6, FS_SurjSameCardinalityImpliesInj DEF n
<1>8. \A i, j \in 1..n : s[i] = s[j] => i = j
  BY <1>2, <1>7 DEF Injection, IsInjective
<1> QED
  BY <1>2, <1>3, <1>4, <1>8

(* The calls of a level change: one for each member that becomes or ceases *)
(* to be an admin.                                                         *)
LEMMA AdminCallFacts ==
  ASSUME NEW e \in Events, e.kind = "levels"
  PROVE  /\ IsFiniteSet(AdminCalls(e))
         /\ AdminCalls(e) \subseteq CallRecords
         /\ \A c \in AdminCalls(e) :
              /\ c.item \in ItemsOf(e) /\ c.value \in {"admin", "member"}
              /\ c.value = "admin" <=> e.users[c.item].new >= powerAdmin
              /\ (e.users[c.item].orig >= powerAdmin) # (e.users[c.item].new >= powerAdmin)
         /\ \A p \in ItemsOf(e) :
              (\A c \in AdminCalls(e) : c.item # p) =>
                (e.users[p].orig >= powerAdmin) = (e.users[p].new >= powerAdmin)
         /\ \A c, d \in AdminCalls(e) : c.item = d.item => c = d
<1> DEFINE T == {q \in ItemsOf(e) : (e.users[q].orig >= powerAdmin) # (e.users[q].new >= powerAdmin)}
           call(p) == Set(p, IF e.users[p].new >= powerAdmin THEN "admin" ELSE "member")
<1>1. AdminCalls(e) = {call(p) : p \in T}
  BY DEF AdminCalls
<1>2. T \subseteq Members
  BY EventFacts
<1>3. IsFiniteSet(T)
  BY <1>2, GroupRoomAssumption, FS_Subset
<1>4. IsFiniteSet(AdminCalls(e))
  <2> DEFINE f == [p \in T |-> call(p)]
  <2>1. f \in Surjection(T, AdminCalls(e))
    BY <1>1 DEF Surjection
  <2> QED
    BY <1>3, <2>1, FS_Surjection
<1>5. \A p \in T : /\ call(p).item = p /\ call(p).value \in {"admin", "member"}
                   /\ call(p).value = "admin" <=> e.users[p].new >= powerAdmin
                   /\ call(p) \in CallRecords
  BY <1>2 DEF Set, CallRecords
<1> HIDE DEF call
<1> QED
  BY <1>1, <1>4, <1>5

(* Short sequences. *)
LEMMA ShortSeqs ==
  ASSUME NEW S, NEW a \in S, NEW b \in S
  PROVE  /\ <<>> \in Seq(S) /\ DOMAIN <<>> = {} /\ Elements(<<>>) = {}
         /\ <<a>> \in Seq(S) /\ DOMAIN <<a>> = {1} /\ <<a>>[1] = a /\ Elements(<<a>>) = {a}
         /\ <<a, b>> \in Seq(S) /\ DOMAIN <<a, b>> = {1, 2}
         /\ <<a, b>>[1] = a /\ <<a, b>>[2] = b /\ Elements(<<a, b>>) = {a, b}
BY DEF Elements

(* The calls an event leads to: about its items only, with its value. *)
LEMMA TodoFacts ==
  ASSUME NEW e \in Events, e.kind # "resync", NEW todo \in Todos(e), group \in BOOLEAN
  PROVE  /\ todo \in Seq(CallRecords)
         /\ \A c \in Elements(todo) : c.item \in ItemsOf(e)
         /\ e.kind \in SettingKinds => \A c \in Elements(todo) : c.value = e.value
         /\ group /\ e.kind = "levels" => Elements(todo) = AdminCalls(e)
         /\ group /\ e.kind = "leave" => Elements(todo) = {Set(p, "out") : p \in ItemsOf(e)}
         /\ e.kind = "join" => todo = <<>>
         /\ ApartOrRead(e.kind, todo)
<1> DEFINE Facts ==
         /\ todo \in Seq(CallRecords)
         /\ \A c \in Elements(todo) : c.item \in ItemsOf(e)
         /\ e.kind \in SettingKinds => \A c \in Elements(todo) : c.value = e.value
         /\ ApartOrRead(e.kind, todo)
<1>1. CASE e.kind = "levels"
  <2>1. CASE group
    <3>1. todo \in Orders(AdminCalls(e))
      BY <1>1, <2>1 DEF Todos
    <3>2. /\ todo \in Seq(AdminCalls(e)) /\ Elements(todo) = AdminCalls(e)
          /\ \A i, j \in DOMAIN todo : todo[i] = todo[j] => i = j
      BY <1>1, <3>1, AdminCallFacts, OrderFacts
    <3>3. todo \in Seq(CallRecords)
      BY <1>1, <3>2, AdminCallFacts, SeqMonotonic
    <3>4. \A i, j \in DOMAIN todo : todo[i].item = todo[j].item => i = j
      <4>1. \A i \in DOMAIN todo : todo[i] \in AdminCalls(e)
        BY <3>2 DEF Elements
      <4> QED
        BY <1>1, <3>2, <4>1, AdminCallFacts
    <3> QED
      BY <1>1, <3>2, <3>3, <3>4, AdminCallFacts DEF ApartOrRead, SettingKinds
  <2>2. CASE ~group
    <3>1. todo = <<>>
      BY <1>1, <2>2 DEF Todos
    <3> QED
      BY <1>1, <2>2, <3>1 DEF ApartOrRead, Elements
  <2> QED
    BY <2>1, <2>2
<1>2. CASE e.kind = "leave"
  <2>1. CASE group
    <3> DEFINE S == {Set(p, "out") : p \in ItemsOf(e)}
    <3>1. ItemsOf(e) = {e.who} \cap Members
      BY <1>2, EventFacts
    <3>2. IsFiniteSet(ItemsOf(e))
      <4>1. IsFiniteSet({e.who})
        BY FS_Singleton
      <4> QED
        BY <3>1, <4>1, FS_Intersection
    <3>3. IsFiniteSet(S)
      <4> DEFINE f == [p \in ItemsOf(e) |-> Set(p, "out")]
      <4>1. f \in Surjection(ItemsOf(e), S)
        BY DEF Surjection
      <4> QED
        BY <3>2, <4>1, FS_Surjection
    <3>4. todo \in Orders(S)
      BY <1>2, <2>1 DEF Todos
    <3>5. /\ todo \in Seq(S) /\ Elements(todo) = S
          /\ \A i, j \in DOMAIN todo : todo[i] = todo[j] => i = j
      BY <3>3, <3>4, OrderFacts
    <3>6. S \subseteq CallRecords /\ \A c \in S : c.item \in ItemsOf(e) /\ c = Set(c.item, "out")
      BY <3>1 DEF Set, CallRecords
    <3>7. todo \in Seq(CallRecords)
      <4> HIDE DEF S
      <4> QED
        BY <3>5, <3>6, SeqMonotonic
    <3>8. \A i, j \in DOMAIN todo : todo[i].item = todo[j].item => i = j
      <4>1. \A i \in DOMAIN todo : todo[i] \in S
        BY <3>5 DEF Elements
      <4> HIDE DEF S
      <4> QED
        BY <3>5, <3>6, <4>1
    <3> QED
      BY <1>2, <3>5, <3>6, <3>7, <3>8 DEF ApartOrRead, SettingKinds
  <2>2. CASE ~group
    <3>1. todo = <<>>
      BY <1>2, <2>2 DEF Todos
    <3> QED
      BY <1>2, <2>2, <3>1 DEF ApartOrRead, Elements
  <2> QED
    BY <2>1, <2>2
<1>3. CASE e.kind \in SettingKinds
  <2>1. e.value \in Values /\ ItemsOf(e) \subseteq Settings
        /\ (e.kind # "profile" => ItemsOf(e) = {e.kind})
        /\ (e.kind = "profile" => ItemsOf(e) = {"nickname", "portrait"})
    BY <1>3, EventFacts
  <2>2. \A k \in Settings : /\ Set(k, e.value) \in CallRecords
                            /\ Set(k, e.value).item = k /\ Set(k, e.value).value = e.value
    BY <2>1 DEF Set, CallRecords
  <2>3. CASE todo = <<>>
    BY <2>3, <1>3 DEF ApartOrRead, Elements, SettingKinds
  <2>4. CASE e.kind # "profile" /\ todo = <<Set(e.kind, e.value)>>
    <3> DEFINE a == Set(e.kind, e.value)
    <3>1. e.kind \in ItemsOf(e) /\ e.kind \in Settings
      BY <1>3, <2>1, <2>4
    <3>2. a \in CallRecords /\ a.item = e.kind /\ a.value = e.value
          /\ todo = <<a>>
      BY <2>2, <2>4, <3>1
    <3> HIDE DEF a
    <3>3. todo \in Seq(CallRecords) /\ DOMAIN todo = {1} /\ todo[1] = a /\ Elements(todo) = {a}
      BY <3>2, ShortSeqs
    <3> QED
      BY <1>3, <2>4, <3>1, <3>2, <3>3 DEF ApartOrRead, SettingKinds
  <2>5. CASE e.kind = "read" /\ todo = <<Set(e.kind, e.value), Set(e.kind, e.value)>>
    <3> DEFINE a == Set(e.kind, e.value)
               b == Set(e.kind, e.value)
    <3>1. e.kind \in ItemsOf(e) /\ e.kind \in Settings /\ e.kind \in ItemsOf(e) /\ e.kind \in Settings
      BY <1>3, <2>1, <2>5
    <3>2. a \in CallRecords /\ a.item = e.kind /\ a.value = e.value
          /\ b \in CallRecords /\ b.item = e.kind /\ b.value = e.value
          /\ todo = <<a, b>>
      BY <2>2, <2>5, <3>1
    <3> HIDE DEF a, b
    <3>3. /\ todo \in Seq(CallRecords) /\ DOMAIN todo = {1, 2} /\ todo[1] = a /\ todo[2] = b
          /\ Elements(todo) = {a, b}
      <4>1. /\ <<a, b>> \in Seq(CallRecords) /\ DOMAIN <<a, b>> = {1, 2}
            /\ <<a, b>>[1] = a /\ <<a, b>>[2] = b /\ Elements(<<a, b>>) = {a, b}
        BY <3>2 DEF Elements
      <4> QED
        BY <3>2, <4>1
    <3> QED
      BY <1>3, <2>5, <3>1, <3>2, <3>3 DEF ApartOrRead, SettingKinds
  <2>6. CASE e.kind = "profile" /\ todo = <<Set("nickname", e.value)>>
    <3> DEFINE a == Set("nickname", e.value)
    <3>1. "nickname" \in ItemsOf(e) /\ "nickname" \in Settings
      BY <1>3, <2>1, <2>6
    <3>2. a \in CallRecords /\ a.item = "nickname" /\ a.value = e.value
          /\ todo = <<a>>
      BY <2>2, <2>6, <3>1
    <3> HIDE DEF a
    <3>3. todo \in Seq(CallRecords) /\ DOMAIN todo = {1} /\ todo[1] = a /\ Elements(todo) = {a}
      BY <3>2, ShortSeqs
    <3> QED
      BY <1>3, <2>6, <3>1, <3>2, <3>3 DEF ApartOrRead, SettingKinds
  <2>7. CASE e.kind = "profile" /\ todo = <<Set("nickname", e.value), Set("portrait", e.value)>>
    <3> DEFINE a == Set("nickname", e.value)
               b == Set("portrait", e.value)
    <3>1. "nickname" \in ItemsOf(e) /\ "nickname" \in Settings /\ "portrait" \in ItemsOf(e) /\ "portrait" \in Settings
      BY <1>3, <2>1, <2>7
    <3>2. a \in CallRecords /\ a.item = "nickname" /\ a.value = e.value
          /\ b \in CallRecords /\ b.item = "portrait" /\ b.value = e.value
          /\ todo = <<a, b>>
      BY <2>2, <2>7, <3>1
    <3> HIDE DEF a, b
    <3>3. /\ todo \in Seq(CallRecords) /\ DOMAIN todo = {1, 2} /\ todo[1] = a /\ todo[2] = b
          /\ Elements(todo) = {a, b}
      <4>1. /\ <<a, b>> \in Seq(CallRecords) /\ DOMAIN <<a, b>> = {1, 2}
            /\ <<a, b>>[1] = a /\ <<a, b>>[2] = b /\ Elements(<<a, b>>) = {a, b}
        BY <3>2 DEF Elements
      <4> QED
        BY <3>2, <4>1
    <3> QED
      BY <1>3, <2>7, <3>1, <3>2, <3>3 DEF ApartOrRead, SettingKinds
  <2> QED
    BY <1>3, <2>3, <2>4, <2>5, <2>6, <2>7 DEF Todos, SettingKinds
<1>4. CASE e.kind = "join"
  <2>1. todo = <<>>
    BY <1>4 DEF Todos
  <2> QED
    BY <1>4, <2>1 DEF ApartOrRead, Elements, SettingKinds
<1> QED
  BY <1>1, <1>2, <1>3, <1>4, EventFacts

-----------------------------------------------------------------------------
(* The queue and the calls left, step by step. *)

(* What taking the head of a sequence leaves. *)
LEMMA TailElements ==
  ASSUME NEW S, NEW s \in Seq(S), s # <<>>
  PROVE  /\ DOMAIN s = 1..Len(s) /\ Len(s) \in Nat \ {0} /\ 1 \in DOMAIN s
         /\ DOMAIN Tail(s) = 1..(Len(s) - 1) /\ Tail(s) \in Seq(S)
         /\ Head(s) = s[1] /\ Head(s) \in S
         /\ \A i \in DOMAIN Tail(s) : Tail(s)[i] = s[i + 1] /\ i + 1 \in DOMAIN s
         /\ \A i \in DOMAIN s : i # 1 => i - 1 \in DOMAIN Tail(s) /\ s[i] = Tail(s)[i - 1]
         /\ Elements(s) = Elements(Tail(s)) \cup {Head(s)}
         /\ Elements(Tail(s)) = {s[i] : i \in DOMAIN s \ {1}}
<1>1. DOMAIN s = 1..Len(s) /\ Len(s) \in Nat \ {0} /\ Head(s) = s[1] /\ 1 \in DOMAIN s /\ Head(s) \in S
  BY EmptySeq, HeadTailProperties
<1>2. Tail(s) \in Seq(S) /\ Len(Tail(s)) = Len(s) - 1
      /\ \A i \in 1..Len(Tail(s)) : Tail(s)[i] = s[i + 1]
  BY <1>1, HeadTailProperties
<1>3. DOMAIN Tail(s) = 1..(Len(s) - 1)
  BY <1>2
<1>4. /\ \A i \in DOMAIN Tail(s) : Tail(s)[i] = s[i + 1] /\ i + 1 \in DOMAIN s /\ i + 1 # 1
      /\ \A i \in DOMAIN s : i # 1 => i - 1 \in DOMAIN Tail(s) /\ s[i] = Tail(s)[i - 1]
  BY <1>1, <1>2, <1>3
<1>5. Elements(Tail(s)) = {s[i] : i \in DOMAIN s \ {1}}
  <2>1. \A i \in DOMAIN Tail(s) : Tail(s)[i] \in {s[j] : j \in DOMAIN s \ {1}}
    BY <1>4
  <2>2. \A i \in DOMAIN s \ {1} : s[i] \in Elements(Tail(s))
    BY <1>4 DEF Elements
  <2> QED
    BY <2>1, <2>2 DEF Elements
<1>6. Elements(s) = Elements(Tail(s)) \cup {Head(s)}
  BY <1>1, <1>5 DEF Elements
<1> QED
  BY <1>1, <1>2, <1>3, <1>4, <1>5, <1>6

(* The portal's queue without the event it has taken. *)
LEMMA QueueTail ==
  ASSUME Types, queue # <<>>, queue' = Tail(queue)
  PROVE  /\ DOMAIN queue = 1..Len(queue) /\ Len(queue) \in Nat \ {0} /\ 1 \in DOMAIN queue
         /\ DOMAIN queue' = 1..(Len(queue) - 1) /\ queue' \in Seq(Events)
         /\ Head(queue) = queue[1] /\ Head(queue) \in Events
         /\ \A i \in DOMAIN queue' : queue'[i] = queue[i + 1] /\ i + 1 \in DOMAIN queue
         /\ \A i \in DOMAIN queue : i # 1 => i - 1 \in DOMAIN queue' /\ queue[i] = queue'[i - 1]
BY TailElements DEF Types

(* The portal's queue with one more event. *)
LEMMA QueueAppend ==
  ASSUME Types, NEW e \in Events, queue' = Append(queue, e)
  PROVE  /\ DOMAIN queue = 1..Len(queue) /\ Len(queue) \in Nat
         /\ DOMAIN queue' = 1..(Len(queue) + 1) /\ queue' \in Seq(Events)
         /\ \A i \in 1..Len(queue) : queue'[i] = queue[i]
         /\ queue'[Len(queue) + 1] = e
BY AppendProperties DEF Types

(* The queue holds events only. *)
LEMMA QueueEvents ==
  ASSUME Types
  PROVE  /\ DOMAIN queue = 1..Len(queue) /\ Len(queue) \in Nat
         /\ \A i \in DOMAIN queue : queue[i] \in Events
BY DEF Types

(* The handler with the calls in todo. *)
LEMMA GoOnFacts ==
  ASSUME NEW kind \in HandlerKinds, NEW todo \in Seq(CallRecords), GoOn(kind, todo),
         todo # <<>> => kind \notin {"none", "resync"}, ApartOrRead(kind, todo)
  PROVE  /\ HandlerShape'
         /\ Pending' = Elements(todo)
         /\ handler'.stage # "done" /\ handler'.kind # "resync"
         /\ handler'.todo \in Seq(CallRecords)
         /\ handler'.stage \in {"asked", "done"} <=> handler'.todo # <<>>
<1>1. CASE todo = <<>>
  <2>1. handler' = [kind |-> "none", todo |-> <<>>, stage |-> "none"]
    BY <1>1 DEF GoOn, Idle
  <2>2. handler'.kind = "none" /\ handler'.todo = <<>> /\ handler'.stage = "none"
    BY <2>1
  <2>3. DOMAIN handler'.todo = {}
    BY <2>2
  <2>4. Pending' = {} /\ Elements(todo) = {}
    BY <1>1, <2>3 DEF Pending, Elements
  <2>5. ApartOrRead(handler'.kind, handler'.todo)
    BY <2>2, <2>3 DEF ApartOrRead
  <2>6. handler' \in [kind: HandlerKinds, todo: Seq(CallRecords), stage: {"none", "asked", "done"}]
    BY <2>1 DEF HandlerKinds
  <2> QED
    BY <2>2, <2>4, <2>5, <2>6 DEF HandlerShape
<1>2. CASE todo # <<>>
  <2>1. handler' = [kind |-> kind, todo |-> todo, stage |-> "asked"]
    BY <1>2 DEF GoOn
  <2>2. handler'.kind = kind /\ handler'.todo = todo /\ handler'.stage = "asked"
    BY <2>1
  <2>3. Pending' = Elements(todo)
    BY <2>2 DEF Pending, Elements
  <2>4. handler' \in [kind: HandlerKinds, todo: Seq(CallRecords), stage: {"none", "asked", "done"}]
    BY <2>1
  <2> QED
    BY <1>2, <2>2, <2>3, <2>4 DEF HandlerShape
<1> QED
  BY <1>1, <1>2

(* The first of the handler's calls and the rest.                          *)
LEMMA RestFacts ==
  ASSUME Types, handler.todo # <<>>
  PROVE  /\ handler.kind \in HandlerKinds \ {"none", "resync"}
         /\ handler.stage \in {"asked", "done"}
         /\ Head(handler.todo) = handler.todo[1] /\ Head(handler.todo) \in CallRecords
         /\ Tail(handler.todo) \in Seq(CallRecords)
         /\ ApartOrRead(handler.kind, Tail(handler.todo))
         /\ Elements(handler.todo) = Elements(Tail(handler.todo)) \cup {Head(handler.todo)}
         /\ handler.stage = "done" => Pending = Elements(Tail(handler.todo))
         /\ handler.stage = "asked" => Pending = Elements(handler.todo)
         /\ handler.kind # "read" =>
              \A c \in Elements(Tail(handler.todo)) : c.item # Head(handler.todo).item
         /\ handler.kind = "read" => \A c \in Elements(handler.todo) : c.item = "read"
<1>1. /\ handler.todo \in Seq(CallRecords) /\ handler.kind \in HandlerKinds \ {"none", "resync"}
      /\ handler.stage \in {"asked", "done"} /\ ApartOrRead(handler.kind, handler.todo)
  BY DEF Types, HandlerShape, TypeOK
<1> DEFINE s == handler.todo
<1>2. /\ DOMAIN s \subseteq Nat /\ 1 \in DOMAIN s
      /\ DOMAIN Tail(s) \subseteq Nat /\ Tail(s) \in Seq(CallRecords)
      /\ Head(s) = s[1] /\ Head(s) \in CallRecords
      /\ \A i \in DOMAIN Tail(s) : Tail(s)[i] = s[i + 1] /\ i + 1 \in DOMAIN s
      /\ Elements(s) = Elements(Tail(s)) \cup {Head(s)}
      /\ Elements(Tail(s)) = {s[i] : i \in DOMAIN s \ {1}}
  BY <1>1, TailElements
<1>3. ApartOrRead(handler.kind, Tail(s))
  <2>1. ASSUME handler.kind # "read", NEW i \in DOMAIN Tail(s), NEW j \in DOMAIN Tail(s),
               Tail(s)[i].item = Tail(s)[j].item
        PROVE  i = j
    <3>1. i + 1 = j + 1
      BY <1>1, <1>2, <2>1 DEF ApartOrRead
    <3> QED
      BY <1>2, <3>1
  <2>2. ASSUME handler.kind = "read", NEW i \in DOMAIN Tail(s) PROVE Tail(s)[i].item = "read"
    BY <1>1, <1>2, <2>2 DEF ApartOrRead
  <2> QED
    BY <2>1, <2>2 DEF ApartOrRead
<1>4. /\ handler.stage = "done" => Pending = {s[i] : i \in DOMAIN s \ {1}}
      /\ handler.stage = "asked" => Pending = Elements(s)
  BY DEF Pending, Elements
<1>5. handler.kind # "read" => \A c \in Elements(Tail(s)) : c.item # Head(s).item
  BY <1>1, <1>2 DEF ApartOrRead
<1>6. handler.kind = "read" => \A c \in Elements(s) : c.item = "read"
  BY <1>1 DEF ApartOrRead, Elements
<1> QED
  BY <1>1, <1>2, <1>3, <1>4, <1>5, <1>6

(* An item is called about iff some call that is left names it. *)
LEMMA CalledElements == \A todo, k : k \in Called(todo) <=> \E c \in Elements(todo) : c.item = k
BY DEF Called, Elements

-----------------------------------------------------------------------------
(* Types. *)

(* The types at the start. *)
LEMMA TypesInit == Init => Types
<1> SUFFICES ASSUME Init PROVE Types
  OBVIOUS
<1>1. role \in [Members -> Roles]
  BY DEF Init, Nothing, Roles
<1>2. snap \in [Members -> Roles]
  BY DEF Init, Nothing, Roles
<1>3. setting \in [Settings -> Values] /\ wanted \in [Settings -> Values]
  BY GroupRoomAssumption DEF Init
<1>4. level \in [Everybody -> Nat]
  BY DEF Init, LevelOf, powerSuperAdmin, powerAdmin, powerDefault
<1>5. joined \subseteq Everybody
  BY DEF Init, Present, Everybody
<1>6. /\ handler = [kind |-> "none", todo |-> <<>>, stage |-> "none"]
      /\ handler.kind = "none" /\ handler.todo = <<>> /\ handler.stage = "none"
      /\ DOMAIN handler.todo = {}
  BY DEF Init, Idle
<1>7. HandlerShape
  BY <1>6 DEF HandlerShape, HandlerKinds, ApartOrRead
<1>8. queue = <<>> /\ late = {} /\ touched = {} /\ dirty = {} /\ events = 0 /\ changes = 0
      /\ group \in BOOLEAN /\ (~group => role = Nothing)
  BY DEF Init
<1>9. 0 \in 0..MaxEvents /\ 0 \in 0..MaxQQ
  BY GroupRoomAssumption
<1>10. handler.todo \in Seq(CallRecords) /\ (handler.stage \in {"asked", "done"} <=> handler.todo # <<>>)
  BY <1>6
<1>11. TypeOK
  BY <1>1, <1>2, <1>3, <1>4, <1>5, <1>8, <1>9, <1>10 DEF TypeOK
<1> QED
  BY <1>7, <1>8, <1>11 DEF Types, PrivateHasNoRoles

(* Matrix makes a change and queues its event: the types survive. *)
LEMMA PostTypes ==
  ASSUME Types, NEW e \in Events, Post(e),
         level' \in [Everybody -> Nat], joined' \subseteq Everybody,
         wanted' \in [Settings -> Values]
  PROVE  Types'
<1>1. queue' \in Seq(Events)
  BY QueueAppend DEF Post
<1>2. events' \in 0..MaxEvents
  <2>1. events \in 0..MaxEvents /\ events < MaxEvents /\ events' = events + 1 /\ MaxEvents \in Nat
    BY GroupRoomAssumption DEF Post, Types, TypeOK
  <2> QED
    BY <2>1
<1>3. UNCHANGED <<group, role, setting, handler, snap, late, touched, dirty, changes>>
  BY DEF Post, qq
<1>4. TypeOK'
  BY <1>2, <1>3 DEF Types, TypeOK
<1>5. HandlerShape' /\ PrivateHasNoRoles'
  BY <1>3 DEF Types, HandlerShape, PrivateHasNoRoles, Nothing
<1> QED
  BY <1>1, <1>4, <1>5 DEF Types

(* A change of power levels queues a well-formed event. *)
LEMMA PostLevelsEvent ==
  ASSUME Types, NEW T \in SUBSET Everybody, NEW new \in [T -> Levels], PostLevels(new)
  PROVE  /\ [kind |-> "levels", users |-> [p \in DOMAIN new |-> [orig |-> level[p], new |-> new[p]]]] \in Events
         /\ level' \in [Everybody -> Nat] /\ joined' \subseteq Everybody
         /\ wanted' \in [Settings -> Values]
<1>1. DOMAIN new = T /\ \A p \in T : new[p] \in Nat /\ level[p] \in Nat
  BY GroupRoomAssumption DEF Types, TypeOK
<1>2. [p \in DOMAIN new |-> [orig |-> level[p], new |-> new[p]]] \in [T -> [orig: Nat, new: Nat]]
  BY <1>1
<1>3. [p \in DOMAIN new |-> [orig |-> level[p], new |-> new[p]]] \in LevelChanges
  BY <1>2 DEF LevelChanges
<1>4. level' \in [Everybody -> Nat]
  BY <1>1 DEF PostLevels, Types, TypeOK
<1> QED
  BY <1>3, <1>4 DEF PostLevels, Types, TypeOK, Events

(* So does a change of a setting, and only its items are wanted anew. *)
LEMMA PostSettingEvent ==
  ASSUME Types, NEW kind \in SettingKinds, NEW v \in Values, PostSetting(kind, v)
  PROVE  /\ [kind |-> kind, value |-> v] \in Events
         /\ Post([kind |-> kind, value |-> v])
         /\ ItemsOf([kind |-> kind, value |-> v]) \subseteq Settings
         /\ wanted' = [k \in Settings |-> IF k \in ItemsOf([kind |-> kind, value |-> v])
                                          THEN v ELSE wanted[k]]
         /\ wanted' \in [Settings -> Values] /\ UNCHANGED <<level, joined>>
<1> DEFINE e == [kind |-> kind, value |-> v]
<1>1. e \in Events /\ e.kind = kind
  BY DEF Events
<1>2. ItemsOf(e) = (IF kind = "profile" THEN {"nickname", "portrait"} ELSE {kind})
      /\ ItemsOf(e) \subseteq Settings
  BY <1>1, EventFacts
<1>3. Post(e) /\ UNCHANGED <<level, joined>>
      /\ wanted' = [k \in Settings |-> IF k \in ItemsOf(e) THEN v ELSE wanted[k]]
  BY <1>2 DEF PostSetting
<1>4. wanted' \in [Settings -> Values]
  BY <1>3 DEF Types, TypeOK
<1> QED
  BY <1>1, <1>2, <1>3, <1>4

(* So does a user's leaving. *)
LEMMA PostLeaveEvent ==
  ASSUME Types, NEW p \in Everybody, PostLeave(p)
  PROVE  /\ [kind |-> "leave", who |-> p] \in Events
         /\ level' \in [Everybody -> Nat] /\ joined' \subseteq Everybody
         /\ wanted' \in [Settings -> Values]
BY DEF PostLeave, Events, Types, TypeOK

(* And a user's joining. *)
LEMMA PostJoinEvent ==
  ASSUME Types, NEW p \in Everybody, PostJoin(p)
  PROVE  /\ [kind |-> "join", who |-> p] \in Events
         /\ level' \in [Everybody -> Nat] /\ joined' \subseteq Everybody
         /\ wanted' \in [Settings -> Values]
BY DEF PostJoin, Events, Types, TypeOK

(* A call that QQ carries out changes its own item, to its own value. *)
LEMMA ExecuteFacts ==
  ASSUME Types, NEW c \in CallRecords, Execute(c)
  PROVE  /\ role' \in [Members -> Roles] /\ setting' \in [Settings -> Values]
         /\ touched' \subseteq Members
         /\ ~group => role' = role
         /\ \A m \in Members : m # c.item => role'[m] = role[m]
         /\ \A k \in Settings : k # c.item => setting'[k] = setting[k]
         /\ c.item \in Members =>
              /\ role[c.item] \in {"admin", "member"} /\ role'[c.item] = c.value
              /\ c.value \in {"admin", "member", "out"}
              /\ handler.kind = "resync" => touched' = touched \cup {c.item}
         /\ c.item \in Settings => setting'[c.item] = c.value /\ role' = role /\ touched' = touched
         /\ c.item \in Members \/ c.item \in Settings
<1>0. role \in [Members -> Roles] /\ setting \in [Settings -> Values] /\ touched \subseteq Members
  BY DEF Types, TypeOK
<1>1. Members \cap Settings = {} /\ Self \in Members
  BY GroupRoomAssumption
<1>2. \/ c.item \in Members /\ c.value \in {"admin", "member", "out"}
      \/ c.item \in Settings /\ c.value \in Values
  BY DEF CallRecords
<1>3. CASE c.item \in Members
  <2>1. /\ role[Self] # "out" /\ role[c.item] \in {"admin", "member"}
        /\ role' = [role EXCEPT ![c.item] = c.value]
        /\ touched' = IF handler.kind = "resync" THEN touched \cup {c.item} ELSE {}
        /\ setting' = setting
    BY <1>3 DEF Execute
  <2>2. c.value \in {"admin", "member", "out"} /\ c.value \in Roles /\ c.item \notin Settings
    BY <1>1, <1>2, <1>3 DEF Roles
  <2>3. group
    BY <1>1, <2>1 DEF Types, PrivateHasNoRoles, Nothing
  <2> QED
    BY <1>0, <1>3, <2>1, <2>2, <2>3
<1>4. CASE c.item \in Settings
  <2>1. setting' = [setting EXCEPT ![c.item] = c.value] /\ role' = role /\ touched' = touched
        /\ c.value \in Values /\ c.item \notin Members
    BY <1>1, <1>2, <1>4 DEF Execute
  <2> QED
    BY <1>0, <1>4, <2>1
<1> QED
  BY <1>2, <1>3, <1>4

(* The queue's first event goes to the handler. *)
LEMMA HandleFacts ==
  ASSUME Types, Handle
  PROVE  /\ queue # <<>> /\ queue' = Tail(queue) /\ handler = Idle
         /\ Pending = {}
         /\ HandlerShape' /\ handler'.todo \in Seq(CallRecords)
         /\ handler'.stage \in {"asked", "done"} <=> handler'.todo # <<>>
         /\ handler'.stage # "done" /\ handler'.kind # "resync"
         /\ \E todo \in Todos(Head(queue)) :
              /\ Pending' = Elements(todo)
              /\ dirty' = dirty \cup Untold(Head(queue), todo)
         /\ Head(queue) \in Events /\ Head(queue).kind # "resync"
<1>1. /\ queue # <<>> /\ queue' = Tail(queue) /\ handler = Idle /\ Head(queue).kind # "resync"
  BY DEF Handle
<1>2. Head(queue) \in Events /\ Head(queue).kind \in HandlerKinds \ {"none", "resync"}
  BY <1>1, QueueTail, EventFacts DEF HandlerKinds, SettingKinds
<1>3. Pending = {}
  <2>1. handler.todo = <<>>
    BY <1>1 DEF Idle
  <2>2. DOMAIN handler.todo = {}
    BY <2>1
  <2> QED
    BY <2>2 DEF Pending
<1>4. PICK todo \in Todos(Head(queue)) :
        /\ GoOn(Head(queue).kind, todo)
        /\ dirty' = dirty \cup Untold(Head(queue), todo)
  BY DEF Handle
<1>5. todo \in Seq(CallRecords) /\ ApartOrRead(Head(queue).kind, todo)
  BY <1>1, <1>2, TodoFacts DEF Types, TypeOK
<1>6. /\ HandlerShape' /\ Pending' = Elements(todo)
      /\ handler'.stage # "done" /\ handler'.kind # "resync"
      /\ handler'.todo \in Seq(CallRecords)
      /\ handler'.stage \in {"asked", "done"} <=> handler'.todo # <<>>
  BY <1>2, <1>4, <1>5, GoOnFacts
<1> QED
  BY <1>1, <1>2, <1>3, <1>4, <1>6

(* The rest of the calls after one. *)
LEMMA AfterFacts ==
  ASSUME Types, handler.todo # <<>>, NEW rest \in {<<>>, Tail(handler.todo)},
         GoOn(handler.kind, rest)
  PROVE  /\ HandlerShape' /\ Pending' = Elements(rest)
         /\ handler'.stage # "done" /\ handler'.kind # "resync"
         /\ handler'.todo \in Seq(CallRecords)
         /\ handler'.stage \in {"asked", "done"} <=> handler'.todo # <<>>
<1>1. rest \in Seq(CallRecords) /\ ApartOrRead(handler.kind, rest)
  <2>1. CASE rest = Tail(handler.todo)
    BY <2>1, RestFacts
  <2>2. CASE rest = <<>>
    BY <2>2 DEF ApartOrRead
  <2> QED
    BY <2>1, <2>2
<1>2. handler.kind \in HandlerKinds \ {"none", "resync"}
  BY RestFacts
<1> QED
  BY <1>1, <1>2, GoOnFacts

(* The call under way is carried out. *)
LEMMA CarryOutFacts ==
  ASSUME Types, CarryOut
  PROVE  LET c == Head(handler.todo)
         IN  /\ handler.stage = "asked" /\ handler.todo # <<>> /\ handler.kind # "resync"
             /\ c \in CallRecords /\ c = handler.todo[1] /\ Execute(c)
             /\ Pending = Elements(handler.todo) /\ c \in Pending
             /\ Pending' = Elements(Tail(handler.todo))
             /\ Pending = Pending' \cup {c}
             /\ HandlerShape' /\ handler'.todo = handler.todo /\ handler'.stage = "done"
             /\ handler'.kind = handler.kind
             /\ c.item \in Members => \A d \in Pending' : d.item # c.item
<1>1. handler.stage = "asked" /\ handler.todo # <<>> /\ Execute(Head(handler.todo))
  BY DEF CarryOut, Types, TypeOK
<1>2. /\ handler.kind # "resync" /\ Head(handler.todo) \in CallRecords
      /\ Head(handler.todo) = handler.todo[1]
      /\ Pending = Elements(handler.todo)
      /\ Elements(handler.todo) = Elements(Tail(handler.todo)) \cup {Head(handler.todo)}
  BY <1>1, RestFacts
<1>3. handler' = [handler EXCEPT !.stage = "done"]
  BY DEF CarryOut
<1>4. handler \in [kind: HandlerKinds, todo: Seq(CallRecords), stage: {"none", "asked", "done"}]
  BY DEF Types, HandlerShape
<1>5. /\ handler' \in [kind: HandlerKinds, todo: Seq(CallRecords), stage: {"none", "asked", "done"}]
      /\ handler'.kind = handler.kind /\ handler'.todo = handler.todo /\ handler'.stage = "done"
  BY <1>3, <1>4
<1>6. HandlerShape'
  BY <1>5 DEF Types, HandlerShape
<1>7. Pending' = Elements(Tail(handler.todo))
  <2>1. Pending' = {handler.todo[i] : i \in DOMAIN handler.todo \ {1}}
    BY <1>5 DEF Pending
  <2> QED
    BY <1>1, <2>1, TailElements DEF Types, TypeOK
<1>8. ASSUME Head(handler.todo).item \in Members
      PROVE  \A d \in Pending' : d.item # Head(handler.todo).item
  <2>1. "read" \notin Members
    BY GroupRoomAssumption DEF Settings
  <2> QED
    BY <1>1, <1>2, <1>7, <1>8, <2>1, RestFacts
<1> QED
  BY <1>1, <1>2, <1>5, <1>6, <1>7, <1>8

(* What no step of the handlers touches stays of its type. *)
LEMMA TypesKept ==
  ASSUME Types, group' = group, events' = events,
         setting' \in [Settings -> Values], wanted' \in [Settings -> Values],
         role' \in [Members -> Roles], snap' \in [Members -> Roles], ~group => role' = role,
         level' \in [Everybody -> Nat], joined' \subseteq Everybody,
         HandlerShape', handler'.todo \in Seq(CallRecords),
         handler'.stage \in {"asked", "done"} <=> handler'.todo # <<>>,
         late' \subseteq CallRecords, touched' \subseteq Members, dirty' \subseteq Items,
         changes' \in 0..MaxQQ, queue' \in Seq(Events)
  PROVE  Types'
<1>1. TypeOK'
  BY DEF Types, TypeOK
<1>2. PrivateHasNoRoles'
  BY DEF Types, PrivateHasNoRoles, Nothing
<1> QED
  BY <1>1, <1>2 DEF Types

(* The handler is left alone. *)
LEMMA HandlerKept ==
  ASSUME Types, handler' = handler
  PROVE  /\ HandlerShape' /\ handler'.todo \in Seq(CallRecords)
         /\ handler'.stage \in {"asked", "done"} <=> handler'.todo # <<>>
         /\ Pending' = Pending
BY DEF Types, TypeOK, HandlerShape, Pending

(* The handler of a resync, and none. *)
LEMMA IdleFacts ==
  ASSUME NEW kind \in {"none", "resync"},
         handler' = [kind |-> kind, todo |-> <<>>, stage |-> "none"]
  PROVE  /\ HandlerShape' /\ handler'.todo \in Seq(CallRecords)
         /\ handler'.stage \in {"asked", "done"} <=> handler'.todo # <<>>
         /\ Pending' = {} /\ handler'.kind = kind /\ handler'.stage = "none"
<1>2. handler'.kind = kind /\ handler'.todo = <<>> /\ handler'.stage = "none"
  OBVIOUS
<1>3. DOMAIN handler'.todo = {}
  BY <1>2
<1>4. Pending' = {} /\ ApartOrRead(handler'.kind, handler'.todo)
  BY <1>2, <1>3 DEF Pending, ApartOrRead
<1>5. handler' \in [kind: HandlerKinds, todo: Seq(CallRecords), stage: {"none", "asked", "done"}]
  BY DEF HandlerKinds
<1> QED
  BY <1>2, <1>4, <1>5 DEF HandlerShape

(* Every step keeps the types. *)
LEMMA NextTypes == Types /\ [Next]_vars => Types'
<1> SUFFICES ASSUME Types, [Next]_vars PROVE Types'
  OBVIOUS
<1> USE DEF qq, matrix
<1>0. /\ group \in BOOLEAN /\ events \in 0..MaxEvents /\ changes \in 0..MaxQQ
      /\ setting \in [Settings -> Values] /\ wanted \in [Settings -> Values]
      /\ role \in [Members -> Roles] /\ snap \in [Members -> Roles]
      /\ level \in [Everybody -> Nat] /\ joined \subseteq Everybody
      /\ late \subseteq CallRecords /\ touched \subseteq Members /\ dirty \subseteq Items
      /\ queue \in Seq(Events)
  BY DEF Types, TypeOK
<1>1. CASE PostSome
  <2>1. ASSUME NEW T \in SUBSET Everybody, NEW new \in [T -> Levels], PostLevels(new)
        PROVE  Types'
    <3>1. Post([kind |-> "levels", users |-> [p \in DOMAIN new |-> [orig |-> level[p], new |-> new[p]]]])
      BY <2>1 DEF PostLevels
    <3> QED
      BY <2>1, <3>1, PostLevelsEvent, PostTypes
  <2>2. ASSUME NEW p \in Everybody, PostLeave(p) PROVE Types'
    <3>1. Post([kind |-> "leave", who |-> p])
      BY <2>2 DEF PostLeave
    <3> QED
      BY <2>2, <3>1, PostLeaveEvent, PostTypes
  <2>4. ASSUME NEW p \in Everybody, PostJoin(p) PROVE Types'
    <3>1. Post([kind |-> "join", who |-> p])
      BY <2>4 DEF PostJoin
    <3> QED
      BY <2>4, <3>1, PostJoinEvent, PostTypes
  <2>3. ASSUME NEW k \in SettingKinds, NEW v \in Values, PostSetting(k, v) PROVE Types'
    <3>1. joined' \subseteq Everybody /\ level' \in [Everybody -> Nat]
      BY <1>0, <2>3, PostSettingEvent
    <3> QED
      BY <2>3, <3>1, PostSettingEvent, PostTypes
  <2> QED
    BY <1>1, <2>1, <2>2, <2>3, <2>4 DEF PostSome, SettingKinds
<1>2. CASE QueueResync
  <2>1. queue' \in Seq(Events)
    <3>1. [kind |-> "resync"] \in Events
      BY DEF Events
    <3> QED
      BY <1>2, <3>1, QueueAppend DEF QueueResync
  <2> QED
    BY <1>0, <1>2, <2>1, HandlerKept, TypesKept DEF QueueResync
<1>3. CASE HandleOffline
  <2>1. queue' \in Seq(Events) /\ ItemsOf(Head(queue)) \subseteq Items
    BY <1>3, QueueTail, EventFacts DEF HandleOffline
  <2> QED
    BY <1>0, <1>3, <2>1, HandlerKept, TypesKept DEF HandleOffline
<1>4. CASE Handle
  <2>1. queue' \in Seq(Events) /\ ItemsOf(Head(queue)) \subseteq Items
    BY <1>4, HandleFacts, QueueTail, EventFacts
  <2>2. dirty' \subseteq Items
    BY <1>0, <1>4, <2>1, HandleFacts DEF Untold
  <2> QED
    BY <1>0, <1>4, <2>1, <2>2, HandleFacts, TypesKept DEF Handle
<1>5. CASE Return
  <2>1. handler.todo # <<>>
    BY <1>5 DEF Return, Types, TypeOK
  <2>2. PICK rest \in {<<>>, Tail(handler.todo)} : GoOn(handler.kind, rest)
    BY <1>5 DEF Return
  <2> QED
    BY <1>0, <1>5, <2>1, <2>2, AfterFacts, TypesKept DEF Return
<1>6. CASE Fail
  <2>1. handler.todo # <<>>
    BY <1>6 DEF Fail
  <2>2. PICK rest \in {<<>>, Tail(handler.todo)} :
          GoOn(handler.kind, rest) /\ dirty' = dirty \cup (Called(handler.todo) \ Called(rest))
    BY <1>6 DEF Fail
  <2>3. late' \subseteq CallRecords
    BY <1>0, <1>6, <2>1, RestFacts DEF Fail
  <2>4. dirty' \subseteq Items
    <3>1. \A i \in DOMAIN handler.todo : handler.todo[i] \in CallRecords
      BY DEF Types, TypeOK
    <3>2. Called(handler.todo) \subseteq Items
      BY <3>1 DEF Called, CallRecords, Items
    <3> QED
      BY <1>0, <2>2, <3>2
  <2> QED
    BY <1>0, <1>6, <2>1, <2>2, <2>3, <2>4, AfterFacts, TypesKept DEF Fail
<1>7. CASE ResyncFetch
  <2>1. queue' \in Seq(Events)
    BY <1>7, QueueTail DEF ResyncFetch
  <2>2. handler' = [kind |-> "resync", todo |-> <<>>, stage |-> "none"]
    BY <1>7 DEF ResyncFetch, Idle
  <2> QED
    BY <1>0, <1>7, <2>1, <2>2, IdleFacts, TypesKept DEF ResyncFetch
<1>8. CASE ResyncApply
  <2>1. handler' = [kind |-> "none", todo |-> <<>>, stage |-> "none"]
    BY <1>8 DEF ResyncApply, Idle
  <2>2. level' \in [Everybody -> Nat]
    BY <1>0, <1>8 DEF ResyncApply, LevelOf, powerSuperAdmin, powerAdmin, powerDefault
  <2>3. joined' \subseteq Everybody
    BY <1>0, <1>8 DEF ResyncApply, Present, Everybody
  <2>4. wanted' \in [Settings -> Values]
    <3>1. setting["name"] \in Values
      BY <1>0 DEF Settings
    <3> QED
      BY <1>0, <1>8, <3>1 DEF ResyncApply
  <2>5. dirty' \subseteq Items
    <3>1. \A i \in DOMAIN queue : ItemsOf(queue[i]) \subseteq Items
      BY QueueEvents, EventFacts
    <3> QED
      BY <1>0, <1>8, <3>1 DEF ResyncApply, Items
  <2>6. snap' \in [Members -> Roles]
    BY <1>8 DEF ResyncApply, Nothing, Roles
  <2> QED
    BY <1>0, <1>8, <2>1, <2>2, <2>3, <2>4, <2>5, <2>6, IdleFacts, TypesKept DEF ResyncApply
<1>9. CASE CarryOut
  <2>1. /\ role' \in [Members -> Roles] /\ setting' \in [Settings -> Values]
        /\ touched' \subseteq Members /\ (~group => role' = role)
    BY <1>9, CarryOutFacts, ExecuteFacts
  <2>2. /\ HandlerShape' /\ handler'.todo \in Seq(CallRecords)
        /\ handler'.stage \in {"asked", "done"} <=> handler'.todo # <<>>
    BY <1>9, CarryOutFacts DEF Types, TypeOK
  <2> QED
    BY <1>0, <1>9, <2>1, <2>2, TypesKept DEF CarryOut
<1>10. CASE CarryOutLate
  <2>1. PICK c \in late : Execute(c) /\ late' = late \ {c} /\ dirty' = dirty \cup {c.item}
    BY <1>10 DEF CarryOutLate
  <2>2. c \in CallRecords
    BY <1>0
  <2>3. /\ role' \in [Members -> Roles] /\ setting' \in [Settings -> Values]
        /\ touched' \subseteq Members /\ (~group => role' = role)
        /\ (c.item \in Members \/ c.item \in Settings)
    BY <2>1, <2>2, ExecuteFacts
  <2>4. dirty' \subseteq Items /\ late' \subseteq CallRecords
    BY <1>0, <2>1, <2>3 DEF Items
  <2> QED
    BY <1>0, <1>10, <2>3, <2>4, HandlerKept, TypesKept DEF CarryOutLate
<1>11. ASSUME NEW m \in Members, NEW r \in {"admin", "member", "out"}, QQChange(m, r)
       PROVE  Types'
  <2>1. role' \in [Members -> Roles] /\ dirty' \subseteq Items /\ touched' \subseteq Members /\ group
    BY <1>0, <1>11 DEF QQChange, Roles, Items
  <2>2. changes' \in 0..MaxQQ
    BY <1>0, <1>11, GroupRoomAssumption DEF QQChange
  <2> QED
    BY <1>0, <1>11, <2>1, <2>2, HandlerKept, TypesKept DEF QQChange
<1>12. CASE UNCHANGED vars
  BY <1>0, <1>12, HandlerKept, TypesKept DEF vars
<1> QED
  BY <1>1, <1>2, <1>3, <1>4, <1>5, <1>6, <1>7, <1>8, <1>9, <1>10, <1>11, <1>12
     DEF Next, HandlerStep

-----------------------------------------------------------------------------
(* What a resync has fetched. *)

(* What a resync has fetched stays true of those who are not touched. *)
LEMMA NextSnap == Types /\ SnapIsFresh /\ [Next]_vars => SnapIsFresh'
<1> SUFFICES ASSUME Types, SnapIsFresh, [Next]_vars, handler'.kind = "resync",
                    NEW n \in Members \ touched'
             PROVE  snap'[n] = role'[n]
  BY DEF SnapIsFresh
<1> USE DEF qq
<1>0. role \in [Members -> Roles]
  BY DEF Types, TypeOK
<1>1. CASE ResyncFetch
  BY <1>1 DEF ResyncFetch
<1>2. CASE CarryOut
  <2>1. handler'.kind # "resync"
    BY <1>2, CarryOutFacts
  <2> QED
    BY <2>1
<1>3. CASE CarryOutLate
  <2>1. PICK c \in late : Execute(c)
    BY <1>3 DEF CarryOutLate
  <2>2. c \in CallRecords /\ handler.kind = "resync" /\ snap' = snap
    BY <1>3 DEF Types, TypeOK, CarryOutLate
  <2>3. /\ \A m \in Members : m # c.item => role'[m] = role[m]
        /\ c.item \in Members => touched' = touched \cup {c.item}
        /\ c.item \in Settings => touched' = touched /\ role' = role
        /\ c.item \in Members \/ c.item \in Settings
    <3>1. c \in CallRecords /\ Execute(c) /\ handler.kind = "resync"
      BY <2>1, <2>2
    <3>2. c.item \in Members => touched' = touched \cup {c.item}
      BY <3>1 DEF Execute
    <3> QED
      BY <3>1, <3>2, ExecuteFacts
  <2>4. n \notin touched /\ role'[n] = role[n]
    BY <2>3
  <2> QED
    BY <2>2, <2>4 DEF SnapIsFresh
<1>4. ASSUME NEW m \in Members, NEW r \in {"admin", "member", "out"}, QQChange(m, r)
      PROVE  snap'[n] = role'[n]
  BY <1>0, <1>4 DEF QQChange, SnapIsFresh
<1>5. CASE ResyncApply
  <2>1. handler' = [kind |-> "none", todo |-> <<>>, stage |-> "none"]
    BY <1>5 DEF ResyncApply, Idle
  <2> QED
    BY <2>1
<1>6. CASE Handle
  <2>1. handler'.kind # "resync"
    BY <1>6, HandleFacts
  <2> QED
    BY <2>1
<1>7. CASE Return \/ Fail
  <2>1. handler.todo # <<>>
    BY <1>7 DEF Return, Fail, Types, TypeOK
  <2>2. \E rest \in {<<>>, Tail(handler.todo)} : GoOn(handler.kind, rest)
    BY <1>7 DEF Return, Fail
  <2>3. handler'.kind # "resync"
    BY <2>1, <2>2, AfterFacts
  <2> QED
    BY <2>3
<1>8. CASE PostSome \/ QueueResync \/ HandleOffline \/ UNCHANGED vars
  <2>1. handler' = handler /\ snap' = snap /\ role' = role /\ touched' = touched
    BY <1>8 DEF PostSome, PostLevels, PostLeave, PostJoin, PostSetting, Post, QueueResync, HandleOffline,
       vars
  <2> QED
    BY <2>1 DEF SnapIsFresh
<1> QED
  BY <1>1, <1>2, <1>3, <1>4, <1>5, <1>6, <1>7, <1>8 DEF Next, HandlerStep

-----------------------------------------------------------------------------
(* The settings. *)

(* A change of k joins the queue, or of something else. *)
LEMMA SettingPosted ==
  ASSUME Types, NEW k \in Settings, SettingFollows(k), NEW e \in Events,
         queue' = Append(queue, e), handler' = handler, setting' = setting,
         k \in ItemsOf(e) => wanted'[k] = e.value,
         k \notin ItemsOf(e) => wanted'[k] = wanted[k]
  PROVE  SettingFollows(k)'
<1>0. PICK n \in Nat : n = Len(queue)
  BY QueueAppend
<1>1. /\ DOMAIN queue = 1..n
      /\ DOMAIN queue' = 1..(n + 1)
      /\ \A i \in 1..n : queue'[i] = queue[i]
      /\ queue'[n + 1] = e
  BY <1>0, QueueAppend
<1>2. Pending' = Pending
  BY DEF Pending
<1>3. CASE k \in ItemsOf(e)
  <2>1. Waits(k, n + 1)' /\ n + 1 \in DOMAIN queue'
    BY <1>1, <1>3 DEF Waits
  <2>2. ~NoneWaits(k)'
    BY <2>1 DEF NoneWaits
  <2>3. ASSUME NEW i \in DOMAIN queue', \A j \in DOMAIN queue' : Waits(k, j)' => j <= i
        PROVE  queue'[i].value = wanted'[k]
    <3>1. n + 1 <= i
      BY <2>1, <2>3
    <3>2. i = n + 1
      BY <1>1, <3>1
    <3> QED
      BY <1>1, <1>3, <3>2
  <2> QED
    BY <2>2, <2>3 DEF SettingFollows, LastWaits
<1>4. CASE k \notin ItemsOf(e)
  <2>1. \A i \in DOMAIN queue' : Waits(k, i)' => i \in DOMAIN queue /\ Waits(k, i)
    BY <1>1, <1>4 DEF Waits
  <2>2. \A i \in DOMAIN queue : i \in DOMAIN queue' /\ queue'[i] = queue[i] /\ (Waits(k, i) => Waits(k, i)')
    BY <1>1, <1>4 DEF Waits
  <2>3. LastWaits(k)'
    <3>1. ASSUME NEW i \in DOMAIN queue', Waits(k, i)', \A j \in DOMAIN queue' : Waits(k, j)' => j <= i
          PROVE  queue'[i].value = wanted'[k]
      <4>1. i \in DOMAIN queue /\ Waits(k, i) /\ \A j \in DOMAIN queue : Waits(k, j) => j <= i
        BY <2>1, <2>2, <3>1
      <4>2. queue[i].value = wanted[k]
        BY <4>1 DEF SettingFollows, LastWaits
      <4> QED
        BY <1>4, <2>2, <4>1, <4>2
    <3> QED
      BY <3>1 DEF LastWaits
  <2>4. NoneWaits(k)' => NoneWaits(k)
    BY <2>2 DEF NoneWaits
  <2>5. ByCalls(k) => ByCalls(k)'
    BY <1>2, <1>4 DEF ByCalls
  <2> QED
    BY <2>3, <2>4, <2>5 DEF SettingFollows
<1> QED
  BY <1>3, <1>4

(* The first event is taken from the queue. *)
LEMMA SettingTaken ==
  ASSUME Types, NEW k \in Settings, SettingFollows(k), queue # <<>>, queue' = Tail(queue),
         wanted' = wanted
  PROVE  /\ LastWaits(k)'
         /\ NoneWaits(k)' /\ k \notin ItemsOf(Head(queue)) => ByCalls(k)
         /\ NoneWaits(k)' /\ k \in ItemsOf(Head(queue)) => Head(queue).value = wanted[k]
<1> DEFINE n == Len(queue)
<1>1. /\ DOMAIN queue = 1..n /\ n \in Nat \ {0} /\ 1 \in DOMAIN queue
      /\ DOMAIN queue' = 1..(n - 1) /\ Head(queue) = queue[1]
      /\ \A i \in DOMAIN queue' : queue'[i] = queue[i + 1] /\ i + 1 \in DOMAIN queue
      /\ \A i \in DOMAIN queue : i # 1 => i - 1 \in DOMAIN queue' /\ queue[i] = queue'[i - 1]
  BY QueueTail
<1> HIDE DEF n
<1>2. \A i \in DOMAIN queue' : Waits(k, i)' <=> Waits(k, i + 1)
  BY <1>1 DEF Waits
<1>3. \A i \in DOMAIN queue : i # 1 => (Waits(k, i) <=> Waits(k, i - 1)')
  BY <1>1 DEF Waits
<1>4. LastWaits(k)'
  <2>1. ASSUME NEW i \in DOMAIN queue', Waits(k, i)', \A j \in DOMAIN queue' : Waits(k, j)' => j <= i
        PROVE  queue'[i].value = wanted'[k]
    <3>1. i + 1 \in DOMAIN queue /\ Waits(k, i + 1) /\ queue'[i] = queue[i + 1]
      BY <1>1, <1>2, <2>1
    <3>2. ASSUME NEW j \in DOMAIN queue, Waits(k, j) PROVE j <= i + 1
      <4>1. CASE j = 1
        BY <1>1, <2>1, <4>1
      <4>2. CASE j # 1
        <5>1. j - 1 \in DOMAIN queue' /\ Waits(k, j - 1)'
          BY <1>1, <1>3, <3>2, <4>2
        <5>2. j - 1 <= i
          BY <2>1, <5>1
        <5> QED
          BY <1>1, <2>1, <5>2
      <4> QED
        BY <4>1, <4>2
    <3>3. queue[i + 1].value = wanted[k]
      BY <3>1, <3>2 DEF SettingFollows, LastWaits
    <3> QED
      BY <3>1, <3>3
  <2> QED
    BY <2>1 DEF LastWaits
<1>5. NoneWaits(k)' => \A i \in DOMAIN queue : i # 1 => ~Waits(k, i)
  BY <1>1, <1>3 DEF NoneWaits
<1>6. ASSUME NoneWaits(k)', k \notin ItemsOf(Head(queue)) PROVE ByCalls(k)
  <2>1. ~Waits(k, 1)
    BY <1>1, <1>6 DEF Waits
  <2>2. NoneWaits(k)
    BY <1>5, <1>6, <2>1 DEF NoneWaits
  <2> QED
    BY <2>2 DEF SettingFollows
<1>7. ASSUME NoneWaits(k)', k \in ItemsOf(Head(queue)) PROVE Head(queue).value = wanted[k]
  <2>1. Waits(k, 1)
    BY <1>1, <1>7 DEF Waits
  <2>2. \A j \in DOMAIN queue : Waits(k, j) => j <= 1
    BY <1>1, <1>5, <1>7
  <2> QED
    BY <1>1, <2>1, <2>2 DEF SettingFollows, LastWaits
<1> QED
  BY <1>4, <1>6, <1>7

(* Nobody posts or takes an event, and the settings wanted stay. *)
LEMMA SettingCalled ==
  ASSUME NEW k \in Settings, SettingFollows(k), queue' = queue, wanted' = wanted,
         ByCalls(k) => ByCalls(k)'
  PROVE  SettingFollows(k)'
<1>1. \A i : Waits(k, i)' <=> Waits(k, i)
  BY DEF Waits
<1>2. LastWaits(k)' /\ (NoneWaits(k)' => NoneWaits(k))
  BY <1>1 DEF SettingFollows, LastWaits, NoneWaits
<1> QED
  BY <1>2 DEF SettingFollows

(* Settings: Matrix's changes and resyncs that are queued. *)
LEMMA PostSettings == Types /\ SettingsFollow /\ (PostSome \/ QueueResync) => SettingsFollow'
<1> SUFFICES ASSUME Types, SettingsFollow, PostSome \/ QueueResync,
                    NEW k \in Settings \ dirty'
             PROVE  SettingFollows(k)'
  BY DEF SettingsFollow
<1> USE DEF qq, matrix
<1>0. Members \cap Settings = {}
  BY GroupRoomAssumption
<1>1. ASSUME NEW e \in Events, Post(e), k \in ItemsOf(e) => wanted'[k] = e.value,
             k \notin ItemsOf(e) => wanted'[k] = wanted[k]
      PROVE  SettingFollows(k)'
  <2>1. SettingFollows(k)
    BY <1>1 DEF SettingsFollow, Post
  <2> QED
    BY <1>1, <2>1, SettingPosted DEF Post
<1>2. ASSUME NEW T \in SUBSET Everybody, NEW new \in [T -> Levels], PostLevels(new)
      PROVE  SettingFollows(k)'
  <2> DEFINE e == [kind |-> "levels", users |-> [p \in DOMAIN new |-> [orig |-> level[p], new |-> new[p]]]]
  <2>1. e \in Events /\ e.kind = "levels"
    BY <1>2, PostLevelsEvent
  <2>2. Post(e) /\ wanted' = wanted
    BY <1>2 DEF PostLevels
  <2> HIDE DEF e
  <2>3. k \notin ItemsOf(e)
    BY <1>0, <2>1, EventFacts
  <2> QED
    BY <1>1, <2>1, <2>2, <2>3
<1>3. ASSUME NEW p \in Everybody, PostLeave(p) PROVE SettingFollows(k)'
  <2> DEFINE e == [kind |-> "leave", who |-> p]
  <2>1. e \in Events /\ e.kind = "leave" /\ Post(e) /\ wanted' = wanted
    BY <1>3, PostLeaveEvent DEF PostLeave
  <2> HIDE DEF e
  <2>2. k \notin ItemsOf(e)
    BY <1>0, <2>1, EventFacts
  <2> QED
    BY <1>1, <2>1, <2>2
<1>6. ASSUME NEW p \in Everybody, PostJoin(p) PROVE SettingFollows(k)'
  <2> DEFINE e == [kind |-> "join", who |-> p]
  <2>1. e \in Events /\ e.kind = "join" /\ Post(e) /\ wanted' = wanted
    BY <1>6, PostJoinEvent DEF PostJoin
  <2> HIDE DEF e
  <2>2. k \notin ItemsOf(e)
    BY <1>0, <2>1, EventFacts
  <2> QED
    BY <1>1, <2>1, <2>2
<1>4. ASSUME NEW kind \in SettingKinds, NEW v \in Values, PostSetting(kind, v)
      PROVE  SettingFollows(k)'
  <2> DEFINE e == [kind |-> kind, value |-> v]
  <2>1. /\ e \in Events /\ e.value = v /\ Post(e)
        /\ wanted' = [l \in Settings |-> IF l \in ItemsOf(e) THEN v ELSE wanted[l]]
    BY <1>4, PostSettingEvent
  <2> HIDE DEF e
  <2> QED
    BY <1>1, <2>1
<1>5. CASE QueueResync
  <2>1. SettingFollows(k)
    BY <1>5 DEF SettingsFollow, QueueResync
  <2> DEFINE e == [kind |-> "resync"]
  <2>2. /\ e \in Events /\ e.kind = "resync" /\ queue' = Append(queue, e) /\ handler' = handler
        /\ setting' = setting /\ wanted' = wanted
    BY <1>5 DEF QueueResync, Events
  <2> HIDE DEF e
  <2>3. k \notin ItemsOf(e)
    BY <2>2, EventFacts
  <2> QED
    BY <2>1, <2>2, <2>3, SettingPosted
<1> QED
  BY <1>2, <1>3, <1>4, <1>5, <1>6 DEF PostSome, SettingKinds

(* Settings: a handler begins. *)
LEMMA HandleSettings ==
  Types /\ SettingsFollow /\ (HandleOffline \/ Handle \/ ResyncFetch) => SettingsFollow'
<1> SUFFICES ASSUME Types, SettingsFollow, HandleOffline \/ Handle \/ ResyncFetch,
                    NEW k \in Settings \ dirty'
             PROVE  SettingFollows(k)'
  BY DEF SettingsFollow
<1> USE DEF qq, matrix
<1> DEFINE e == Head(queue)
<1>1. /\ queue # <<>> /\ queue' = Tail(queue) /\ wanted' = wanted /\ setting' = setting
      /\ handler = Idle
  BY DEF HandleOffline, Handle, ResyncFetch
<1>2. e \in Events /\ Members \cap Settings = {}
  BY <1>1, QueueTail, GroupRoomAssumption
<1>3. Pending = {}
  <2>1. handler.todo = <<>>
    BY <1>1 DEF Idle
  <2>2. DOMAIN handler.todo = {}
    BY <2>1
  <2> QED
    BY <2>2 DEF Pending
<1> HIDE DEF e
<1>4. k \notin dirty
  BY HandleFacts DEF HandleOffline, Handle, ResyncFetch
<1>5. /\ LastWaits(k)'
      /\ NoneWaits(k)' /\ k \notin ItemsOf(e) => ByCalls(k)
      /\ NoneWaits(k)' /\ k \in ItemsOf(e) => e.value = wanted[k]
  BY <1>1, <1>4, SettingTaken DEF SettingsFollow, e
<1>6. NoneWaits(k)' /\ k \notin ItemsOf(e) => setting[k] = wanted[k]
  BY <1>3, <1>5 DEF ByCalls
<1>7. CASE HandleOffline
  <2>1. k \notin ItemsOf(e) /\ Pending' = Pending
    BY <1>7 DEF HandleOffline, Pending, e
  <2>2. NoneWaits(k)' => ByCalls(k)'
    BY <1>1, <1>3, <1>6, <2>1 DEF ByCalls
  <2> QED
    BY <1>5, <2>2 DEF SettingFollows
<1>8. CASE ResyncFetch
  <2>1. handler' = [kind |-> "resync", todo |-> <<>>, stage |-> "none"]
    BY <1>8 DEF ResyncFetch, Idle
  <2>2. Pending' = {}
    BY <2>1, IdleFacts
  <2>3. k \notin ItemsOf(e)
    BY <1>2, <1>8, EventFacts DEF ResyncFetch, e
  <2>4. NoneWaits(k)' => ByCalls(k)'
    BY <1>1, <1>6, <2>2, <2>3 DEF ByCalls
  <2> QED
    BY <1>5, <2>4 DEF SettingFollows
<1>9. CASE Handle
  <2>1. PICK todo \in Todos(e) :
          /\ Pending' = Elements(todo)
          /\ dirty' = dirty \cup Untold(e, todo)
    BY <1>9, HandleFacts DEF e
  <2>2. handler'.stage # "done" /\ e.kind # "resync" /\ group \in BOOLEAN
    BY <1>9, HandleFacts DEF e, Types, TypeOK
  <2>3. \A c \in Pending' : c.item \in ItemsOf(e) /\ (e.kind \in SettingKinds => c.value = e.value)
    BY <1>2, <2>1, <2>2, TodoFacts
  <2>4. CASE k \notin ItemsOf(e)
    <3>1. NoneWaits(k)' => ByCalls(k)'
      BY <1>1, <1>6, <2>3, <2>4 DEF ByCalls
    <3> QED
      BY <1>5, <3>1 DEF SettingFollows
  <2>5. CASE k \in ItemsOf(e)
    <3>2. e.kind \in SettingKinds
      BY <1>2, <2>5, EventFacts
    <3>1. \E c \in Pending' : c.item = k
      BY <2>1, <2>5, <3>2, CalledElements DEF Untold, SettingKinds
    <3>3. NoneWaits(k)' => ByCalls(k)'
      BY <1>1, <1>5, <2>2, <2>3, <2>5, <3>1, <3>2 DEF ByCalls
    <3> QED
      BY <1>5, <3>3 DEF SettingFollows
  <2> QED
    BY <2>4, <2>5
<1> QED
  BY <1>7, <1>8, <1>9

(* Settings: a call is carried out, fails or returns. *)
LEMMA CallSettings ==
  Types /\ SettingsFollow /\ (Return \/ Fail \/ CarryOut \/ CarryOutLate) => SettingsFollow'
<1> SUFFICES ASSUME Types, SettingsFollow, Return \/ Fail \/ CarryOut \/ CarryOutLate,
                    NEW k \in Settings \ dirty'
             PROVE  SettingFollows(k)'
  BY DEF SettingsFollow
<1> USE DEF qq, matrix
<1>1. queue' = queue /\ wanted' = wanted /\ k \notin dirty
  BY DEF Return, Fail, CarryOut, CarryOutLate
<1>2. SettingFollows(k)
  BY <1>1 DEF SettingsFollow
<1> SUFFICES ASSUME ByCalls(k) PROVE ByCalls(k)'
  BY <1>1, <1>2, SettingCalled
<1>3. CASE Return
  <2>1. handler.todo # <<>> /\ handler.stage = "done" /\ setting' = setting
    BY <1>3 DEF Return, Types, TypeOK
  <2> DEFINE rest == IF handler.kind = "read" THEN <<>> ELSE Tail(handler.todo)
  <2>2. GoOn(handler.kind, rest) /\ rest \in {<<>>, Tail(handler.todo)}
    BY <1>3 DEF Return
  <2>3. Pending' = Elements(rest) /\ handler'.stage # "done"
    BY <2>1, <2>2, AfterFacts
  <2>4. CASE handler.kind = "read"
    <3>1. Pending' = {}
      BY <2>3, <2>4 DEF Elements
    <3>2. \A c \in Pending : c.item = "read"
      BY <2>1, <2>4, RestFacts
    <3>3. handler.todo[1].item = "read"
      BY <2>1, <2>4, RestFacts
    <3> QED
      BY <1>1, <2>1, <3>1, <3>2, <3>3 DEF ByCalls
  <2>5. CASE handler.kind # "read"
    <3>1. Pending' = Pending
      BY <2>1, <2>3, <2>5, RestFacts
    <3> QED
      BY <1>1, <2>1, <2>3, <3>1 DEF ByCalls
  <2> QED
    BY <2>4, <2>5
<1>4. CASE Fail
  <2>1. handler.todo # <<>> /\ setting' = setting
    BY <1>4 DEF Fail
  <2>2. PICK rest \in {<<>>, Tail(handler.todo)} :
          GoOn(handler.kind, rest) /\ dirty' = dirty \cup (Called(handler.todo) \ Called(rest))
    BY <1>4 DEF Fail
  <2>3. Pending' = Elements(rest) /\ handler'.stage # "done"
    BY <2>1, <2>2, AfterFacts
  <2>4. Pending' \subseteq Pending /\ Pending \subseteq Elements(handler.todo)
    <3>1. Elements(<<>>) = {}
      BY DEF Elements
    <3> QED
      BY <2>1, <2>3, <3>1, RestFacts
  <2>5. (\E c \in Pending : c.item = k) => \E c \in Pending' : c.item = k
    <3>1. (\E c \in Pending : c.item = k) => k \in Called(handler.todo)
      BY <2>4, CalledElements
    <3>2. k \in Called(handler.todo) => k \in Called(rest)
      BY <2>2
    <3> QED
      BY <2>3, <3>1, <3>2, CalledElements
  <2> QED
    BY <1>1, <2>1, <2>3, <2>4, <2>5 DEF ByCalls
<1>5. CASE CarryOut
  <2> DEFINE c == Head(handler.todo)
  <2>1. /\ c \in CallRecords /\ Execute(c) /\ c \in Pending /\ Pending = Pending' \cup {c}
        /\ handler'.stage = "done" /\ handler'.todo[1] = c
    BY <1>5, CarryOutFacts
  <2> HIDE DEF c
  <2>2. /\ k # c.item => setting'[k] = setting[k]
        /\ k = c.item => setting'[k] = c.value
    BY <2>1, ExecuteFacts
  <2> QED
    BY <1>1, <2>1, <2>2 DEF ByCalls
<1>6. CASE CarryOutLate
  <2>1. PICK c \in late : Execute(c) /\ dirty' = dirty \cup {c.item}
    BY <1>6 DEF CarryOutLate
  <2>2. c \in CallRecords
    BY DEF Types, TypeOK
  <2>3. setting'[k] = setting[k]
    BY <2>1, <2>2, ExecuteFacts
  <2>4. handler' = handler
    BY <1>6 DEF CarryOutLate
  <2>5. Pending' = Pending
    BY <2>4 DEF Pending
  <2> QED
    BY <1>1, <2>3, <2>4, <2>5 DEF ByCalls
<1> QED
  BY <1>3, <1>4, <1>5, <1>6

(* Settings: every step. *)
LEMMA NextSettings == Types /\ SettingsFollow /\ [Next]_vars => SettingsFollow'
<1> SUFFICES ASSUME Types, SettingsFollow, [Next]_vars PROVE SettingsFollow'
  OBVIOUS
<1> USE DEF qq, matrix
<1>1. CASE ResyncApply
  <2> SUFFICES ASSUME NEW k \in Settings \ dirty' PROVE SettingFollows(k)'
    BY DEF SettingsFollow
  <2>0. setting \in [Settings -> Values] /\ wanted \in [Settings -> Values]
    BY DEF Types, TypeOK
  <2>1. /\ k \notin dirty /\ queue' = queue /\ setting' = setting
        /\ \A i \in DOMAIN queue : k \notin ItemsOf(queue[i])
    BY <1>1 DEF ResyncApply
  <2>2. NoneWaits(k) /\ SettingFollows(k)
    BY <2>1 DEF NoneWaits, Waits, SettingsFollow
  <2>3. LastWaits(k)'
    BY <2>1 DEF LastWaits, Waits
  <2>4. Pending = {}
    <3>1. handler.todo = <<>>
      BY <1>1 DEF ResyncApply, Types, HandlerShape
    <3>2. DOMAIN handler.todo = {}
      BY <3>1
    <3> QED
      BY <3>2 DEF Pending
  <2>5. setting[k] = wanted[k]
    BY <2>2, <2>4 DEF SettingFollows, ByCalls
  <2>6. wanted'[k] = setting[k]
    BY <1>1, <2>0, <2>5 DEF ResyncApply
  <2>7. handler' = [kind |-> "none", todo |-> <<>>, stage |-> "none"]
    BY <1>1 DEF ResyncApply, Idle
  <2>8. Pending' = {}
    BY <2>7, IdleFacts
  <2> QED
    BY <2>1, <2>3, <2>6, <2>8 DEF SettingFollows, ByCalls
<1>2. ASSUME NEW m \in Members, NEW r \in {"admin", "member", "out"}, QQChange(m, r)
      PROVE  SettingsFollow'
  <2>1. queue' = queue /\ wanted' = wanted /\ setting' = setting /\ handler' = handler
        /\ dirty \subseteq dirty'
    BY <1>2 DEF QQChange
  <2>2. Pending' = Pending
    BY <2>1 DEF Pending
  <2> QED
    BY <2>1, <2>2, SettingCalled DEF SettingsFollow, ByCalls
<1>3. CASE UNCHANGED vars
  <2>1. queue' = queue /\ wanted' = wanted /\ setting' = setting /\ handler' = handler
        /\ dirty \subseteq dirty'
    BY <1>3 DEF vars
  <2>2. Pending' = Pending
    BY <2>1 DEF Pending
  <2> QED
    BY <2>1, <2>2, SettingCalled DEF SettingsFollow, ByCalls
<1> QED
  BY <1>1, <1>2, <1>3, PostSettings, HandleSettings, CallSettings DEF Next, HandlerStep

-----------------------------------------------------------------------------
(* The members. *)

(* What waits for m when an event joins the queue. *)
LEMMA LevelPosted ==
  ASSUME Types, NEW m \in Members, Chained(m), LevelFollows(m), NEW e \in Events,
         queue' = Append(queue, e), handler' = handler, role' = role,
         e.kind = "levels" /\ m \in DOMAIN e.users =>
           e.users[m].orig = level[m] /\ e.users[m].new = level'[m],
         ~(e.kind = "levels" /\ m \in DOMAIN e.users) => level'[m] = level[m]
  PROVE  Chained(m)' /\ LevelFollows(m)'
<1>0. PICK n \in Nat : n = Len(queue)
  BY QueueAppend
<1>1. /\ DOMAIN queue = 1..n
      /\ DOMAIN queue' = 1..(n + 1)
      /\ \A i \in 1..n : queue'[i] = queue[i]
      /\ queue'[n + 1] = e
  BY <1>0, QueueAppend
<1>2. Pending' = Pending
  BY DEF Pending
<1>3. \A b : Agrees(m, b) => Agrees(m, b)'
  BY <1>2 DEF Agrees
<1>4. /\ \A i \in 1..n : LevelWaits(m, i)' <=> LevelWaits(m, i)
      /\ LevelWaits(m, n + 1)' <=> e.kind = "levels" /\ m \in DOMAIN e.users
  BY <1>1 DEF LevelWaits
<1>5. CASE e.kind = "levels" /\ m \in DOMAIN e.users
  <2>1. ASSUME NEW i \in DOMAIN queue', NEW j \in DOMAIN queue', LevelWaits(m, i)', LevelWaits(m, j)',
               i < j, \A k \in DOMAIN queue' : i < k /\ k < j => ~LevelWaits(m, k)'
        PROVE  queue'[j].users[m].orig = queue'[i].users[m].new
    <3>1. i \in 1..n /\ LevelWaits(m, i) /\ queue'[i] = queue[i]
      BY <1>1, <1>4, <2>1
    <3>2. CASE j = n + 1
      <4>1. \A k \in DOMAIN queue : LevelWaits(m, k) => k <= i
        BY <1>1, <1>4, <2>1, <3>1, <3>2
      <4>2. queue[i].users[m].new = level[m]
        BY <1>1, <3>1, <4>1 DEF Chained
      <4> QED
        BY <1>1, <1>5, <3>1, <3>2, <4>2
    <3>3. CASE j # n + 1
      <4>1. j \in 1..n /\ LevelWaits(m, j) /\ queue'[j] = queue[j]
        BY <1>1, <1>4, <2>1, <3>3
      <4>2. \A k \in DOMAIN queue : i < k /\ k < j => ~LevelWaits(m, k)
        BY <1>1, <1>4, <2>1
      <4> QED
        BY <1>1, <2>1, <3>1, <4>1, <4>2 DEF Chained
    <3> QED
      BY <3>2, <3>3
  <2>2. ASSUME NEW i \in DOMAIN queue', \A j \in DOMAIN queue' : LevelWaits(m, j)' => j <= i
        PROVE  queue'[i].users[m].new = level'[m]
    <3>1. n + 1 <= i
      BY <1>1, <1>4, <1>5, <2>2
    <3>2. i = n + 1
      BY <1>1, <3>1
    <3> QED
      BY <1>1, <1>5, <3>2
  <2>3. ASSUME NEW i \in DOMAIN queue', LevelWaits(m, i)',
               \A j \in DOMAIN queue' : LevelWaits(m, j)' => i <= j, NEW b, b = queue'[i].users[m].orig
        PROVE  Agrees(m, b)
    <3>1. CASE i = n + 1
      <4>1. \A j \in DOMAIN queue : ~LevelWaits(m, j)
        BY <1>1, <1>4, <2>3, <3>1
      <4> QED
        BY <1>1, <1>5, <2>3, <3>1, <4>1 DEF LevelFollows
    <3>2. CASE i # n + 1
      <4>1. /\ i \in 1..n /\ LevelWaits(m, i) /\ queue'[i] = queue[i]
            /\ \A j \in DOMAIN queue : LevelWaits(m, j) => i <= j
        BY <1>1, <1>4, <2>3, <3>2
      <4> QED
        BY <1>1, <2>3, <4>1 DEF LevelFollows, FirstFollows
    <3> QED
      BY <3>1, <3>2
  <2>4. Chained(m)'
    BY <2>1, <2>2 DEF Chained
  <2>5. FirstFollows(m)'
    BY <1>3, <2>3 DEF FirstFollows, Agrees
  <2>6. ~(\A i \in DOMAIN queue' : ~LevelWaits(m, i)')
    BY <1>1, <1>4, <1>5
  <2> QED
    BY <2>4, <2>5, <2>6 DEF LevelFollows
<1>6. CASE ~(e.kind = "levels" /\ m \in DOMAIN e.users)
  <2>1. /\ \A i \in DOMAIN queue' : LevelWaits(m, i)' =>
             i \in DOMAIN queue /\ LevelWaits(m, i) /\ queue'[i] = queue[i]
        /\ \A i \in DOMAIN queue : i \in DOMAIN queue' /\ (LevelWaits(m, i) => LevelWaits(m, i)')
    BY <1>1, <1>4, <1>6
  <2>2. ASSUME NEW i \in DOMAIN queue', NEW j \in DOMAIN queue', LevelWaits(m, i)', LevelWaits(m, j)',
               i < j, \A k \in DOMAIN queue' : i < k /\ k < j => ~LevelWaits(m, k)'
        PROVE  queue'[j].users[m].orig = queue'[i].users[m].new
    <3>1. \A k \in DOMAIN queue : i < k /\ k < j => ~LevelWaits(m, k)
      BY <2>1, <2>2
    <3> QED
      BY <2>1, <2>2, <3>1 DEF Chained
  <2>3. ASSUME NEW i \in DOMAIN queue', LevelWaits(m, i)',
               \A j \in DOMAIN queue' : LevelWaits(m, j)' => j <= i
        PROVE  queue'[i].users[m].new = level'[m]
    <3>1. \A j \in DOMAIN queue : LevelWaits(m, j) => j <= i
      BY <2>1, <2>3
    <3> QED
      BY <1>6, <2>1, <2>3, <3>1 DEF Chained
  <2>4. ASSUME NEW i \in DOMAIN queue', LevelWaits(m, i)',
               \A j \in DOMAIN queue' : LevelWaits(m, j)' => i <= j, NEW b, b = queue'[i].users[m].orig
        PROVE  Agrees(m, b)
    <3>1. \A j \in DOMAIN queue : LevelWaits(m, j) => i <= j
      BY <2>1, <2>4
    <3> QED
      BY <2>1, <2>4, <3>1 DEF LevelFollows, FirstFollows
  <2>5. Chained(m)'
    BY <2>2, <2>3 DEF Chained
  <2>6. FirstFollows(m)'
    BY <1>3, <2>4 DEF FirstFollows, Agrees
  <2>7. ASSUME \A i \in DOMAIN queue' : ~LevelWaits(m, i)', NEW b, b = level'[m] PROVE Agrees(m, b)
    <3>1. \A i \in DOMAIN queue : ~LevelWaits(m, i)
      BY <2>1, <2>7
    <3> QED
      BY <1>6, <2>7, <3>1 DEF LevelFollows
  <2>8. (\A i \in DOMAIN queue : ~LevelWaits(m, i))' => Agrees(m, level[m])'
    BY <1>3, <2>7 DEF Agrees
  <2> QED
    BY <2>5, <2>6, <2>8 DEF LevelFollows
<1> QED
  BY <1>5, <1>6

(* What waits for m when the first event is taken from the queue. *)
LEMMA LevelTaken ==
  ASSUME Types, NEW m \in Members, Chained(m), LevelFollows(m), queue # <<>>,
         queue' = Tail(queue), level' = level
  PROVE  /\ Chained(m)'
         /\ LevelWaits(m, 1) =>
              /\ Agrees(m, queue[1].users[m].orig)
              /\ \A b : b = queue[1].users[m].new /\ Agrees(m, b)' => LevelFollows(m)'
         /\ ~LevelWaits(m, 1) /\ (\A b : Agrees(m, b) => Agrees(m, b)') => LevelFollows(m)'
<1>0. PICK n \in Nat : n = Len(queue)
  BY QueueTail
<1>1. /\ DOMAIN queue = 1..n /\ n # 0 /\ 1 \in DOMAIN queue
      /\ DOMAIN queue' = 1..(n - 1)
      /\ \A i \in DOMAIN queue' : queue'[i] = queue[i + 1] /\ i + 1 \in DOMAIN queue
      /\ \A i \in DOMAIN queue : i # 1 => i - 1 \in DOMAIN queue' /\ queue[i] = queue'[i - 1]
  BY <1>0, QueueTail
<1>2. /\ \A i \in DOMAIN queue' : LevelWaits(m, i)' <=> LevelWaits(m, i + 1)
      /\ \A i \in DOMAIN queue : i # 1 => (LevelWaits(m, i) <=> LevelWaits(m, i - 1)')
  BY <1>1 DEF LevelWaits
<1>3. ASSUME NEW i \in DOMAIN queue', NEW j \in DOMAIN queue', LevelWaits(m, i)', LevelWaits(m, j)',
             i < j, \A k \in DOMAIN queue' : i < k /\ k < j => ~LevelWaits(m, k)'
      PROVE  queue'[j].users[m].orig = queue'[i].users[m].new
  <2>1. /\ i + 1 \in DOMAIN queue /\ j + 1 \in DOMAIN queue
        /\ LevelWaits(m, i + 1) /\ LevelWaits(m, j + 1) /\ i + 1 < j + 1
    BY <1>1, <1>2, <1>3
  <2>2. ASSUME NEW k \in DOMAIN queue, i + 1 < k, k < j + 1 PROVE ~LevelWaits(m, k)
    <3>1. k # 1 /\ k - 1 \in DOMAIN queue' /\ i < k - 1 /\ k - 1 < j
      BY <1>1, <1>3, <2>2
    <3> QED
      BY <1>2, <1>3, <2>2, <3>1
  <2>3. queue[j + 1].users[m].orig = queue[i + 1].users[m].new
    BY <2>1, <2>2 DEF Chained
  <2> QED
    BY <1>1, <2>3
<1>4. ASSUME NEW i \in DOMAIN queue', LevelWaits(m, i)',
             \A j \in DOMAIN queue' : LevelWaits(m, j)' => j <= i
      PROVE  queue'[i].users[m].new = level'[m]
  <2>1. i + 1 \in DOMAIN queue /\ LevelWaits(m, i + 1)
    BY <1>1, <1>2, <1>4
  <2>2. ASSUME NEW j \in DOMAIN queue, LevelWaits(m, j) PROVE j <= i + 1
    <3>1. CASE j = 1
      BY <1>1, <1>4, <3>1
    <3>2. CASE j # 1
      <4>1. j - 1 \in DOMAIN queue' /\ j - 1 <= i
        BY <1>1, <1>2, <1>4, <2>2, <3>2
      <4> QED
        BY <1>1, <1>4, <4>1
    <3> QED
      BY <3>1, <3>2
  <2>3. queue[i + 1].users[m].new = level[m]
    BY <2>1, <2>2 DEF Chained
  <2> QED
    BY <1>1, <2>3
<1>5. Chained(m)'
  BY <1>3, <1>4 DEF Chained
<1>6. ASSUME LevelWaits(m, 1)
      PROVE  /\ Agrees(m, queue[1].users[m].orig)
             /\ \A b : b = queue[1].users[m].new /\ Agrees(m, b)' => LevelFollows(m)'
  <2>1. Agrees(m, queue[1].users[m].orig)
    BY <1>1, <1>6 DEF LevelFollows, FirstFollows
  <2>2. ASSUME NEW i \in DOMAIN queue', LevelWaits(m, i)',
               \A j \in DOMAIN queue' : LevelWaits(m, j)' => i <= j
        PROVE  queue'[i].users[m].orig = queue[1].users[m].new
    <3>1. i + 1 \in DOMAIN queue /\ LevelWaits(m, i + 1) /\ 1 < i + 1
      BY <1>1, <1>2, <2>2
    <3>2. ASSUME NEW k \in DOMAIN queue, 1 < k, k < i + 1 PROVE ~LevelWaits(m, k)
      <4>1. k # 1 /\ k - 1 \in DOMAIN queue' /\ k - 1 < i
        BY <1>1, <2>2, <3>2
      <4>2. ~LevelWaits(m, k - 1)'
        BY <1>1, <2>2, <4>1
      <4> QED
        BY <1>2, <4>1, <4>2
    <3>3. queue[i + 1].users[m].orig = queue[1].users[m].new
      BY <1>1, <1>6, <3>1, <3>2 DEF Chained
    <3> QED
      BY <1>1, <3>3
  <2>3. ASSUME \A i \in DOMAIN queue' : ~LevelWaits(m, i)'
        PROVE  level'[m] = queue[1].users[m].new
    <3>1. \A j \in DOMAIN queue : LevelWaits(m, j) => j <= 1
      BY <1>1, <1>2, <2>3
    <3> QED
      BY <1>1, <1>6, <3>1 DEF Chained
  <2>4. ASSUME NEW b, b = queue[1].users[m].new, Agrees(m, b)' PROVE LevelFollows(m)'
    <3>1. FirstFollows(m)'
      BY <2>2, <2>4 DEF FirstFollows, Agrees
    <3>2. (\A i \in DOMAIN queue : ~LevelWaits(m, i))' => Agrees(m, level[m])'
      BY <2>3, <2>4 DEF Agrees
    <3> QED
      BY <3>1, <3>2 DEF LevelFollows
  <2> QED
    BY <2>1, <2>4
<1>7. ASSUME ~LevelWaits(m, 1), \A b : Agrees(m, b) => Agrees(m, b)' PROVE LevelFollows(m)'
  <2>1. ASSUME NEW i \in DOMAIN queue', LevelWaits(m, i)',
               \A j \in DOMAIN queue' : LevelWaits(m, j)' => i <= j, NEW b, b = queue'[i].users[m].orig
        PROVE  Agrees(m, b)
    <3>1. i + 1 \in DOMAIN queue /\ LevelWaits(m, i + 1) /\ queue'[i] = queue[i + 1]
      BY <1>1, <1>2, <2>1
    <3>2. ASSUME NEW k \in DOMAIN queue, LevelWaits(m, k) PROVE i + 1 <= k
      <4>1. k # 1 /\ k - 1 \in DOMAIN queue' /\ LevelWaits(m, k - 1)'
        BY <1>1, <1>2, <1>7, <3>2
      <4>2. i <= k - 1
        BY <2>1, <4>1
      <4> QED
        BY <1>1, <2>1, <4>2
    <3> QED
      BY <2>1, <3>1, <3>2 DEF LevelFollows, FirstFollows
  <2>2. ASSUME \A i \in DOMAIN queue' : ~LevelWaits(m, i)', NEW b, b = level'[m] PROVE Agrees(m, b)
    <3>1. \A i \in DOMAIN queue : ~LevelWaits(m, i)
      BY <1>1, <1>2, <1>7, <2>2
    <3> QED
      BY <2>2, <3>1 DEF LevelFollows
  <2>3. FirstFollows(m)'
    BY <1>7, <2>1 DEF FirstFollows, Agrees
  <2>4. (\A i \in DOMAIN queue : ~LevelWaits(m, i))' => Agrees(m, level[m])'
    BY <1>7, <2>2 DEF Agrees
  <2> QED
    BY <2>3, <2>4 DEF LevelFollows
<1> QED
  BY <1>5, <1>6, <1>7

(* The calls about m, its role and what waits for it stay. *)
LEMMA MemberKept ==
  ASSUME NEW m \in Members, MemberFollows(m), queue' = queue, level' = level, joined' = joined,
         role'[m] = role[m], \A c : c.item = m => (c \in Pending' <=> c \in Pending)
  PROVE  MemberFollows(m)'
<1>1. \A b : Agrees(m, b) => Agrees(m, b)'
  BY DEF Agrees, AdminCallOf
<1>2. /\ \A i : (LevelWaits(m, i)' <=> LevelWaits(m, i)) /\ (LeaveWaits(m, i)' <=> LeaveWaits(m, i))
      /\ JoinWaits(m)' <=> JoinWaits(m)
  BY DEF LevelWaits, LeaveWaits, JoinWaits
<1>3. Chained(m)'
  BY <1>2 DEF MemberFollows, Chained
<1>4. LevelFollows(m)'
  <2>1. FirstFollows(m)'
    BY <1>1, <1>2 DEF MemberFollows, LevelFollows, FirstFollows, Agrees
  <2>2. (\A i \in DOMAIN queue : ~LevelWaits(m, i))' => Agrees(m, level[m])'
    BY <1>1, <1>2 DEF MemberFollows, LevelFollows, Agrees
  <2> QED
    BY <2>1, <2>2 DEF LevelFollows
<1>5. CallsChange(m)'
  BY DEF MemberFollows, CallsChange, AdminCallOf
<1>6. JoinedFollows(m)'
  <2>1. Set(m, "out").item = m
    BY DEF Set
  <2> QED
    BY <1>2, <2>1 DEF MemberFollows, JoinedFollows
<1> QED
  BY <1>3, <1>4, <1>5, <1>6 DEF MemberFollows

(* An event joins the queue, a leave of m or not. *)
LEMMA MemberPosted ==
  ASSUME Types, NEW m \in Members, MemberFollows(m), NEW e \in Events,
         queue' = Append(queue, e), handler' = handler, role' = role,
         e.kind = "levels" /\ m \in DOMAIN e.users =>
           e.users[m].orig = level[m] /\ e.users[m].new = level'[m],
         ~(e.kind = "levels" /\ m \in DOMAIN e.users) => level'[m] = level[m],
         \/ e.kind = "join" /\ e.who = m
         \/ m \in joined' <=> m \in joined /\ ~(e.kind = "leave" /\ e.who = m)
  PROVE  MemberFollows(m)'
<1>0. PICK n \in Nat : n = Len(queue)
  BY QueueAppend
<1>1. /\ DOMAIN queue = 1..n
      /\ DOMAIN queue' = 1..(n + 1)
      /\ \A i \in 1..n : queue'[i] = queue[i]
      /\ queue'[n + 1] = e
  BY <1>0, QueueAppend
<1>2. Pending' = Pending
  BY DEF Pending
<1>3. Chained(m)' /\ LevelFollows(m)'
  BY LevelPosted DEF MemberFollows
<1>4. CallsChange(m)'
  BY <1>2 DEF MemberFollows, CallsChange
<1>5. (\A i \in DOMAIN queue' : ~LeaveWaits(m, i)') <=>
        (\A i \in DOMAIN queue : ~LeaveWaits(m, i)) /\ ~(e.kind = "leave" /\ e.who = m)
  <2>1. /\ \A i \in 1..n : LeaveWaits(m, i)' <=> LeaveWaits(m, i)
        /\ LeaveWaits(m, n + 1)' <=> e.kind = "leave" /\ e.who = m
    BY <1>1 DEF LeaveWaits
  <2> QED
    BY <1>1, <2>1
<1>7. JoinWaits(m)' <=> JoinWaits(m) \/ (e.kind = "join" /\ e.who = m)
  BY <1>1 DEF JoinWaits
<1>6. JoinedFollows(m)'
  <2>1. Set(m, "out")' = Set(m, "out")
    BY DEF Set
  <2> QED
    BY <1>2, <1>5, <1>7, <2>1 DEF MemberFollows, JoinedFollows
<1> QED
  BY <1>3, <1>4, <1>6 DEF MemberFollows

(* Members: Matrix's changes and resyncs that are queued. *)
LEMMA PostMembers == Types /\ MembersFollow /\ (PostSome \/ QueueResync) => MembersFollow'
<1> SUFFICES ASSUME Types, MembersFollow, PostSome \/ QueueResync, group',
                    NEW m \in Members \ dirty'
             PROVE  MemberFollows(m)'
  BY DEF MembersFollow
<1> USE DEF qq, matrix
<1>0. MemberFollows(m)
  BY DEF MembersFollow, PostSome, PostLevels, PostLeave, PostJoin, PostSetting, Post, QueueResync
<1>1. ASSUME NEW T \in SUBSET Everybody, NEW new \in [T -> Levels], PostLevels(new)
      PROVE  MemberFollows(m)'
  <2> DEFINE e == [kind |-> "levels", users |-> [p \in DOMAIN new |-> [orig |-> level[p], new |-> new[p]]]]
  <2>1. /\ e \in Events /\ e.kind = "levels" /\ DOMAIN e.users = DOMAIN new
        /\ \A p \in DOMAIN new : e.users[p].orig = level[p] /\ e.users[p].new = new[p]
    BY <1>1, PostLevelsEvent
  <2>2. Post(e) /\ joined' = joined
        /\ level' = [p \in Everybody |-> IF p \in DOMAIN new THEN new[p] ELSE level[p]]
    BY <1>1 DEF PostLevels
  <2> HIDE DEF e
  <2>3. level'[m] = IF m \in DOMAIN new THEN new[m] ELSE level[m]
    BY <2>2 DEF Everybody
  <2> QED
    BY <1>0, <2>1, <2>2, <2>3, MemberPosted DEF Post
<1>2. ASSUME NEW p \in Everybody, PostLeave(p) PROVE MemberFollows(m)'
  <2> DEFINE e == [kind |-> "leave", who |-> p]
  <2>1. /\ e \in Events /\ e.kind = "leave" /\ e.who = p /\ Post(e) /\ level' = level
        /\ joined' = joined \ {p}
    BY <1>2, PostLeaveEvent DEF PostLeave
  <2> HIDE DEF e
  <2> QED
    BY <1>0, <2>1, MemberPosted DEF Post
<1>5. ASSUME NEW p \in Everybody, PostJoin(p) PROVE MemberFollows(m)'
  <2> DEFINE e == [kind |-> "join", who |-> p]
  <2>1. /\ e \in Events /\ e.kind = "join" /\ e.who = p /\ Post(e) /\ level' = level
        /\ joined' = joined \cup {p}
    BY <1>5, PostJoinEvent DEF PostJoin
  <2> HIDE DEF e
  <2> QED
    BY <1>0, <2>1, MemberPosted DEF Post
<1>3. ASSUME NEW kind \in SettingKinds, NEW v \in Values, PostSetting(kind, v)
      PROVE  MemberFollows(m)'
  <2> DEFINE e == [kind |-> kind, value |-> v]
  <2>1. e \in Events /\ e.kind = kind /\ Post(e) /\ level' = level /\ joined' = joined
    BY <1>3, PostSettingEvent
  <2>2. kind \notin {"levels", "leave", "join"}
    BY DEF SettingKinds
  <2> HIDE DEF e
  <2> QED
    BY <1>0, <2>1, <2>2, MemberPosted DEF Post
<1>4. CASE QueueResync
  <2> DEFINE e == [kind |-> "resync"]
  <2>1. /\ e \in Events /\ e.kind = "resync" /\ queue' = Append(queue, e) /\ handler' = handler
        /\ role' = role /\ level' = level /\ joined' = joined
    BY <1>4 DEF QueueResync, Events
  <2> HIDE DEF e
  <2> QED
    BY <1>0, <2>1, MemberPosted
<1> QED
  BY <1>1, <1>2, <1>3, <1>4, <1>5 DEF PostSome, SettingKinds

(* Members: a handler begins. *)
LEMMA HandleMembers ==
  Types /\ MembersFollow /\ (HandleOffline \/ Handle \/ ResyncFetch) => MembersFollow'
<1> SUFFICES ASSUME Types, MembersFollow, HandleOffline \/ Handle \/ ResyncFetch, group',
                    NEW m \in Members \ dirty'
             PROVE  MemberFollows(m)'
  BY DEF MembersFollow
<1> USE DEF qq, matrix
<1>0. /\ queue # <<>> /\ queue' = Tail(queue) /\ level' = level /\ joined' = joined
      /\ role' = role /\ handler = Idle /\ group
  BY DEF HandleOffline, Handle, ResyncFetch
<1>1. PICK e : e = Head(queue)
  OBVIOUS
<1>2. e \in Events /\ e = queue[1] /\ 1 \in DOMAIN queue
  BY <1>0, <1>1, QueueTail
<1>3. Pending = {}
  <2>1. handler.todo = <<>>
    BY <1>0 DEF Idle
  <2>2. DOMAIN handler.todo = {}
    BY <2>1
  <2> QED
    BY <2>2 DEF Pending
<1>4. m \notin dirty
  BY HandleFacts DEF HandleOffline, Handle, ResyncFetch
<1>5. MemberFollows(m)
  BY <1>0, <1>4 DEF MembersFollow
<1>6. /\ LevelWaits(m, 1) <=> e.kind = "levels" /\ m \in DOMAIN e.users
      /\ LeaveWaits(m, 1) <=> e.kind = "leave" /\ e.who = m
  BY <1>2 DEF LevelWaits, LeaveWaits
<1>7. LeaveWaits(m, 1) \/ ((\A i \in DOMAIN queue' : ~LeaveWaits(m, i)') <=>
                             (\A i \in DOMAIN queue : ~LeaveWaits(m, i)))
  <2>1. /\ \A i \in DOMAIN queue' : queue'[i] = queue[i + 1] /\ i + 1 \in DOMAIN queue
        /\ \A i \in DOMAIN queue : i # 1 => i - 1 \in DOMAIN queue' /\ queue[i] = queue'[i - 1]
    BY <1>0, QueueTail
  <2>2. /\ \A i \in DOMAIN queue' : LeaveWaits(m, i)' <=> LeaveWaits(m, i + 1)
        /\ \A i \in DOMAIN queue : i # 1 => (LeaveWaits(m, i) <=> LeaveWaits(m, i - 1)')
    BY <2>1 DEF LeaveWaits
  <2> QED
    BY <2>1, <2>2
<1>14. ~(e.kind = "join" /\ e.who = m)
  <2> SUFFICES ASSUME e.kind = "join", e.who = m PROVE FALSE
    OBVIOUS
  <2>1. m \in ItemsOf(e)
    BY <1>2, EventFacts
  <2>2. CASE HandleOffline \/ ResyncFetch
    BY <1>1, <2>1, <2>2 DEF HandleOffline, ResyncFetch
  <2>3. CASE Handle
    <3>1. PICK todo \in Todos(e) : dirty' = dirty \cup Untold(e, todo)
      BY <1>1, <2>3, HandleFacts
    <3>2. todo = <<>>
      BY <3>1 DEF Todos
    <3>3. Called(todo) = {}
      BY <3>2 DEF Called
    <3> QED
      BY <2>1, <3>1, <3>3 DEF Untold
  <2> QED
    BY <2>2, <2>3
<1>15. JoinWaits(m) => JoinWaits(m)'
  <2>1. \A i \in DOMAIN queue : i # 1 => i - 1 \in DOMAIN queue' /\ queue[i] = queue'[i - 1]
    BY <1>0, QueueTail
  <2> QED
    BY <1>2, <1>14, <2>1 DEF JoinWaits
<1>8. Chained(m)'
  BY <1>0, <1>5, LevelTaken DEF MemberFollows
<1>9. Set(m, "out").item = m /\ Set(m, "out").value = "out"
  BY DEF Set
<1>10. ASSUME ~LevelWaits(m, 1), \A c \in Pending' : ~AdminCallOf(m, c),
              Set(m, "out") \in Pending' <=> LeaveWaits(m, 1)
       PROVE  MemberFollows(m)'
  <2>1. \A b : Agrees(m, b) => Agrees(m, b)'
    BY <1>0, <1>3, <1>10 DEF Agrees
  <2>2. LevelFollows(m)'
    BY <1>0, <1>5, <1>10, <2>1, LevelTaken DEF MemberFollows
  <2>3. CallsChange(m)'
    BY <1>10 DEF CallsChange
  <2>4. JoinedFollows(m)'
    BY <1>0, <1>2, <1>3, <1>5, <1>7, <1>10, <1>15 DEF MemberFollows, JoinedFollows, Set
  <2> QED
    BY <1>8, <2>2, <2>3, <2>4 DEF MemberFollows
<1>11. CASE HandleOffline
  <2>1. m \notin ItemsOf(e) /\ Pending' = {}
    BY <1>1, <1>3, <1>11 DEF HandleOffline, Pending
  <2>2. ~LevelWaits(m, 1) /\ ~LeaveWaits(m, 1)
    BY <1>2, <1>6, <2>1, EventFacts
  <2> QED
    BY <1>10, <2>1, <2>2
<1>12. CASE ResyncFetch
  <2>1. handler' = [kind |-> "resync", todo |-> <<>>, stage |-> "none"]
    BY <1>12 DEF ResyncFetch, Idle
  <2>2. Pending' = {}
    BY <2>1, IdleFacts
  <2>3. ~LevelWaits(m, 1) /\ ~LeaveWaits(m, 1)
    BY <1>1, <1>6, <1>12 DEF ResyncFetch
  <2> QED
    BY <1>10, <2>2, <2>3
<1>13. CASE Handle
  <2>1. PICK todo \in Todos(e) : Pending' = Elements(todo)
    BY <1>1, <1>13, HandleFacts
  <2>2. e.kind # "resync" /\ group \in BOOLEAN
    BY <1>0, <1>1, <1>13, HandleFacts
  <2>3. \A c \in Pending' : c.item \in ItemsOf(e)
    BY <1>2, <2>1, <2>2, TodoFacts
  <2>4. CASE ~LevelWaits(m, 1) /\ ~LeaveWaits(m, 1)
    <3>1. m \notin ItemsOf(e)
      BY <1>2, <1>6, <1>14, <2>4, EventFacts, GroupRoomAssumption
    <3>2. \A c \in Pending' : c.item # m
      BY <2>3, <3>1
    <3> QED
      BY <1>9, <1>10, <2>4, <3>2 DEF AdminCallOf
  <2>5. CASE LeaveWaits(m, 1)
    <3>1. e.kind = "leave" /\ e.who = m /\ ItemsOf(e) = {m}
      BY <1>2, <1>6, <2>5, EventFacts
    <3>2. Pending' = {Set(p, "out") : p \in ItemsOf(e)}
      BY <1>0, <1>2, <2>1, <2>2, <3>1, TodoFacts
    <3>3. Pending' = {Set(m, "out")}
      BY <3>1, <3>2
    <3> QED
      BY <1>6, <1>9, <1>10, <2>5, <3>1, <3>3 DEF AdminCallOf
  <2>6. CASE LevelWaits(m, 1)
    <3>1. e.kind = "levels" /\ m \in DOMAIN e.users /\ m \in ItemsOf(e)
      BY <1>2, <1>6, <2>6, EventFacts
    <3>2. Pending' = AdminCalls(e)
      BY <1>0, <1>2, <2>1, <2>2, <3>1, TodoFacts
    <3> DEFINE o == e.users[m].orig
               w == e.users[m].new
    <3>3. o \in Nat /\ w \in Nat
      BY <1>2, <3>1, EventFacts
    <3>4. /\ \A c \in Pending' : AdminCallOf(m, c) =>
               (c.value = "admin" <=> w >= powerAdmin) /\ (o >= powerAdmin) # (w >= powerAdmin)
          /\ (\A c \in Pending' : ~AdminCallOf(m, c)) => (o >= powerAdmin) = (w >= powerAdmin)
          /\ Set(m, "out") \notin Pending'
      BY <1>2, <1>9, <3>1, <3>2, AdminCallFacts DEF AdminCallOf
    <3>5. role[m] # "out" => (o >= powerAdmin <=> role[m] \in {"owner", "admin"})
      <4>1. Agrees(m, o)
        BY <1>0, <1>2, <1>5, <2>6, LevelTaken DEF MemberFollows
      <4> QED
        BY <1>3, <4>1 DEF Agrees
    <3>6. role[m] \in Roles
      BY DEF Types, TypeOK
    <3> HIDE DEF o, w
    <3>7. ASSUME NEW b, b = w PROVE Agrees(m, b)'
      BY <1>0, <3>4, <3>5, <3>7 DEF Agrees
    <3>8. LevelFollows(m)'
      BY <1>0, <1>2, <1>5, <2>6, <3>7, LevelTaken DEF MemberFollows, w
    <3>9. CallsChange(m)'
      BY <1>0, <3>4, <3>5, <3>6 DEF CallsChange, Roles
    <3>10. JoinedFollows(m)'
      <4>1. ~LeaveWaits(m, 1)
        BY <1>6, <3>1
      <4> QED
        BY <1>0, <1>3, <1>5, <1>7, <1>15, <3>4, <4>1 DEF MemberFollows, JoinedFollows, Set
    <3> QED
      BY <1>8, <3>8, <3>9, <3>10 DEF MemberFollows
  <2> QED
    BY <2>4, <2>5, <2>6
<1> QED
  BY <1>11, <1>12, <1>13

(* Members: a call is carried out, fails or returns. *)
LEMMA CallMembers ==
  Types /\ MembersFollow /\ (Return \/ Fail \/ CarryOut \/ CarryOutLate) => MembersFollow'
<1> SUFFICES ASSUME Types, MembersFollow, Return \/ Fail \/ CarryOut \/ CarryOutLate, group',
                    NEW m \in Members \ dirty'
             PROVE  MemberFollows(m)'
  BY DEF MembersFollow
<1> USE DEF qq, matrix
<1>1. /\ queue' = queue /\ level' = level /\ joined' = joined /\ group
      /\ m \notin dirty
  BY DEF Return, Fail, CarryOut, CarryOutLate
<1>2. MemberFollows(m)
  BY <1>1 DEF MembersFollow
<1>3. m # "read"
  BY GroupRoomAssumption DEF Settings
<1>4. CASE Return
  <2>1. handler.todo # <<>> /\ handler.stage = "done" /\ role' = role
    BY <1>4 DEF Return, Types, TypeOK
  <2> DEFINE rest == IF handler.kind = "read" THEN <<>> ELSE Tail(handler.todo)
  <2>2. GoOn(handler.kind, rest) /\ rest \in {<<>>, Tail(handler.todo)}
    BY <1>4 DEF Return
  <2>3. Pending' = Elements(rest)
    BY <2>1, <2>2, AfterFacts
  <2>4. CASE handler.kind = "read"
    <3>1. Pending' = {}
      BY <2>3, <2>4 DEF Elements
    <3>2. \A c \in Pending : c.item # m
      BY <1>3, <2>1, <2>4, RestFacts
    <3> QED
      BY <1>1, <1>2, <2>1, <3>1, <3>2, MemberKept
  <2>5. CASE handler.kind # "read"
    <3>1. Pending' = Pending
      BY <2>1, <2>3, <2>5, RestFacts
    <3> QED
      BY <1>1, <1>2, <2>1, <3>1, MemberKept
  <2> QED
    BY <2>4, <2>5
<1>5. CASE Fail
  <2>1. handler.todo # <<>> /\ role' = role
    BY <1>5 DEF Fail
  <2>2. PICK rest \in {<<>>, Tail(handler.todo)} :
          GoOn(handler.kind, rest) /\ dirty' = dirty \cup (Called(handler.todo) \ Called(rest))
    BY <1>5 DEF Fail
  <2>3. Pending' = Elements(rest) /\ Elements(<<>>) = {}
    <3>1. Elements(<<>>) = {}
      BY DEF Elements
    <3> QED
      BY <2>1, <2>2, <3>1, AfterFacts
  <2>4. Pending' \subseteq Pending /\ Pending \subseteq Elements(handler.todo)
    BY <2>1, <2>3, RestFacts
  <2>5. m \in Called(handler.todo) => m \in Called(rest)
    BY <2>2
  <2>6. ASSUME NEW c \in Pending, c.item = m PROVE c \in Pending'
    <3>1. m \in Called(rest)
      BY <2>4, <2>5, <2>6, CalledElements
    <3>2. PICK d \in Pending' : d.item = m
      BY <2>3, <3>1, CalledElements
    <3>3. rest = Tail(handler.todo)
      BY <2>2, <2>3, <3>2
    <3>4. handler.kind # "read"
      BY <1>3, <2>1, <2>4, <2>6, RestFacts
    <3>5. Head(handler.todo).item # m
      BY <2>1, <2>3, <3>2, <3>3, <3>4, RestFacts
    <3> QED
      BY <2>1, <2>3, <2>4, <2>6, <3>3, <3>5, RestFacts
  <2> QED
    BY <1>1, <1>2, <2>1, <2>4, <2>6, MemberKept
<1>6. CASE CarryOut
  <2>1. PICK c : c = Head(handler.todo)
    OBVIOUS
  <2>2. /\ c \in CallRecords /\ Execute(c) /\ c \in Pending /\ Pending = Pending' \cup {c}
        /\ c.item \in Members => \A d \in Pending' : d.item # c.item
    BY <1>6, <2>1, CarryOutFacts
  <2>3. CASE c.item # m
    <3>1. role'[m] = role[m]
      BY <2>2, <2>3, ExecuteFacts
    <3> QED
      BY <1>1, <1>2, <2>2, <2>3, <3>1, MemberKept
  <2>4. CASE c.item = m
    <3>1. /\ role[m] \in {"admin", "member"} /\ role'[m] = c.value
          /\ c.value \in {"admin", "member", "out"}
      BY <2>2, <2>4, ExecuteFacts
    <3>2. \A d \in Pending' : d.item # m
      BY <2>2, <2>4
    <3>3. ASSUME NEW b, Agrees(m, b) PROVE Agrees(m, b)'
      <4>1. c.value # "out" => (c.value = "admin" <=> b >= powerAdmin)
        BY <2>2, <2>4, <3>3 DEF Agrees, AdminCallOf
      <4> QED
        BY <3>1, <3>2, <4>1 DEF Agrees, AdminCallOf
    <3>4. /\ \A i : (LevelWaits(m, i)' <=> LevelWaits(m, i)) /\ (LeaveWaits(m, i)' <=> LeaveWaits(m, i))
          /\ JoinWaits(m)' <=> JoinWaits(m)
      BY <1>1 DEF LevelWaits, LeaveWaits, JoinWaits
    <3>5. Chained(m)'
      BY <1>1, <1>2, <3>4 DEF MemberFollows, Chained
    <3>6. LevelFollows(m)'
      <4>1. FirstFollows(m)'
        BY <1>1, <1>2, <3>3, <3>4 DEF MemberFollows, LevelFollows, FirstFollows, Agrees
      <4>2. (\A i \in DOMAIN queue : ~LevelWaits(m, i))' => Agrees(m, level[m])'
        BY <1>1, <1>2, <3>3, <3>4 DEF MemberFollows, LevelFollows, Agrees
      <4> QED
        BY <4>1, <4>2 DEF LevelFollows
    <3>7. CallsChange(m)'
      BY <3>2 DEF CallsChange, AdminCallOf
    <3>8. Set(m, "out").item = m /\ (c = Set(m, "out") <=> c.value = "out")
      <4>1. c \in [item: Members, value: {"admin", "member", "out"}]
        BY <2>2, <2>4, GroupRoomAssumption DEF CallRecords
      <4> QED
        BY <2>4, <4>1 DEF Set
    <3>9. JoinedFollows(m)'
      <4>1. Set(m, "out") \notin Pending' /\ (Set(m, "out") \in Pending <=> c.value = "out")
        BY <2>2, <3>2, <3>8
      <4> QED
        BY <1>1, <1>2, <3>1, <3>4, <4>1 DEF MemberFollows, JoinedFollows, Set
    <3> QED
      BY <3>5, <3>6, <3>7, <3>9 DEF MemberFollows
  <2> QED
    BY <2>3, <2>4
<1>7. CASE CarryOutLate
  <2>1. PICK c \in late : Execute(c) /\ dirty' = dirty \cup {c.item}
    BY <1>7 DEF CarryOutLate
  <2>2. c \in CallRecords
    BY DEF Types, TypeOK
  <2>3. role'[m] = role[m]
    BY <2>1, <2>2, ExecuteFacts
  <2>4. handler' = handler
    BY <1>7 DEF CarryOutLate
  <2>5. Pending' = Pending
    BY <2>4 DEF Pending
  <2> QED
    BY <1>1, <1>2, <2>3, <2>5, MemberKept
<1> QED
  BY <1>4, <1>5, <1>6, <1>7

(* Members: every step. *)
LEMMA NextMembers == Types /\ SnapIsFresh /\ MembersFollow /\ [Next]_vars => MembersFollow'
<1> SUFFICES ASSUME Types, SnapIsFresh, MembersFollow, [Next]_vars PROVE MembersFollow'
  OBVIOUS
<1> USE DEF qq, matrix
<1>0. role \in [Members -> Roles]
  BY DEF Types, TypeOK
<1>1. CASE ResyncApply
  <2> SUFFICES ASSUME NEW m \in Members \ dirty' PROVE MemberFollows(m)'
    BY DEF MembersFollow
  <2>1. /\ m \notin touched /\ queue' = queue /\ role' = role
        /\ \A i \in DOMAIN queue : m \notin ItemsOf(queue[i])
        /\ joined' = Present(snap) \cup (joined \cap Guests)
        /\ level'[m] = IF m \in Present(snap) THEN LevelOf(snap[m]) ELSE level[m]
    BY <1>1 DEF ResyncApply, Everybody
  <2>2. \A i \in DOMAIN queue' : ~LevelWaits(m, i)' /\ ~LeaveWaits(m, i)'
    <3>1. ASSUME NEW i \in DOMAIN queue PROVE ~LevelWaits(m, i) /\ ~LeaveWaits(m, i)
      BY <2>1, QueueEvents, EventFacts DEF LevelWaits, LeaveWaits
    <3> QED
      BY <2>1, <3>1 DEF LevelWaits, LeaveWaits
  <2>3. snap[m] = role[m]
    BY <1>1, <2>1 DEF ResyncApply, SnapIsFresh
  <2>4. handler' = [kind |-> "none", todo |-> <<>>, stage |-> "none"]
    BY <1>1 DEF ResyncApply, Idle
  <2>5. Pending' = {}
    BY <2>4, IdleFacts
  <2>6. role[m] # "out" => (level'[m] >= powerAdmin <=> role[m] \in {"owner", "admin"})
    BY <1>0, <2>1, <2>3 DEF Present, LevelOf, Roles, powerAdmin, powerSuperAdmin, powerDefault
  <2>7. Chained(m)'
    BY <2>2 DEF Chained
  <2>8. LevelFollows(m)'
    BY <2>1, <2>2, <2>5, <2>6 DEF LevelFollows, FirstFollows, Agrees
  <2>9. CallsChange(m)'
    BY <2>5 DEF CallsChange
  <2>10. JoinedFollows(m)'
    BY <2>1, <2>2, <2>3, <2>5, GroupRoomAssumption DEF JoinedFollows, Present
  <2> QED
    BY <2>7, <2>8, <2>9, <2>10 DEF MemberFollows
<1>2. ASSUME NEW n \in Members, NEW r \in {"admin", "member", "out"}, QQChange(n, r)
      PROVE  MembersFollow'
  <2> SUFFICES ASSUME group', NEW m \in Members \ dirty' PROVE MemberFollows(m)'
    BY DEF MembersFollow
  <2>1. /\ queue' = queue /\ level' = level /\ joined' = joined /\ handler' = handler
        /\ group /\ m \notin dirty /\ role'[m] = role[m]
    BY <1>0, <1>2 DEF QQChange
  <2>2. Pending' = Pending
    BY <2>1 DEF Pending
  <2> QED
    BY <2>1, <2>2, MemberKept DEF MembersFollow
<1>3. CASE UNCHANGED vars
  <2> SUFFICES ASSUME group', NEW m \in Members \ dirty' PROVE MemberFollows(m)'
    BY DEF MembersFollow
  <2>1. /\ queue' = queue /\ level' = level /\ joined' = joined /\ handler' = handler
        /\ group /\ m \notin dirty /\ role' = role
    BY <1>3 DEF vars
  <2>2. Pending' = Pending
    BY <2>1 DEF Pending
  <2> QED
    BY <2>1, <2>2, MemberKept DEF MembersFollow
<1> QED
  BY <1>1, <1>2, <1>3, PostMembers, HandleMembers, CallMembers DEF Next, HandlerStep

-----------------------------------------------------------------------------
(* The theorems. *)

(* At first room and group agree, and nothing waits. *)
THEOREM InitIInv == Init => IInv
<1> SUFFICES ASSUME Init PROVE IInv
  OBVIOUS
<1>0. Types
  BY TypesInit
<1>1. /\ queue = <<>> /\ dirty = {} /\ setting = wanted
      /\ level = [p \in Everybody |-> IF p \in Members THEN LevelOf(role[p]) ELSE powerDefault]
      /\ joined = Present(role) \cup Guests
      /\ handler = [kind |-> "none", todo |-> <<>>, stage |-> "none"]
  BY DEF Init, Idle
<1>2. DOMAIN queue = {} /\ DOMAIN handler.todo = {} /\ handler.kind = "none"
  BY <1>1
<1>3. Pending = {}
  BY <1>2 DEF Pending
<1>4. SnapIsFresh
  BY <1>2 DEF SnapIsFresh
<1>5. SettingsFollow
  BY <1>1, <1>2, <1>3 DEF SettingsFollow, SettingFollows, LastWaits, ByCalls
<1>6. ASSUME NEW m \in Members PROVE MemberFollows(m)
  <2>1. role[m] \in Roles /\ level[m] = LevelOf(role[m])
    BY <1>0, <1>1 DEF Types, TypeOK, Everybody
  <2>2. role[m] # "out" => (level[m] >= powerAdmin <=> role[m] \in {"owner", "admin"})
    BY <2>1 DEF LevelOf, Roles, powerAdmin, powerSuperAdmin, powerDefault
  <2>3. Chained(m) /\ CallsChange(m)
    BY <1>2, <1>3 DEF Chained, CallsChange
  <2>4. LevelFollows(m)
    BY <1>2, <1>3, <2>2 DEF LevelFollows, FirstFollows, Agrees
  <2>5. JoinedFollows(m)
    BY <1>1, <1>2, <1>3, GroupRoomAssumption DEF JoinedFollows, Present
  <2> QED
    BY <2>3, <2>4, <2>5 DEF MemberFollows
<1> QED
  BY <1>0, <1>4, <1>5, <1>6 DEF IInv, MembersFollow

(* Every step keeps the invariant, part by part. *)
THEOREM NextIInv == IInv /\ [Next]_vars => IInv'
BY NextTypes, NextSnap, NextSettings, NextMembers DEF IInv

(* In every state what waits and what is asked for lead from the group to  *)
(* the room.                                                               *)
THEOREM Invariance == Spec => []IInv
BY InitIInv, NextIInv, PTL DEF Spec

(* The variables keep their types, and a handler is at work exactly while  *)
(* it has calls to make.                                                   *)
THEOREM TypeCorrect == Spec => []TypeOK
<1>1. IInv => TypeOK
  BY DEF IInv, Types
<1> QED
  BY <1>1, Invariance, PTL

(* When nothing is under way, room and group agree about each member and   *)
(* each setting that no failure, no change of QQ's and no join in Matrix   *)
(* has put out of step since a resync.                                     *)
THEOREM RoomFollowsGroup == Spec => []InStep
<1>1. ASSUME IInv, queue = <<>>, handler = Idle PROVE InStep
  <2>1. DOMAIN queue = {}
    BY <1>1
  <2>2. handler.todo = <<>>
    BY <1>1 DEF Idle
  <2>3. DOMAIN handler.todo = {}
    BY <2>2
  <2>4. Pending = {}
    BY <2>3 DEF Pending
  <2>5. ASSUME group, NEW m \in Members \ dirty PROVE MemberInStep(m)
    <3>1. MemberFollows(m)
      BY <1>1, <2>5 DEF IInv, MembersFollow
    <3>2. Agrees(m, level[m]) /\ JoinedFollows(m) /\ ~JoinWaits(m)
      BY <2>1, <3>1 DEF MemberFollows, LevelFollows, JoinWaits
    <3> QED
      BY <2>1, <2>4, <3>2 DEF MemberInStep, Agrees, JoinedFollows
  <2>6. ASSUME NEW k \in Settings \ dirty PROVE setting[k] = wanted[k]
    BY <1>1, <2>1, <2>4, <2>6 DEF IInv, SettingsFollow, SettingFollows, NoneWaits, ByCalls
  <2> QED
    BY <2>5, <2>6 DEF InStep
<1>2. IInv => InStep
  BY <1>1 DEF InStep
<1> QED
  BY <1>2, Invariance, PTL

(* SetGroupAdmin is asked for only where it changes the role.              *)
THEOREM AdminCallsAreNeeded == Spec => []AdminCallsChange
<1>1. ASSUME IInv, handler.stage = "asked", NEW c, c = Head(handler.todo),
             c.item \in Present(role) \ dirty, c.value # "out"
      PROVE  c.value = "admin" <=> role[c.item] = "member"
  <2>1. Types /\ handler.todo # <<>>
    BY <1>1 DEF IInv, Types, TypeOK
  <2>2. c \in Pending
    BY <1>1, <2>1, RestFacts
  <2>3. c.item \in Members \ dirty /\ role[c.item] # "out"
    BY <1>1 DEF Present
  <2>4. group
    BY <2>1, <2>3 DEF Types, PrivateHasNoRoles, Nothing
  <2>5. CallsChange(c.item)
    BY <1>1, <2>3, <2>4 DEF IInv, MembersFollow, MemberFollows
  <2> QED
    BY <1>1, <2>2, <2>3, <2>5 DEF CallsChange, AdminCallOf
<1>2. IInv => AdminCallsChange
  BY <1>1 DEF AdminCallsChange
<1> QED
  BY <1>2, Invariance, PTL
=============================================================================
