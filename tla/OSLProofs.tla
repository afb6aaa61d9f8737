----------------------------- MODULE OSLProofs -----------------------------
(***************************************************************************)
(* The OSL library, for any sizes and any number of bytes: nothing is      *)
(* used after it was deleted, what everybody has let go of has been        *)
(* deleted, and the bytes of both threads stay in order.                   *)
(***************************************************************************)
EXTENDS OSL, SequenceTheorems, TLAPS

(* The operations a thread may have to do.                                 *)
Ops ==
  {Op("lock", "safe"), Op("unlock", "safe"), Op("deref", "shared"), Op("closefd", "sock")}
  \cup {Op(n, "buf") : n \in {"bufclose", "bufflush", "unwrap"}}
  \cup {Op("unref", o) : o \in Counted} \cup {Op("close", s) : s \in {"in", "out"}}
  \cup {Op("free", x) : x \in Things}
  \cup {Op("bufwrite", n) : n \in Nat \ {0}} \cup {Op("send", d) : d \in Seq(Nat)}

OSLTypeOK ==
  /\ platform \in Platforms
  /\ refs \in [Counted \cup {"shared"} -> Int] /\ freed \in [Things -> Nat] /\ made \subseteq Things
  /\ holds \in [Threads -> SUBSET {"sock", "buf", "safe", "pointer", "thread"}]
  /\ todo \in [Threads -> Seq(Ops)]
  /\ run \in {"none", "failed", "running", "leaving", "ended", "joined"}
  /\ detached \in BOOLEAN /\ aborted \in BOOLEAN /\ mutex \in Threads \cup {Nobody}
  /\ buffer \in Seq(Nat) /\ wrapped \in BOOLEAN /\ maxsize \in Nat /\ Len(buffer) <= maxsize
  /\ closed \subseteq {"in", "out"} /\ shut \subseteq {"send", "receive"}
  /\ fd \in {"ours", "nothing", "another"}
  /\ written \in Nat /\ sent \in Seq(Nat) /\ stray \in BOOLEAN /\ lossy \in BOOLEAN

(* The places of the operations in todo: an operation stands before those  *)
(* with a higher first place, and what it puts in its stead stays below    *)
(* its last.                                                               *)
First(o) ==
  CASE o.op = "lock" -> 1 [] o.op = "deref" -> 2 [] o.op = "bufclose" -> 6 [] o.op = "bufflush" -> 7
    [] o.op = "send" -> 8 [] o.op = "bufwrite" -> 9 [] o.op = "unwrap" -> 16 [] o.op = "closefd" -> 17
    [] o.op = "unlock" -> 26
    [] o.op = "close" -> (IF o.arg = "in" THEN 10 ELSE 13)
    [] o.op = "unref" -> (CASE o.arg = "safe" -> 3 [] o.arg = "buf" -> 4 [] o.arg = "sock" -> 5
                            [] o.arg = "in" -> 11 [] o.arg = "out" -> 14 [] OTHER -> 23)
    [] OTHER -> (CASE o.arg = "in" -> 12 [] o.arg = "out" -> 15 [] o.arg = "sock" -> 18
                   [] o.arg = "buf" -> 19 [] o.arg = "safe" -> 20 [] o.arg = "shared" -> 21
                   [] o.arg = "runnable" -> 22 [] o.arg = "impl" -> 24 [] OTHER -> 25)

Last(o) ==
  CASE o.op = "deref" -> 21
    [] o.op = "bufclose" -> 16
    [] o.op = "bufflush" -> 8
    [] o.op = "unref" -> (CASE o.arg = "safe" -> 20 [] o.arg = "buf" -> 19 [] o.arg = "sock" -> 18
                            [] o.arg = "in" -> 12 [] o.arg = "out" -> 15 [] OTHER -> 24)
    [] OTHER -> First(o)

InOrder(s) == \A j, k \in DOMAIN s : j < k => Last(s[j]) < First(s[k])

Pending(t) == {todo[t][k] : k \in DOMAIN todo[t]}
Will(t, name, arg) == Op(name, arg) \in Pending(t)
WillDo(t, name) == \E o \in Pending(t) : o.op = name

Count(b) == IF b THEN 1 ELSE 0
Freeing(x) == \E t \in Threads : Will(t, "free", x)
Unrefs(o) == Count(Will(main, "unref", o)) + Count(Will(worker, "unref", o))
Derefs == Count(Will(main, "deref", "shared")) + Count(Will(worker, "deref", "shared"))

(* An object that has been made and is not being deleted.                  *)
Whole(x) == x \in made /\ freed[x] = 0 /\ ~Freeing(x)

(* The BufferedOutputStream has a reference to the stream it wraps.        *)
Wrapping == wrapped /\ \A t \in Threads : ~Will(t, "unwrap", "buf")

(* Each reference that is counted is somebody's, or about to be given up.  *)
Holders(o) ==
  CASE o = "sock"   -> Count("sock" \in holds[main])
    [] o = "in"     -> Count(Whole("sock"))
    [] o = "out"    -> Count(Whole("sock")) + Count(Wrapping)
    [] o = "buf"    -> Count("buf" \in holds[main]) + Count(Whole("safe"))
    [] o = "safe"   -> Count("safe" \in holds[main]) + Count(Whole("shared"))
    [] o = "shared" -> Count("pointer" \in holds[main]) + Count(Whole("runnable"))
    [] OTHER        -> Count("thread" \in holds[main]) + Count(run = "running")

RefsCounted ==
  /\ \A o \in Counted : refs[o] = Holders(o) + Unrefs(o)
  /\ refs["shared"] = Holders("shared") + Derefs

(* An object is deleted when it has lost its last reference and not        *)
(* before; the Thread and its Runnable when their owner lets go.           *)
WholeWhenReferred ==
  /\ \A o \in Counted \cup {"shared"} : Whole(o) <=> refs[o] # 0
  /\ Whole("thread") <=> "thread" \in holds[main]
  /\ Whole("runnable") <=>
        "runnable" \in made /\ IF detached THEN run \in {"none", "failed", "running"}
                                           ELSE "thread" \in holds[main]

FreedOnce ==
  \A x \in Things :
     /\ freed[x] <= 1 /\ (freed[x] # 0 \/ Freeing(x) => x \in made)
     /\ \A t \in Threads : Will(t, "free", x) =>
           freed[x] = 0 /\ \A u \in Threads \ {t} : ~Will(u, "free", x)

ThreadOK ==
  /\ "thread" \in made <=> "runnable" \in made
  /\ "thread" \in made <=> "impl" \in made
  /\ run # "none" => "thread" \in made
  /\ ~detached /\ "thread" \in made \ holds[main] => run \in {"none", "failed", "joined"}
  /\ Pending(worker) # {} => run \in {"running", "leaving"}

(* A call, and who is in the middle of one.                                *)
Calling(t) == Will(t, "unlock", "safe")
CallOps ==
  {Op("lock", "safe"), Op("unlock", "safe"), Op("close", "out"), Op("unref", "out"), Op("free", "out")}
  \cup {Op(n, "buf") : n \in {"bufclose", "bufflush", "unwrap"}}
  \cup {Op("bufwrite", n) : n \in Nat \ {0}} \cup {Op("send", d) : d \in Seq(Nat)}
StreamOps == {"bufwrite", "bufflush", "bufclose", "send", "unwrap"}

CallsOK(t) ==
  /\ Calling(t) => Pending(t) \subseteq CallOps
  /\ Will(t, "lock", "safe") => Calling(t) /\ ~WillDo(t, "send") /\ ~Will(t, "unwrap", "buf")
  /\ mutex = t <=> Calling(t) /\ ~Will(t, "lock", "safe")
  /\ Calling(t) => IF t = main THEN {"safe", "pointer"} \cap holds[main] # {} ELSE run = "running"
  /\ \A n \in StreamOps : WillDo(t, n) => Calling(t) \/ Will(t, "free", "buf")

(* The operations by which a stream is closed go together.                 *)
ClosingOK(t) ==
  /\ \A s \in {"in", "out"} : Will(t, "close", s) => Will(t, "unref", s)
  /\ Will(t, "unwrap", "buf") => wrapped
  /\ WillDo(t, "send") => wrapped
  /\ Will(t, "unwrap", "buf") /\ (\E n \in {"bufwrite", "bufflush", "send"} : WillDo(t, n))
        => Will(t, "unref", "out")
  /\ Calling(t) /\ Will(t, "unref", "out") => Will(t, "unwrap", "buf")

BufferOK ==
  /\ wrapped => Whole("buf") \/ \E t \in Threads : /\ Will(t, "free", "buf")
                                                   /\ Will(t, "bufclose", "buf") \/ Will(t, "unwrap", "buf")
  /\ "buf" \notin made => ~wrapped /\ buffer = << >>

(* The bytes s are some of those written, in order; all of them if nothing *)
(* went wrong.                                                             *)
Ordered(s) ==
  /\ \A k \in DOMAIN s : s[k] \in 1..written
  /\ \A j, k \in DOMAIN s : j < k => s[j] < s[k]
  /\ ~lossy /\ ~stray => s = [k \in 1..written |-> k]

StreamOK ==
  /\ \A t \in Threads : \A d \in Seq(Nat) : Will(t, "send", d) => Ordered(sent \o d \o buffer)
  /\ (\A t \in Threads : ~WillDo(t, "send")) => Ordered(sent \o buffer)

Alive ==
  /\ \A t \in Threads : InOrder(todo[t]) /\ CallsOK(t) /\ ClosingOK(t)
  /\ RefsCounted /\ WholeWhenReferred /\ FreedOnce /\ ThreadOK /\ BufferOK

(* After an exception has ended the program nothing happens any more.      *)
OSLInv == OSLTypeOK /\ StreamOK /\ IF aborted THEN UsedAreAlive ELSE Alive
-----------------------------------------------------------------------------
(* Operations are told apart by their names and what they work on.         *)
LEMMA OpParts == \A n, a : Op(n, a).op = n /\ Op(n, a).arg = a
  BY DEF Op

Formed(o) ==
  /\ o = Op(o.op, o.arg)
  /\ o.op \in {"lock", "unlock", "deref", "closefd", "bufclose", "bufflush", "unwrap",
               "unref", "close", "free", "bufwrite", "send"}
  /\ o.op \in {"lock", "unlock"} => o.arg = "safe"
  /\ o.op = "deref" => o.arg = "shared"
  /\ o.op = "closefd" => o.arg = "sock"
  /\ o.op \in {"bufclose", "bufflush", "unwrap"} => o.arg = "buf"
  /\ o.op = "unref" => o.arg \in Counted
  /\ o.op = "close" => o.arg \in {"in", "out"}
  /\ o.op = "free" => o.arg \in Things
  /\ o.op = "bufwrite" => o.arg \in Nat \ {0}
  /\ o.op = "send" => o.arg \in Seq(Nat)

LEMMA OpForms == \A o \in Ops : Formed(o)
<1> SUFFICES ASSUME NEW o \in Ops PROVE Formed(o)
  OBVIOUS
<1>1. CASE o \in {Op("lock", "safe"), Op("unlock", "safe"), Op("deref", "shared"), Op("closefd", "sock")}
  BY <1>1 DEF Op, Formed
<1>2. ASSUME NEW n \in {"bufclose", "bufflush", "unwrap"}, o = Op(n, "buf") PROVE Formed(o)
  BY <1>2 DEF Op, Formed
<1>3. ASSUME NEW x \in Counted, o = Op("unref", x) PROVE Formed(o)
  BY <1>3 DEF Op, Formed
<1>4. ASSUME NEW x \in {"in", "out"}, o = Op("close", x) PROVE Formed(o)
  BY <1>4 DEF Op, Formed
<1>5. ASSUME NEW x \in Things, o = Op("free", x) PROVE Formed(o)
  BY <1>5 DEF Op, Formed
<1>6. ASSUME NEW n \in Nat \ {0}, o = Op("bufwrite", n) PROVE Formed(o)
  BY <1>6 DEF Op, Formed
<1>7. ASSUME NEW d \in Seq(Nat), o = Op("send", d) PROVE Formed(o)
  BY <1>7 DEF Op, Formed
<1> QED BY <1>1, <1>2, <1>3, <1>4, <1>5, <1>6, <1>7 DEF Ops

LEMMA AreOps ==
  /\ Op("lock", "safe") \in Ops /\ Op("unlock", "safe") \in Ops
  /\ Op("deref", "shared") \in Ops /\ Op("closefd", "sock") \in Ops
  /\ Op("bufclose", "buf") \in Ops /\ Op("bufflush", "buf") \in Ops /\ Op("unwrap", "buf") \in Ops
  /\ \A o \in Counted : Op("unref", o) \in Ops
  /\ \A s \in {"in", "out"} : Op("close", s) \in Ops
  /\ \A x \in Things : Op("free", x) \in Ops
  /\ \A n \in Nat \ {0} : Op("bufwrite", n) \in Ops
  /\ \A d \in Seq(Nat) : Op("send", d) \in Ops
  BY DEF Ops

LEMMA Places ==
  /\ First(Op("lock", "safe")) = 1 /\ First(Op("deref", "shared")) = 2
  /\ First(Op("unref", "safe")) = 3 /\ First(Op("unref", "buf")) = 4 /\ First(Op("unref", "sock")) = 5
  /\ First(Op("bufclose", "buf")) = 6 /\ First(Op("bufflush", "buf")) = 7
  /\ \A d : First(Op("send", d)) = 8
  /\ \A n : First(Op("bufwrite", n)) = 9
  /\ First(Op("close", "in")) = 10 /\ First(Op("unref", "in")) = 11 /\ First(Op("free", "in")) = 12
  /\ First(Op("close", "out")) = 13 /\ First(Op("unref", "out")) = 14 /\ First(Op("free", "out")) = 15
  /\ First(Op("unwrap", "buf")) = 16 /\ First(Op("closefd", "sock")) = 17
  /\ First(Op("free", "sock")) = 18 /\ First(Op("free", "buf")) = 19 /\ First(Op("free", "safe")) = 20
  /\ First(Op("free", "shared")) = 21 /\ First(Op("free", "runnable")) = 22
  /\ First(Op("unref", "impl")) = 23 /\ First(Op("free", "impl")) = 24
  /\ First(Op("free", "thread")) = 25 /\ First(Op("unlock", "safe")) = 26
<1>1. /\ First(Op("lock", "safe")) = 1 /\ First(Op("deref", "shared")) = 2
      /\ First(Op("bufclose", "buf")) = 6 /\ First(Op("bufflush", "buf")) = 7
      /\ \A d : First(Op("send", d)) = 8
      /\ \A n : First(Op("bufwrite", n)) = 9
      /\ First(Op("unwrap", "buf")) = 16 /\ First(Op("closefd", "sock")) = 17
      /\ First(Op("unlock", "safe")) = 26
  BY OpParts DEF First
<1>2. /\ First(Op("unref", "safe")) = 3 /\ First(Op("unref", "buf")) = 4 /\ First(Op("unref", "sock")) = 5
      /\ First(Op("unref", "in")) = 11 /\ First(Op("unref", "out")) = 14 /\ First(Op("unref", "impl")) = 23
      /\ First(Op("close", "in")) = 10 /\ First(Op("close", "out")) = 13
  BY OpParts DEF First
<1>3. /\ First(Op("free", "in")) = 12 /\ First(Op("free", "out")) = 15
      /\ First(Op("free", "sock")) = 18 /\ First(Op("free", "buf")) = 19 /\ First(Op("free", "safe")) = 20
      /\ First(Op("free", "shared")) = 21 /\ First(Op("free", "runnable")) = 22
      /\ First(Op("free", "impl")) = 24 /\ First(Op("free", "thread")) = 25
  BY OpParts DEF First
<1> QED BY <1>1, <1>2, <1>3

LEMMA LastPlaces ==
  /\ Last(Op("lock", "safe")) = 1 /\ Last(Op("deref", "shared")) = 21
  /\ Last(Op("unref", "safe")) = 20 /\ Last(Op("unref", "buf")) = 19 /\ Last(Op("unref", "sock")) = 18
  /\ Last(Op("bufclose", "buf")) = 16 /\ Last(Op("bufflush", "buf")) = 8
  /\ \A d : Last(Op("send", d)) = 8
  /\ \A n : Last(Op("bufwrite", n)) = 9
  /\ Last(Op("close", "in")) = 10 /\ Last(Op("unref", "in")) = 12 /\ Last(Op("free", "in")) = 12
  /\ Last(Op("close", "out")) = 13 /\ Last(Op("unref", "out")) = 15 /\ Last(Op("free", "out")) = 15
  /\ Last(Op("unwrap", "buf")) = 16 /\ Last(Op("closefd", "sock")) = 17
  /\ Last(Op("free", "sock")) = 18 /\ Last(Op("free", "buf")) = 19 /\ Last(Op("free", "safe")) = 20
  /\ Last(Op("free", "shared")) = 21 /\ Last(Op("free", "runnable")) = 22
  /\ Last(Op("unref", "impl")) = 24 /\ Last(Op("free", "impl")) = 24
  /\ Last(Op("free", "thread")) = 25 /\ Last(Op("unlock", "safe")) = 26
  BY OpParts, Places DEF Last

LEMMA PlacesGrow ==
  \A o \in Ops : First(o) \in Nat /\ Last(o) \in Nat /\ First(o) <= Last(o) /\ First(o) <= 26
<1> SUFFICES ASSUME NEW o \in Ops PROVE First(o) \in Nat /\ Last(o) \in Nat /\ First(o) <= Last(o) /\ First(o) <= 26
  OBVIOUS
<1>1. Formed(o) /\ o = Op(o.op, o.arg)
  BY OpForms DEF Formed
<1>2. CASE o.op \in {"lock", "unlock", "deref", "closefd", "bufclose", "bufflush", "unwrap"}
  <2>1. o \in {Op("lock", "safe"), Op("unlock", "safe"), Op("deref", "shared"), Op("closefd", "sock"),
               Op("bufclose", "buf"), Op("bufflush", "buf"), Op("unwrap", "buf")}
    BY <1>1, <1>2 DEF Formed
  <2> QED BY <2>1, Places, LastPlaces
<1>5. CASE o.op \in {"bufwrite", "send"}
  <2>1. o = Op("bufwrite", o.arg) \/ o = Op("send", o.arg)
    BY <1>1, <1>5 DEF Formed
  <2> QED BY <2>1, Places, LastPlaces
<1>6. CASE o.op = "close"
  BY <1>1, <1>6, Places, LastPlaces DEF Formed
<1>3. CASE o.op = "unref"
  BY <1>1, <1>3, Places, LastPlaces DEF Formed, Counted
<1>4. CASE o.op = "free"
  BY <1>1, <1>4, Places, LastPlaces DEF Formed, Things, Counted
<1> QED BY <1>1, <1>2, <1>3, <1>4, <1>5, <1>6 DEF Formed
-----------------------------------------------------------------------------
(* What a thread has to do after a step.                                   *)
Items(s) == {s[k] : k \in DOMAIN s}

LEMMA ItemsOf ==
  /\ Items(<< >>) = {}
  /\ \A a : Items(<<a>>) = {a}
  /\ \A a, b : Items(<<a, b>>) = {a, b}
  /\ \A a, b, c : Items(<<a, b, c>>) = {a, b, c}
  /\ \A a, b, c, d : Items(<<a, b, c, d>>) = {a, b, c, d}
  /\ \A a, b, c, d, e : Items(<<a, b, c, d, e>>) = {a, b, c, d, e}
<1>1. Items(<< >>) = {}
  BY DEF Items
<1>2. ASSUME NEW a PROVE Items(<<a>>) = {a}
  BY DEF Items
<1>3. ASSUME NEW a, NEW b PROVE Items(<<a, b>>) = {a, b}
  BY DEF Items
<1>4. ASSUME NEW a, NEW b, NEW c PROVE Items(<<a, b, c>>) = {a, b, c}
  BY DEF Items
<1>5. ASSUME NEW a, NEW b, NEW c, NEW d PROVE Items(<<a, b, c, d>>) = {a, b, c, d}
  BY DEF Items
<1>6. ASSUME NEW a, NEW b, NEW c, NEW d, NEW e
      PROVE Items(<<a, b, c, d, e>>) = {a, b, c, d, e}
  BY DEF Items
<1> QED BY <1>1, <1>2, <1>3, <1>4, <1>5, <1>6

(* Thread t puts the operations of new in the stead of the first it has.   *)
Replaces(t, new) ==
  /\ todo' \in [Threads -> Seq(Ops)]
  /\ \A u \in Threads : InOrder(todo'[u])
  /\ Pending(t)' = (Pending(t) \ {Head(todo[t])}) \cup new
  /\ \A u \in Threads \ {t} : Pending(u)' = Pending(u)

TodoOK == todo \in [Threads -> Seq(Ops)] /\ \A t \in Threads : InOrder(todo[t])

(* The first operation stands before all others, and so does what it puts  *)
(* in its stead.                                                           *)
LEMMA HeadFirst ==
  ASSUME TodoOK, NEW t \in Threads, todo[t] # << >>
  PROVE  /\ Head(todo[t]) \in Pending(t) /\ Head(todo[t]) \in Ops
         /\ \A o \in Pending(t) : o \in Ops /\ (o # Head(todo[t]) => Last(Head(todo[t])) < First(o))
<1>1. todo[t] \in Seq(Ops) /\ Len(todo[t]) >= 1 /\ Head(todo[t]) = todo[t][1] /\ 1 \in DOMAIN todo[t]
  BY DEF TodoOK
<1>2. ASSUME NEW k \in DOMAIN todo[t], k # 1 PROVE Last(Head(todo[t])) < First(todo[t][k])
  BY <1>1, <1>2 DEF TodoOK, InOrder
<1> QED BY <1>1, <1>2 DEF Pending

LEMMA ThenReplaces ==
  ASSUME TodoOK, NEW t \in Threads, todo[t] # << >>,
         NEW ops \in Seq(Ops), InOrder(ops),
         \A o \in Items(ops) : Last(o) <= Last(Head(todo[t])),
         Then(t, ops)
  PROVE  Replaces(t, Items(ops))
<1> DEFINE s == todo[t]
           r == ops \o Tail(s)
<1>1. s \in Seq(Ops) /\ Len(s) >= 1 /\ Head(s) = s[1] /\ Tail(s) \in Seq(Ops) /\ Len(Tail(s)) = Len(s) - 1
      /\ \A k \in 1..Len(s) - 1 : Tail(s)[k] = s[k + 1]
  BY DEF TodoOK
<1>2. r \in Seq(Ops) /\ todo' = [todo EXCEPT ![t] = r] /\ todo'[t] = r
  BY <1>1 DEF Then, TodoOK
<1>3. /\ Len(r) = Len(ops) + Len(s) - 1 /\ DOMAIN r = 1..Len(r)
      /\ \A k \in 1..Len(ops) : r[k] = ops[k]
      /\ \A k \in Len(ops) + 1..Len(r) : r[k] = s[k - Len(ops) + 1]
  BY <1>1
<1>4. InOrder(r)
  <2> SUFFICES ASSUME NEW j \in DOMAIN r, NEW k \in DOMAIN r, j < k PROVE Last(r[j]) < First(r[k])
    BY DEF InOrder
  <2>1. CASE k <= Len(ops)
    BY <1>1, <1>3, <2>1 DEF InOrder
  <2>2. CASE j > Len(ops)
    <3>1. /\ j - Len(ops) + 1 \in DOMAIN s /\ k - Len(ops) + 1 \in DOMAIN s
          /\ r[j] = s[j - Len(ops) + 1] /\ r[k] = s[k - Len(ops) + 1]
      <4>1. /\ j \in Len(ops) + 1..Len(r) /\ k \in Len(ops) + 1..Len(r) /\ DOMAIN s = 1..Len(s)
            /\ j - Len(ops) + 1 \in 1..Len(s) /\ k - Len(ops) + 1 \in 1..Len(s)
        <5>1. /\ Len(ops) \in Nat /\ Len(s) \in Nat /\ Len(r) = Len(ops) + Len(s) - 1
              /\ DOMAIN s = 1..Len(s) /\ j \in 1..Len(r) /\ k \in 1..Len(r) /\ j < k
          BY <1>1, <1>3
        <5> HIDE DEF s, r
        <5> QED BY <2>2, <5>1
      <4> HIDE DEF s, r
      <4> QED BY <1>3, <4>1
    <3>2. j - Len(ops) + 1 < k - Len(ops) + 1
      BY <1>1, <1>3
    <3>3. Last(s[j - Len(ops) + 1]) < First(s[k - Len(ops) + 1])
      BY <3>1, <3>2 DEF InOrder, TodoOK
    <3> QED BY <3>1, <3>3
  <2>3. CASE j <= Len(ops) /\ k > Len(ops)
    <3>1. /\ ops[j] \in Items(ops) /\ r[j] = ops[j] /\ r[j] \in Ops
          /\ k - Len(ops) + 1 \in DOMAIN s /\ k - Len(ops) + 1 > 1
          /\ r[k] = s[k - Len(ops) + 1] /\ r[k] \in Ops /\ s[1] \in Ops
      BY <1>1, <1>3, <2>3 DEF Items
    <3>2. Last(s[1]) < First(r[k])
      BY <1>1, <3>1 DEF InOrder, TodoOK
    <3>3. Last(r[j]) <= Last(s[1])
      BY <1>1, <3>1
    <3>4. Last(r[j]) \in Nat /\ Last(s[1]) \in Nat /\ First(r[k]) \in Nat
      BY <3>1, PlacesGrow
    <3> HIDE DEF s, r
    <3> QED BY <3>2, <3>3, <3>4
  <2>4. j \in Nat /\ k \in Nat /\ Len(ops) \in Nat
    BY <1>3
  <2> HIDE DEF s, r
  <2> QED BY <2>1, <2>2, <2>3, <2>4
<1>5. \A k \in 2..Len(s) : s[k] # s[1]
  <2> SUFFICES ASSUME NEW k \in 2..Len(s) PROVE s[k] # s[1]
    OBVIOUS
  <2>1. Last(s[1]) < First(s[k]) /\ s[1] \in Ops
    BY <1>1 DEF InOrder, TodoOK
  <2> QED BY <2>1, PlacesGrow
<1>6. Items(r) = (Items(s) \ {s[1]}) \cup Items(ops)
  <2>1. ASSUME NEW o \in Items(r) PROVE o \in (Items(s) \ {s[1]}) \cup Items(ops)
    <3>1. PICK k \in 1..Len(r) : o = r[k]
      BY <1>3 DEF Items
    <3>2. CASE k <= Len(ops)
      BY <1>1, <1>3, <3>1, <3>2 DEF Items
    <3>3. CASE k > Len(ops)
      BY <1>1, <1>3, <1>5, <3>1, <3>3 DEF Items
    <3> QED BY <3>2, <3>3, <1>1
  <2>2. ASSUME NEW o \in Items(ops) PROVE o \in Items(r)
    BY <1>1, <1>3 DEF Items
  <2>3. ASSUME NEW o \in Items(s) \ {s[1]} PROVE o \in Items(r)
    <3>1. PICK k \in 2..Len(s) : o = s[k]
      BY <1>1 DEF Items
    <3>2. k - 1 + Len(ops) \in DOMAIN r /\ r[k - 1 + Len(ops)] = s[k]
      BY <1>1, <1>3
    <3> QED BY <3>1, <3>2 DEF Items
  <2> QED BY <2>1, <2>2, <2>3
<1>7. Pending(t) = Items(s) /\ Pending(t)' = Items(r)
  BY <1>2 DEF Pending, Items
<1>8. \A u \in Threads \ {t} : Pending(u)' = Pending(u) /\ todo'[u] = todo[u]
  BY <1>2 DEF Pending, TodoOK
<1>9. \A u \in Threads : InOrder(todo'[u])
  BY <1>2, <1>4, <1>8 DEF TodoOK
<1>10. todo' \in [Threads -> Seq(Ops)]
  BY <1>2 DEF TodoOK
<1> QED BY <1>1, <1>6, <1>7, <1>8, <1>9, <1>10 DEF Replaces

(* A program that starts something.                                        *)
LEMMA BeginReplaces ==
  ASSUME todo \in [Threads -> Seq(Ops)], NEW t \in Threads,
         \A u \in Threads : InOrder(todo[u]),
         NEW ops \in Seq(Ops), InOrder(ops), Begin(t, ops)
  PROVE  /\ todo' \in [Threads -> Seq(Ops)]
         /\ \A u \in Threads : InOrder(todo'[u])
         /\ Pending(t)' = Items(ops)
         /\ \A u \in Threads \ {t} : Pending(u)' = Pending(u)
  BY DEF Begin, Pending, Items

LEMMA NothingToDo == ASSUME NEW t, todo[t] = << >> PROVE Pending(t) = {}
  BY DEF Pending

LEMMA JoinLists ==
  ASSUME NEW a \in Seq(Ops), NEW b \in Seq(Ops), InOrder(a), InOrder(b),
         \A x \in Items(a), y \in Items(b) : Last(x) < First(y)
  PROVE  /\ a \o b \in Seq(Ops) /\ InOrder(a \o b) /\ Items(a \o b) = Items(a) \cup Items(b)
<1> DEFINE c == a \o b
<1>1. /\ c \in Seq(Ops) /\ Len(c) = Len(a) + Len(b) /\ DOMAIN c = 1..Len(c)
      /\ \A k \in 1..Len(a) : c[k] = a[k]
      /\ \A k \in Len(a) + 1..Len(c) : c[k] = b[k - Len(a)] /\ k - Len(a) \in DOMAIN b
      /\ DOMAIN a = 1..Len(a) /\ DOMAIN b = 1..Len(b) /\ Len(a) \in Nat /\ Len(b) \in Nat
  OBVIOUS
<1> HIDE DEF c
<1>2. InOrder(c)
  <2> SUFFICES ASSUME NEW j \in DOMAIN c, NEW k \in DOMAIN c, j < k PROVE Last(c[j]) < First(c[k])
    BY DEF InOrder
  <2>1. CASE k <= Len(a)
    BY <1>1, <2>1 DEF InOrder
  <2>2. CASE j > Len(a)
    <3>1. j - Len(a) < k - Len(a) /\ j - Len(a) \in DOMAIN b /\ k - Len(a) \in DOMAIN b
      BY <1>1, <2>2
    <3>2. Last(b[j - Len(a)]) < First(b[k - Len(a)])
      BY <3>1 DEF InOrder
    <3>3. j \in Len(a) + 1..Len(c) /\ k \in Len(a) + 1..Len(c)
      BY <1>1, <2>2
    <3>4. c[j] = b[j - Len(a)] /\ c[k] = b[k - Len(a)]
      BY <1>1, <3>3
    <3> QED BY <3>2, <3>4
  <2>3. CASE j <= Len(a) /\ k > Len(a)
    <3>1. j \in 1..Len(a) /\ k \in Len(a) + 1..Len(c)
      BY <1>1, <2>3
    <3>2. c[j] = a[j] /\ c[k] = b[k - Len(a)] /\ j \in DOMAIN a /\ k - Len(a) \in DOMAIN b
      BY <1>1, <3>1
    <3>3. c[j] \in Items(a) /\ c[k] \in Items(b)
      BY <3>2 DEF Items
    <3> QED BY <3>3
  <2> QED BY <1>1, <2>1, <2>2, <2>3
<1>3. ASSUME NEW o \in Items(c) PROVE o \in Items(a) \cup Items(b)
  <2>1. PICK k \in 1..Len(c) : o = c[k]
    BY <1>1 DEF Items
  <2>2. CASE k <= Len(a)
    BY <1>1, <2>1, <2>2 DEF Items
  <2>3. CASE k > Len(a)
    <3>1. k \in Len(a) + 1..Len(c)
      BY <1>1, <2>3
    <3>2. k - Len(a) \in DOMAIN b /\ o = b[k - Len(a)]
      BY <1>1, <2>1, <3>1
    <3> QED BY <3>2 DEF Items
  <2> QED BY <1>1, <2>1, <2>2, <2>3
<1>4. ASSUME NEW o \in Items(a) PROVE o \in Items(c)
  BY <1>1 DEF Items
<1>5. ASSUME NEW o \in Items(b) PROVE o \in Items(c)
  <2>1. PICK k \in 1..Len(b) : o = b[k]
    BY <1>1 DEF Items
  <2>2. k + Len(a) \in DOMAIN c /\ c[k + Len(a)] = b[k]
    BY <1>1
  <2> QED BY <2>1, <2>2 DEF Items
<1> QED BY <1>1, <1>2, <1>3, <1>4, <1>5 DEF c

LEMMA InOrderLists ==
  /\ InOrder(<< >>)
  /\ \A a : InOrder(<<a>>)
  /\ \A a, b : Last(a) < First(b) => InOrder(<<a, b>>)
  /\ \A a, b, c : Last(a) < First(b) /\ Last(a) < First(c) /\ Last(b) < First(c) => InOrder(<<a, b, c>>)
  /\ \A a, b, c, d : /\ Last(a) < First(b) /\ Last(a) < First(c) /\ Last(a) < First(d)
                     /\ Last(b) < First(c) /\ Last(b) < First(d) /\ Last(c) < First(d)
                     => InOrder(<<a, b, c, d>>)
  /\ \A a, b, c, d, e :
        /\ Last(a) < First(b) /\ Last(a) < First(c) /\ Last(a) < First(d) /\ Last(a) < First(e)
        /\ Last(b) < First(c) /\ Last(b) < First(d) /\ Last(b) < First(e)
        /\ Last(c) < First(d) /\ Last(c) < First(e) /\ Last(d) < First(e)
        => InOrder(<<a, b, c, d, e>>)
<1>1. InOrder(<< >>)
  BY DEF InOrder
<1>2. ASSUME NEW a PROVE InOrder(<<a>>)
  BY DEF InOrder
<1>3. ASSUME NEW a, NEW b, Last(a) < First(b) PROVE InOrder(<<a, b>>)
  BY <1>3 DEF InOrder
<1>4. ASSUME NEW a, NEW b, NEW c, NEW d, Last(a) < First(b), Last(a) < First(c), Last(a) < First(d),
             Last(b) < First(c), Last(b) < First(d), Last(c) < First(d)
      PROVE InOrder(<<a, b, c, d>>)
  BY <1>4 DEF InOrder
<1>5. ASSUME NEW a, NEW b, NEW c, NEW d, NEW e,
             Last(a) < First(b), Last(a) < First(c), Last(a) < First(d), Last(a) < First(e),
             Last(b) < First(c), Last(b) < First(d), Last(b) < First(e),
             Last(c) < First(d), Last(c) < First(e), Last(d) < First(e)
      PROVE InOrder(<<a, b, c, d, e>>)
  BY <1>5 DEF InOrder
<1>6. ASSUME NEW a, NEW b, NEW c, Last(a) < First(b), Last(a) < First(c), Last(b) < First(c)
      PROVE InOrder(<<a, b, c>>)
  BY <1>6 DEF InOrder
<1> QED BY <1>1, <1>2, <1>3, <1>4, <1>5, <1>6
-----------------------------------------------------------------------------
(* Who has a reference to what, and what therefore is not deleted.         *)
LEMMA CountIs == \A b : (b => Count(b) = 1) /\ (~b => Count(b) = 0)
  BY DEF Count

LEMMA Referred ==
  ASSUME OSLAssumption, OSLTypeOK, Alive
  PROVE  /\ \A t \in Threads : \A o \in Counted : Will(t, "unref", o) => Whole(o)
         /\ \A t \in Threads : Will(t, "deref", "shared") => Whole("shared")
         /\ \A o \in {"sock", "buf", "safe"} \cap holds[main] : Whole(o)
         /\ "pointer" \in holds[main] \/ Whole("runnable") => Whole("shared")
         /\ "thread" \in holds[main] => Whole("impl") /\ Whole("thread")
         /\ Whole("shared") => Whole("safe")
         /\ Whole("safe") => Whole("buf")
         /\ Whole("sock") => Whole("in") /\ Whole("out")
         /\ Wrapping => Whole("out")
         /\ run = "running" => Whole("runnable")
<1>1. \A o \in Counted \cup {"shared"} : Whole(o) <=> refs[o] # 0
  BY DEF Alive, WholeWhenReferred
<1>2. \A b : Count(b) \in {0, 1} /\ (b => Count(b) = 1)
  BY DEF Count
<1>3. ASSUME NEW t \in Threads, NEW o \in Counted, Will(t, "unref", o) PROVE Whole(o)
  <2>1. Unrefs(o) >= 1 /\ Unrefs(o) \in Nat
    BY <1>2, <1>3 DEF Unrefs, Threads
  <2>2. refs[o] >= Unrefs(o)
    BY <2>1 DEF Alive, RefsCounted, Holders, Count, Counted
  <2> QED BY <1>1, <2>1, <2>2 DEF OSLTypeOK
<1>4. \A o \in Counted : Unrefs(o) \in Nat
  BY <1>2 DEF Unrefs
<1>5. Derefs \in Nat
  BY <1>2 DEF Derefs
<1>6. ASSUME NEW t \in Threads, Will(t, "deref", "shared") PROVE Whole("shared")
  <2>1. Derefs >= 1
    BY <1>2, <1>6 DEF Derefs, Threads
  <2> QED BY <1>1, <1>5, <2>1 DEF Alive, RefsCounted, Holders, Count
<1>7. "sock" \in holds[main] => Whole("sock")
  BY <1>1, <1>4 DEF Alive, RefsCounted, Holders, Counted, Count
<1>8. "buf" \in holds[main] \/ Whole("safe") => Whole("buf")
  BY <1>1, <1>4 DEF Alive, RefsCounted, Holders, Counted, Count
<1>9. "safe" \in holds[main] \/ Whole("shared") => Whole("safe")
  BY <1>1, <1>4 DEF Alive, RefsCounted, Holders, Counted, Count
<1>10. "pointer" \in holds[main] \/ Whole("runnable") => Whole("shared")
  BY <1>1, <1>5 DEF Alive, RefsCounted, Holders, Counted, Count
<1>11. "thread" \in holds[main] => Whole("impl") /\ Whole("thread")
  BY <1>1, <1>4 DEF Alive, RefsCounted, Holders, WholeWhenReferred, Counted, Count
<1>12. Whole("sock") => Whole("in")
  BY <1>1, <1>4 DEF Alive, RefsCounted, Holders, Counted, Count
<1>13. Whole("sock") \/ Wrapping => Whole("out")
  BY <1>1, <1>4 DEF Alive, RefsCounted, Holders, Counted, Count
<1>14. run = "running" => Whole("runnable")
  BY DEF Alive, WholeWhenReferred, ThreadOK
<1> QED BY <1>3, <1>6, <1>7, <1>8, <1>9, <1>10, <1>11, <1>12, <1>13, <1>14

LEMMA CallersAreServed ==
  ASSUME OSLAssumption, OSLTypeOK, Alive, NEW t \in Threads, Calling(t)
  PROVE  Whole("safe") /\ Whole("buf")
  BY Referred DEF Alive, CallsOK

(* Who has an operation of the stream before it is in a call with the      *)
(* mutex, or in the destructor of the stream; the other thread is not.     *)
LEMMA OneWorks ==
  ASSUME OSLAssumption, OSLTypeOK, Alive, NEW t \in Threads, todo[t] # << >>,
         Head(todo[t]).op \in StreamOps
  PROVE  /\ Calling(t) => mutex = t /\ Whole("buf") /\ ~Will(t, "free", "buf")
         /\ ~Calling(t) => Will(t, "free", "buf")
         /\ \A u \in Threads \ {t} :
               /\ ~WillDo(u, "send") /\ ~Will(u, "unwrap", "buf") /\ ~Will(u, "free", "buf")
               /\ ~Will(t, "lock", "safe")
<1> DEFINE h == Head(todo[t])
<1>0. TodoOK
  BY DEF OSLTypeOK, Alive, TodoOK
<1>1. h \in Pending(t) /\ h \in Ops /\ Formed(h) /\ WillDo(t, h.op)
  BY <1>0, HeadFirst, OpForms DEF WillDo
<1>2. Calling(t) \/ Will(t, "free", "buf")
  BY <1>1 DEF Alive, CallsOK
<1>3. ~Will(t, "lock", "safe")
  <2>1. h # Op("lock", "safe") /\ h.op # "lock"
    BY OpParts DEF StreamOps
  <2>2. Last(h) \in Nat /\ Last(h) >= 1
    <3>1. CASE h.op \in {"bufclose", "bufflush", "unwrap"}
      <4>1. h \in {Op("bufclose", "buf"), Op("bufflush", "buf"), Op("unwrap", "buf")}
        BY <1>1, <3>1 DEF Formed
      <4> QED BY <4>1, LastPlaces
    <3>2. CASE h.op \in {"bufwrite", "send"}
      <4>1. h = Op("bufwrite", h.arg) \/ h = Op("send", h.arg)
        BY <1>1, <3>2 DEF Formed
      <4> QED BY <4>1, LastPlaces
    <3> QED BY <3>1, <3>2 DEF StreamOps
  <2> QED BY <1>0, <2>1, <2>2, HeadFirst, Places DEF Will
<1>4. CASE Calling(t)
  <2>1. mutex = t /\ Whole("buf")
    BY <1>3, <1>4, CallersAreServed DEF Alive, CallsOK
  <2>2. \A u \in Threads : ~Will(u, "free", "buf")
    BY <2>1 DEF Whole, Freeing
  <2>3. ASSUME NEW u \in Threads \ {t} PROVE ~WillDo(u, "send") /\ ~Will(u, "unwrap", "buf")
    <3>1. WillDo(u, "send") \/ Will(u, "unwrap", "buf") => Calling(u) /\ ~Will(u, "lock", "safe")
      BY <2>2, OpParts DEF Alive, CallsOK, StreamOps, Will, WillDo
    <3> QED BY <2>1, <3>1 DEF Alive, CallsOK
  <2> QED BY <1>3, <1>4, <2>1, <2>2, <2>3
<1>5. CASE ~Calling(t)
  <2>1. Will(t, "free", "buf") /\ ~Whole("buf")
    BY <1>2, <1>5 DEF Whole, Freeing
  <2>2. \A u \in Threads : ~Calling(u)
    BY <2>1, CallersAreServed
  <2>3. \A u \in Threads \ {t} : ~Will(u, "free", "buf")
    BY <2>1 DEF Alive, FreedOnce, Things, Counted
  <2>4. ASSUME NEW u \in Threads \ {t} PROVE ~WillDo(u, "send") /\ ~Will(u, "unwrap", "buf")
    BY <2>2, <2>3, OpParts DEF Alive, CallsOK, StreamOps, Will, WillDo
  <2> QED BY <1>3, <1>5, <2>1, <2>3, <2>4
<1> QED BY <1>4, <1>5

(* Whatever is used in what a thread still has to do is alive.             *)
LEMMA AliveUsed ==
  ASSUME OSLAssumption, OSLTypeOK, Alive PROVE UsedAreAlive
<1>0. TodoOK
  BY DEF OSLTypeOK, Alive, TodoOK
<1>1. \A x \in Things : freed[x] <= 1
  BY DEF Alive, FreedOnce
<1>2. run = "running" => \A x \in {"runnable", "shared", "safe", "buf"} : freed[x] = 0
  BY Referred DEF Whole
<1>3. ASSUME NEW t \in Threads, NEW k \in DOMAIN todo[t] PROVE \A x \in Uses(todo[t][k]) : freed[x] = 0
  <2> DEFINE o == todo[t][k]
  <2>1. o \in Pending(t) /\ o \in Ops /\ Formed(o) /\ Will(t, o.op, o.arg) /\ WillDo(t, o.op)
    BY <1>0, OpForms DEF Pending, TodoOK, Formed, Will, WillDo
  <2>2. o.op \in StreamOps \cup {"lock", "unlock"} => freed["buf"] = 0
    <3>1. o.op \in StreamOps \cup {"lock", "unlock"} => Calling(t) \/ Will(t, "free", "buf")
      BY <2>1 DEF Formed, Alive, CallsOK, Calling
    <3>2. Calling(t) => freed["buf"] = 0
      BY CallersAreServed DEF Whole
    <3>3. Will(t, "free", "buf") => freed["buf"] = 0
      BY DEF Alive, FreedOnce, Things, Counted
    <3> QED BY <3>1, <3>2, <3>3
  <2>3. CASE o.op = "unref"
    BY <2>1, <2>3, Referred DEF Uses, Formed, Whole
  <2>4. CASE o.op = "free"
    <3>1. o.arg \in Things /\ freed[o.arg] = 0
      BY <2>1, <2>4 DEF Formed, Alive, FreedOnce
    <3> QED BY <2>4, <3>1 DEF Uses
  <2>5. CASE o.op = "close"
    <3>1. o.arg \in {"in", "out"} /\ Will(t, "unref", o.arg)
      BY <2>1, <2>5 DEF Formed, Alive, ClosingOK
    <3> QED BY <2>5, <3>1, Referred DEF Uses, Whole, Counted
  <2>6. CASE o.op \in {"bufwrite", "bufflush", "bufclose", "unwrap"}
    BY <2>2, <2>6 DEF Uses, StreamOps
  <2>7. CASE o.op \in {"lock", "unlock"}
    <3>1. Calling(t)
      BY <2>1, <2>7 DEF Formed, Alive, CallsOK, Calling
    <3> QED BY <2>7, <3>1, CallersAreServed DEF Uses, Whole
  <2>8. CASE o.op = "deref"
    BY <2>1, <2>8, Referred DEF Uses, Formed, Whole
  <2>9. CASE o.op = "send"
    <3>1. wrapped /\ (Will(t, "unwrap", "buf") => Will(t, "unref", "out"))
      BY <2>1, <2>9 DEF Alive, ClosingOK
    <3>2. CASE Will(t, "unwrap", "buf")
      BY <2>2, <2>9, <3>1, <3>2, Referred DEF Uses, Whole, Counted, StreamOps
    <3>3. CASE ~Will(t, "unwrap", "buf")
      <4>1. ASSUME NEW u \in Threads \ {t}, Will(u, "unwrap", "buf") PROVE FALSE
        <5>1. ~Will(t, "lock", "safe") /\ ~Will(u, "lock", "safe") /\ WillDo(u, "unwrap")
          BY <2>1, <2>9, <4>1, OpParts DEF Alive, CallsOK, Will, WillDo
        <5>2. Calling(t) \/ Will(t, "free", "buf")
          BY <2>1, <2>9 DEF Alive, CallsOK, StreamOps
        <5>3. Calling(u) \/ Will(u, "free", "buf")
          BY <5>1 DEF Alive, CallsOK, StreamOps
        <5>4. ~(Calling(t) /\ Calling(u))
          BY <5>1 DEF Alive, CallsOK
        <5>5. ~(Will(t, "free", "buf") /\ Will(u, "free", "buf"))
          BY DEF Alive, FreedOnce, Things, Counted
        <5>6. Calling(t) \/ Calling(u) => ~Will(t, "free", "buf") /\ ~Will(u, "free", "buf")
          BY CallersAreServed DEF Whole, Freeing
        <5> QED BY <5>2, <5>3, <5>4, <5>5, <5>6
      <4> QED BY <2>2, <2>9, <3>1, <3>3, <4>1, Referred DEF Uses, Whole, StreamOps, Wrapping
    <3> QED BY <3>2, <3>3
  <2>10. CASE o.op = "closefd"
    BY <2>10 DEF Uses
  <2> QED BY <2>1, <2>3, <2>4, <2>5, <2>6, <2>7, <2>8, <2>9, <2>10 DEF Formed
<1> QED BY <1>1, <1>2, <1>3 DEF UsedAreAlive
-----------------------------------------------------------------------------
(* What changes with a step of thread t.                                   *)
SameRefs(u) ==
  /\ \A o \in Counted : Will(u, "unref", o)' <=> Will(u, "unref", o)
  /\ Will(u, "deref", "shared")' <=> Will(u, "deref", "shared")
SameFrees(u) == \A x \in Things : Will(u, "free", x)' <=> Will(u, "free", x)
SameWraps(u) ==
  /\ Will(u, "unwrap", "buf")' <=> Will(u, "unwrap", "buf")
  /\ Will(u, "bufclose", "buf") => Will(u, "bufclose", "buf")'

LEMMA WholeSame ==
  ASSUME \A u \in Threads : SameFrees(u), UNCHANGED <<made, freed>>
  PROVE  \A x \in Things : (Freeing(x)' <=> Freeing(x)) /\ (Whole(x)' <=> Whole(x))
  BY DEF SameFrees, Freeing, Whole

LEMMA ObjectsQuiet ==
  ASSUME OSLAssumption, OSLTypeOK, Alive,
         \A u \in Threads : SameRefs(u) /\ SameFrees(u) /\ SameWraps(u),
         UNCHANGED <<refs, made, freed, holds, run, detached, wrapped>>
  PROVE  RefsCounted' /\ WholeWhenReferred' /\ FreedOnce'
<1>1. \A x \in Things : (Freeing(x)' <=> Freeing(x)) /\ (Whole(x)' <=> Whole(x))
  BY WholeSame
<1>2. Wrapping' <=> Wrapping
  BY DEF Wrapping, SameWraps
<1>3. \A o \in Counted : Unrefs(o)' = Unrefs(o)
  BY DEF Unrefs, Count, SameRefs, Threads
<1>4. Derefs' = Derefs
  BY DEF Derefs, Count, SameRefs, Threads
<1>5. RefsCounted'
  <2>1. \A o \in Counted \cup {"shared"} : Holders(o)' = Holders(o)
    BY <1>1, <1>2 DEF Holders, Count, Counted, Things
  <2> QED BY <1>3, <1>4, <2>1 DEF Alive, RefsCounted
<1>6. WholeWhenReferred'
  BY <1>1 DEF Alive, WholeWhenReferred, Counted, Things
<1>7. FreedOnce'
  BY <1>1 DEF Alive, FreedOnce, SameFrees
<1> QED BY <1>5, <1>6, <1>7

(* The other thread does not notice.                                       *)
LEMMA OtherQuiet ==
  ASSUME Alive, NEW u \in Threads, Pending(u)' = Pending(u), wrapped' = wrapped,
         mutex' = u <=> mutex = u,
         Calling(u) => IF u = main THEN holds'[main] = holds[main] ELSE run' = run
  PROVE  CallsOK(u)' /\ ClosingOK(u)'
  BY DEF Alive, CallsOK, ClosingOK, Calling, Will, WillDo

LEMMA Behind ==
  ASSUME TodoOK, NEW t \in Threads, todo[t] # << >>,
         NEW n, NEW a, Will(t, n, a), Op(n, a) # Head(todo[t])
  PROVE  Last(Head(todo[t])) < First(Op(n, a))
  BY HeadFirst DEF Will

LEMMA AliveTodo == ASSUME OSLTypeOK, Alive PROVE TodoOK
  BY DEF OSLTypeOK, Alive, TodoOK

(* The first operation of a thread that is doing something.                *)
LEMMA DoingHead ==
  ASSUME OSLTypeOK, Alive, NEW t \in Threads, NEW n, Doing(t, n)
  PROVE  /\ todo[t] # << >> /\ Head(todo[t]).op = n /\ Arg(t) = Head(todo[t]).arg
         /\ Head(todo[t]) = Op(n, Arg(t)) /\ Will(t, n, Arg(t)) /\ WillDo(t, n)
         /\ Formed(Head(todo[t])) /\ Head(todo[t]) \in Ops
         /\ Pending(t) # {} /\ Head(todo[t]) \in Pending(t)
<1>1. Head(todo[t]) \in Pending(t) /\ Head(todo[t]) \in Ops /\ todo[t] # << >>
  BY AliveTodo, HeadFirst DEF Doing
<1> QED BY <1>1, OpForms DEF Doing, Arg, Formed, Will, WillDo

(* The first operation is dropped and nothing put in its stead.            *)
LEMMA ThenNothing ==
  ASSUME OSLTypeOK, Alive, NEW t \in Threads, todo[t] # << >>, Then(t, << >>)
  PROVE  Replaces(t, {})
<1>1. << >> \in Seq(Ops) /\ InOrder(<< >>) /\ Items(<< >>) = {}
  BY InOrderLists, ItemsOf
<1> QED BY <1>1, AliveTodo, ThenReplaces

LEMMA WillAfter ==
  ASSUME NEW t \in Threads, NEW new, Replaces(t, new)
  PROVE  /\ \A n, a : Will(t, n, a)' <=> (Will(t, n, a) /\ Op(n, a) # Head(todo[t])) \/ Op(n, a) \in new
         /\ \A n : WillDo(t, n)' => WillDo(t, n) \/ \E o \in new : o.op = n
         /\ \A n : n # Head(todo[t]).op /\ WillDo(t, n) => WillDo(t, n)'
         /\ \A u \in Threads \ {t} : \A n, a : Will(u, n, a)' <=> Will(u, n, a)
         /\ \A u \in Threads \ {t} : \A n : WillDo(u, n)' <=> WillDo(u, n)
         /\ \A u \in Threads \ {t} : SameRefs(u) /\ SameFrees(u) /\ SameWraps(u)
<1>1. \A u \in Threads \ {t} : Pending(u)' = Pending(u)
  BY DEF Replaces
<1>2. \A n, a : Will(t, n, a)' <=> (Will(t, n, a) /\ Op(n, a) # Head(todo[t])) \/ Op(n, a) \in new
  BY DEF Replaces, Will
<1>3. \A n : WillDo(t, n)' => WillDo(t, n) \/ \E o \in new : o.op = n
  BY DEF Replaces, WillDo
<1>4. \A n : n # Head(todo[t]).op /\ WillDo(t, n) => WillDo(t, n)'
  BY DEF Replaces, WillDo
<1> QED BY <1>1, <1>2, <1>3, <1>4 DEF Will, WillDo, SameRefs, SameFrees, SameWraps

(* Operations of which a thread has one at most, and what is left of what  *)
(* it has to do when it has done that one.                                 *)
Single == StreamOps \cup {"lock", "unlock", "deref", "closefd"}

LEMMA SingleDone ==
  ASSUME OSLTypeOK, Alive, NEW t \in Threads, todo[t] # << >>, NEW new, Replaces(t, new),
         Head(todo[t]).op \in Single
  PROVE  /\ \A n, a : Will(t, n, a)' <=> (Will(t, n, a) /\ n # Head(todo[t]).op) \/ Op(n, a) \in new
         /\ \A n : WillDo(t, n)' <=> (WillDo(t, n) /\ n # Head(todo[t]).op) \/ \E o \in new : o.op = n
         /\ Pending(t)' \subseteq Pending(t) \cup new
<1> DEFINE h == Head(todo[t])
<1>1. TodoOK /\ h \in Ops /\ Formed(h) /\ h = Op(h.op, h.arg)
  BY AliveTodo, HeadFirst, OpForms DEF Formed
<1>2. ASSUME NEW o \in Pending(t), o.op = h.op PROVE o = h
  <2>1. o \in Ops /\ Formed(o) /\ o = Op(o.op, o.arg)
    BY <1>1, HeadFirst, OpForms DEF Formed
  <2>2. CASE h.op \in {"lock", "unlock", "deref", "closefd", "bufclose", "bufflush", "unwrap"}
    BY <1>1, <1>2, <2>1, <2>2 DEF Formed
  <2>3. CASE h.op \in {"send", "bufwrite"}
    <3>1. First(o) = Last(h) /\ Last(h) \in Nat
      <4>1. CASE h.op = "send"
        <5>1. h = Op("send", h.arg) /\ o = Op("send", o.arg)
          BY <1>1, <1>2, <2>1, <4>1
        <5>2. \A a, b : First(Op("send", a)) = Last(Op("send", b)) /\ Last(Op("send", b)) \in Nat
          BY Places, LastPlaces
        <5> HIDE DEF h
        <5> QED BY <5>1, <5>2
      <4>2. CASE h.op = "bufwrite"
        <5>1. h = Op("bufwrite", h.arg) /\ o = Op("bufwrite", o.arg)
          BY <1>1, <1>2, <2>1, <4>2
        <5>2. \A a, b : First(Op("bufwrite", a)) = Last(Op("bufwrite", b)) /\ Last(Op("bufwrite", b)) \in Nat
          BY Places, LastPlaces
        <5> HIDE DEF h
        <5> QED BY <5>1, <5>2
      <4> QED BY <2>3, <4>1, <4>2
    <3> QED BY <1>1, <3>1, HeadFirst
  <2> QED BY <2>2, <2>3 DEF Single, StreamOps
<1>3. Pending(t)' = (Pending(t) \ {h}) \cup new
  BY DEF Replaces
<1>4. \A o \in Pending(t) : o # h <=> o.op # h.op
  BY <1>2
<1> QED BY <1>3, <1>4, OpParts DEF Will, WillDo

LEMMA QuietStep ==
  ASSUME OSLAssumption, OSLTypeOK, Alive,
         \A u \in Threads : SameRefs(u) /\ SameFrees(u) /\ SameWraps(u),
         UNCHANGED <<refs, made, freed, holds, run, detached, wrapped>>,
         Pending(worker)' # {} => Pending(worker) # {},
         "buf" \notin made => buffer' = buffer
  PROVE  RefsCounted' /\ WholeWhenReferred' /\ FreedOnce' /\ ThreadOK' /\ BufferOK'
<1>1. RefsCounted' /\ WholeWhenReferred' /\ FreedOnce'
  BY ObjectsQuiet
<1>2. ThreadOK'
  BY DEF Alive, ThreadOK
<1>3. BufferOK'
  BY WholeSame DEF Alive, BufferOK, SameWraps, SameFrees, Things, Counted
<1> QED BY <1>1, <1>2, <1>3

LEMMA LockStep ==
  ASSUME OSLAssumption, OSLTypeOK, Alive, NEW t \in Threads, Lock(t)
  PROVE  Alive'
<1> DEFINE h == Head(todo[t])
<1>1. h = Op("lock", "safe") /\ Will(t, "lock", "safe") /\ todo[t] # << >> /\ Pending(t) # {}
  BY DoingHead DEF Lock, Formed
<1>2. Replaces(t, {})
  BY <1>1, ThenNothing DEF Lock
<1>3. \A u \in Threads : SameRefs(u) /\ SameFrees(u) /\ SameWraps(u)
  BY <1>1, <1>2, WillAfter, OpParts DEF SameRefs, SameFrees, SameWraps
<1>4. mutex = Nobody /\ mutex' = t
      /\ UNCHANGED <<refs, made, freed, holds, run, detached, wrapped, buffer>>
  BY DEF Lock, objectVars, streamVars
<1>5. RefsCounted' /\ WholeWhenReferred' /\ FreedOnce' /\ ThreadOK' /\ BufferOK'
  BY <1>1, <1>2, <1>3, <1>4, QuietStep DEF Replaces, Threads
<1>8. \A u \in Threads \ {t} : CallsOK(u)' /\ ClosingOK(u)'
  BY <1>2, <1>4, OtherQuiet DEF Replaces, OSLAssumption, Threads
<1>9. /\ \A n, a : Will(t, n, a)' <=> Will(t, n, a) /\ n # "lock"
      /\ \A n : WillDo(t, n)' <=> WillDo(t, n) /\ n # "lock"
      /\ Pending(t)' \subseteq Pending(t)
  BY <1>1, <1>2, SingleDone, OpParts DEF Single
<1>12. Calling(t) /\ Calling(t)'
  BY <1>1, <1>9 DEF Alive, CallsOK, Calling
<1>10. CallsOK(t)'
  BY <1>4, <1>9, <1>12 DEF Alive, CallsOK, Threads
<1>11. ClosingOK(t)'
  BY <1>4, <1>9, <1>12 DEF Alive, ClosingOK
<1> QED BY <1>2, <1>5, <1>8, <1>10, <1>11 DEF Alive, Replaces

LEMMA UnlockStep ==
  ASSUME OSLAssumption, OSLTypeOK, Alive, NEW t \in Threads, Unlock(t)
  PROVE  Alive'
<1> DEFINE h == Head(todo[t])
<1>1. h = Op("unlock", "safe") /\ Will(t, "unlock", "safe") /\ todo[t] # << >> /\ Pending(t) # {}
  BY DoingHead DEF Unlock, Formed
<1>2. Replaces(t, {})
  BY <1>1, ThenNothing DEF Unlock
<1>3. \A u \in Threads : SameRefs(u) /\ SameFrees(u) /\ SameWraps(u)
  BY <1>1, <1>2, WillAfter, OpParts DEF SameRefs, SameFrees, SameWraps
<1>4. mutex' = Nobody /\ UNCHANGED <<refs, made, freed, holds, run, detached, wrapped, buffer>>
  BY DEF Unlock, objectVars, streamVars
<1>5. RefsCounted' /\ WholeWhenReferred' /\ FreedOnce' /\ ThreadOK' /\ BufferOK'
  BY <1>1, <1>2, <1>3, <1>4, QuietStep DEF Replaces, Threads
<1>6. Pending(t) = {h} /\ Pending(t)' = {}
  <2>1. ASSUME NEW o \in Pending(t), o # h PROVE FALSE
    <3>1. o \in Ops /\ Last(h) < First(o) /\ Last(h) = 26
      BY <1>1, <2>1, AliveTodo, HeadFirst, LastPlaces
    <3> QED BY <3>1, PlacesGrow
  <2> QED BY <1>1, <1>2, <2>1, AliveTodo, HeadFirst DEF Replaces
<1>7. mutex = t
  BY <1>1, <1>6, OpParts DEF Alive, CallsOK, Calling, Will
<1>8. \A u \in Threads \ {t} : CallsOK(u)' /\ ClosingOK(u)'
  BY <1>2, <1>4, <1>7, OtherQuiet DEF Replaces, OSLAssumption, Threads
<1>9. CallsOK(t)' /\ ClosingOK(t)'
  BY <1>4, <1>6 DEF CallsOK, ClosingOK, Calling, Will, WillDo, OSLAssumption, Threads
<1> QED BY <1>2, <1>5, <1>8, <1>9 DEF Alive, Replaces

(* A step with the stream that keeps it open.                              *)
LEMMA StreamQuiet ==
  ASSUME OSLAssumption, OSLTypeOK, Alive, NEW t \in Threads, todo[t] # << >>,
         Head(todo[t]).op \in {"bufwrite", "bufflush", "send"},
         NEW new, Replaces(t, new), wrapped,
         \A o \in new : o \in CallOps /\ o.op \in {"bufwrite", "bufflush", "send"},
         UNCHANGED <<refs, made, freed, holds, run, detached, mutex, wrapped>>,
         "buf" \notin made => buffer' = buffer
  PROVE  Alive'
<1> DEFINE n0 == Head(todo[t]).op
<1>1. n0 \in Single /\ n0 \in StreamOps /\ Pending(t) # {} /\ WillDo(t, n0)
  BY AliveTodo, HeadFirst DEF Single, StreamOps, WillDo
<1>2. /\ \A n, a : Will(t, n, a)' <=> (Will(t, n, a) /\ n # n0) \/ Op(n, a) \in new
      /\ \A n : WillDo(t, n)' <=> (WillDo(t, n) /\ n # n0) \/ \E o \in new : o.op = n
      /\ Pending(t)' \subseteq Pending(t) \cup new
  BY <1>1, SingleDone
<1>3. \A n, a : n \notin {"bufwrite", "bufflush", "send"} => (Will(t, n, a)' <=> Will(t, n, a))
  BY <1>2, OpParts
<1>4. \A u \in Threads : SameRefs(u) /\ SameFrees(u) /\ SameWraps(u)
  BY <1>3, WillAfter DEF SameRefs, SameFrees, SameWraps
<1>5. RefsCounted' /\ WholeWhenReferred' /\ FreedOnce' /\ ThreadOK' /\ BufferOK'
  BY <1>1, <1>4, QuietStep DEF Replaces, Threads
<1>6. \A u \in Threads \ {t} : CallsOK(u)' /\ ClosingOK(u)'
  BY OtherQuiet DEF Replaces
<1>7. (Calling(t)' <=> Calling(t)) /\ ~Will(t, "lock", "safe") /\ ~Will(t, "lock", "safe")'
  BY <1>1, <1>3, OneWorks DEF Calling, Threads
<1>8. \A n : WillDo(t, n)' => n \in {"bufwrite", "bufflush", "send"} \/ WillDo(t, n)
  BY <1>2
<1>9. CallsOK(t)'
  <2>1. \A n \in StreamOps : WillDo(t, n)' => Calling(t)' \/ Will(t, "free", "buf")'
    BY <1>1, <1>3, <1>7, <1>8 DEF Alive, CallsOK, StreamOps
  <2>2. Calling(t)' => Pending(t)' \subseteq CallOps
    BY <1>2, <1>7 DEF Alive, CallsOK
  <2> QED BY <1>7, <2>1, <2>2 DEF Alive, CallsOK
<1>10. ClosingOK(t)'
  BY <1>1, <1>3, <1>7, <1>8 DEF Alive, ClosingOK
<1> QED BY <1>5, <1>6, <1>9, <1>10 DEF Alive, Replaces

(* An exception that the program catches: the call is over but for its     *)
(* unlock, and the stream keeps its reference.                             *)
LEMMA ThrowStep ==
  ASSUME OSLAssumption, OSLTypeOK, Alive, NEW t \in Threads, todo[t] # << >>,
         Head(todo[t]).op \in {"bufwrite", "bufflush", "send"},
         Throw(t), ~aborted',
         UNCHANGED <<refs, made, freed, holds, run, detached, mutex, wrapped>>,
         "buf" \notin made => buffer' = buffer
  PROVE  Alive' /\ todo' = [todo EXCEPT ![t] = <<Op("unlock", "safe")>>]
<1> DEFINE n0 == Head(todo[t]).op
<1>1. n0 \in StreamOps /\ Pending(t) # {} /\ WillDo(t, n0)
  BY AliveTodo, HeadFirst DEF StreamOps, WillDo
<1>2. \A x \in Things : ~Will(t, "free", x)
  <2>1. ~Has(t, "free")
    BY DEF Throw
  <2> QED BY <2>1, OpParts DEF Has, Will, Pending
<1>3. Calling(t) /\ mutex = t /\ Whole("buf")
  BY <1>1, <1>2, OneWorks DEF Things, Counted
<1>4. todo' = [todo EXCEPT ![t] = <<Op("unlock", "safe")>>]
  <2>1. Has(t, "unlock")
    BY <1>3, OpParts DEF Calling, Will, Pending, Has
  <2> QED BY <2>1 DEF Throw
<1>5. /\ Pending(t)' = {Op("unlock", "safe")}
      /\ \A u \in Threads \ {t} : Pending(u)' = Pending(u) /\ todo'[u] = todo[u]
      /\ \A u \in Threads : InOrder(todo'[u])
  BY <1>4, AliveTodo, ItemsOf, InOrderLists DEF Pending, Items, TodoOK
<1>6. /\ \A n, a : Will(t, n, a)' <=> n = "unlock" /\ a = "safe"
      /\ \A n : WillDo(t, n)' <=> n = "unlock"
      /\ \A u \in Threads \ {t} : \A n, a : Will(u, n, a)' <=> Will(u, n, a)
  BY <1>5, OpParts DEF Will, WillDo
<1>7. \A x \in Things : (Freeing(x)' <=> Freeing(x)) /\ (Whole(x)' <=> Whole(x))
  <2>1. \A u \in Threads : SameFrees(u)
    BY <1>2, <1>6 DEF SameFrees
  <2> QED BY <2>1, WholeSame
<1>8. \A o \in Counted \ {"out"} : ~Will(t, "unref", o)
  BY <1>3, OpParts DEF Alive, CallsOK, CallOps, Will, Counted
<1>9. ~Will(t, "deref", "shared")
  BY <1>3, OpParts DEF Alive, CallsOK, CallOps, Will
<1>10. Will(t, "unref", "out") <=> Will(t, "unwrap", "buf")
  BY <1>1, <1>3 DEF Alive, ClosingOK
<1>11. \A u \in Threads \ {t} : ~Will(u, "unwrap", "buf")
  BY <1>1, OneWorks
<1>12. RefsCounted'
  <2>1. \A o \in Counted \ {"out"} : Unrefs(o)' = Unrefs(o)
    BY <1>6, <1>8 DEF Unrefs, Count, Threads
  <2>2. Derefs' = Derefs
    BY <1>6, <1>9 DEF Derefs, Count, Threads
  <2>3. Count(Wrapping)' + Unrefs("out")' = Count(Wrapping) + Unrefs("out")
    <3>1. Wrapping' <=> wrapped
      BY <1>6, <1>11 DEF Wrapping
    <3>2. Wrapping <=> wrapped /\ ~Will(t, "unwrap", "buf")
      BY <1>11 DEF Wrapping
    <3>3. Will(t, "unwrap", "buf") => wrapped
      BY DEF Alive, ClosingOK
    <3>4. Unrefs("out") = Unrefs("out")' + Count(Will(t, "unref", "out"))
      BY <1>6 DEF Unrefs, Count, Threads, OSLAssumption
    <3>5. Unrefs("out")' \in Nat
      BY DEF Unrefs, Count
    <3> QED BY <1>10, <3>1, <3>2, <3>3, <3>4, <3>5 DEF Count
  <2>4. \A o \in (Counted \cup {"shared"}) \ {"out"} : Holders(o)' = Holders(o)
    BY <1>7 DEF Holders, Count, Counted, Things
  <2>5. Holders("out")' + Unrefs("out")' = Holders("out") + Unrefs("out")
    <3>1. Unrefs("out")' \in Nat /\ Unrefs("out") \in Nat
      BY DEF Unrefs, Count
    <3>2. Holders("out") = Count(Whole("sock")) + Count(Wrapping)
          /\ Holders("out")' = Count(Whole("sock"))' + Count(Wrapping)'
      BY DEF Holders
    <3>3. Count(Whole("sock"))' = Count(Whole("sock")) /\ Count(Whole("sock")) \in Nat
          /\ Count(Wrapping) \in Nat /\ Count(Wrapping)' \in Nat
      BY <1>7 DEF Count, Things, Counted
    <3> QED BY <2>3, <3>1, <3>2, <3>3
  <2> QED BY <2>1, <2>2, <2>4, <2>5 DEF Alive, RefsCounted, Counted
<1>13. WholeWhenReferred'
  BY <1>7 DEF Alive, WholeWhenReferred, Counted, Things
<1>14. FreedOnce'
  BY <1>2, <1>6, <1>7 DEF Alive, FreedOnce
<1>15. ThreadOK'
  BY <1>1, <1>5 DEF Alive, ThreadOK, Threads
<1>16. BufferOK'
  BY <1>3, <1>7 DEF Alive, BufferOK, Things, Counted, Whole
<1>17. \A u \in Threads \ {t} : CallsOK(u)' /\ ClosingOK(u)'
  BY <1>5, OtherQuiet
<1>18. CallsOK(t)' /\ ClosingOK(t)'
  BY <1>3, <1>5, <1>6 DEF Alive, CallsOK, ClosingOK, Calling, CallOps, StreamOps
<1> QED BY <1>4, <1>5, <1>12, <1>13, <1>14, <1>15, <1>16, <1>17, <1>18 DEF Alive

LEMMA BufferedWriteStep ==
  ASSUME OSLAssumption, OSLTypeOK, Alive, NEW t \in Threads, BufferedWrite(t)
  PROVE  aborted' \/ Alive'
<1>1. /\ todo[t] # << >> /\ Head(todo[t]) = Op("bufwrite", Arg(t)) /\ Head(todo[t]).op = "bufwrite"
      /\ Arg(t) \in Nat \ {0}
  BY DoingHead DEF BufferedWrite, Formed
<1>2. UNCHANGED <<refs, made, freed, holds, run, detached, mutex, wrapped>>
  BY DEF BufferedWrite, objectVars
<1>3. wrapped => "buf" \in made
  BY DEF Alive, BufferOK
<1>4. ~wrapped => buffer' = buffer
  BY DEF BufferedWrite
<1>5. CASE ~wrapped
  BY <1>1, <1>2, <1>4, <1>5, ThrowStep DEF BufferedWrite
<1>6. CASE wrapped
  <2> DEFINE n == IF Arg(t) > maxsize - Len(buffer) THEN maxsize - Len(buffer) ELSE Arg(t)
             f == IF Len(buffer) + n = maxsize THEN <<Op("bufflush", "buf")>> ELSE << >>
             r == IF n < Arg(t) THEN <<Op("bufwrite", Arg(t) - n)>> ELSE << >>
             ops == f \o r
  <2>1. Then(t, ops)
    BY <1>6 DEF BufferedWrite
  <2>2. n < Arg(t) => Arg(t) - n \in Nat \ {0}
    BY <1>1 DEF OSLTypeOK
  <2> HIDE DEF n
  <2>3. /\ ops \in Seq(Ops) /\ InOrder(ops)
        /\ \A o \in Items(ops) : o \in CallOps /\ o.op \in {"bufwrite", "bufflush"} /\ Last(o) <= 9
    <3> DEFINE a == Op("bufflush", "buf")
               b == Op("bufwrite", Arg(t) - n)
    <3>1. a \in Ops /\ a \in CallOps /\ a.op = "bufflush" /\ Last(a) = 8
      BY AreOps, OpParts, LastPlaces DEF CallOps
    <3>2. n < Arg(t) => b \in Ops /\ b \in CallOps /\ b.op = "bufwrite" /\ First(b) = 9 /\ Last(b) = 9
      BY <2>2, AreOps, OpParts, LastPlaces, Places DEF CallOps
    <3> HIDE DEF a, b
    <3>3. CASE Len(buffer) + n = maxsize /\ n < Arg(t)
      <4>1. ops = <<a>> \o <<b>>
        BY <3>3 DEF a, b
      <4>2. /\ <<a>> \in Seq(Ops) /\ InOrder(<<a>>) /\ Items(<<a>>) = {a}
            /\ <<b>> \in Seq(Ops) /\ InOrder(<<b>>) /\ Items(<<b>>) = {b}
        BY <3>1, <3>2, <3>3, InOrderLists, ItemsOf
      <4>3. \A x \in Items(<<a>>), y \in Items(<<b>>) : Last(x) < First(y)
        BY <3>1, <3>2, <3>3, <4>2
      <4> HIDE DEF ops
      <4>4. ops \in Seq(Ops) /\ InOrder(ops) /\ Items(ops) = Items(<<a>>) \cup Items(<<b>>)
        BY <4>1, <4>2, <4>3, JoinLists
      <4> QED BY <3>1, <3>2, <3>3, <4>2, <4>4
    <3>4. CASE Len(buffer) + n = maxsize /\ ~(n < Arg(t))
      <4>1. ops = <<a>>
        BY <3>4 DEF a, b
      <4>2. <<a>> \in Seq(Ops) /\ InOrder(<<a>>) /\ Items(<<a>>) = {a}
        BY <3>1, InOrderLists, ItemsOf
      <4> HIDE DEF ops
      <4> QED BY <3>1, <4>1, <4>2
    <3>5. CASE Len(buffer) + n # maxsize /\ n < Arg(t)
      <4>1. ops = <<b>>
        BY <3>5 DEF a, b
      <4>2. <<b>> \in Seq(Ops) /\ InOrder(<<b>>) /\ Items(<<b>>) = {b}
        BY <3>2, <3>5, InOrderLists, ItemsOf
      <4> HIDE DEF ops
      <4> QED BY <3>2, <3>5, <4>1, <4>2
    <3>6. CASE Len(buffer) + n # maxsize /\ ~(n < Arg(t))
      <4>1. ops = << >>
        BY <3>6
      <4> HIDE DEF ops
      <4>2. << >> \in Seq(Ops)
        OBVIOUS
      <4> QED BY <4>1, <4>2, InOrderLists, ItemsOf
    <3> QED BY <3>3, <3>4, <3>5, <3>6
  <2>4. Last(Head(todo[t])) = 9
    BY <1>1, LastPlaces
  <2> HIDE DEF ops
  <2>5. Replaces(t, Items(ops))
    BY <1>1, <2>1, <2>3, <2>4, AliveTodo, ThenReplaces
  <2> QED BY <1>1, <1>2, <1>3, <1>6, <2>3, <2>5, StreamQuiet
<1> QED BY <1>5, <1>6

LEMMA BufferedFlushStep ==
  ASSUME OSLAssumption, OSLTypeOK, Alive, NEW t \in Threads, BufferedFlush(t)
  PROVE  aborted' \/ Alive'
<1>1. todo[t] # << >> /\ Head(todo[t]) = Op("bufflush", "buf") /\ Head(todo[t]).op = "bufflush"
  BY DoingHead DEF BufferedFlush, Formed
<1>2. UNCHANGED <<refs, made, freed, holds, run, detached, mutex, wrapped>>
  BY DEF BufferedFlush, objectVars
<1>3. wrapped => "buf" \in made
  BY DEF Alive, BufferOK
<1>4. ~wrapped => buffer' = buffer
  BY DEF BufferedFlush
<1>5. CASE ~wrapped
  BY <1>1, <1>2, <1>4, <1>5, ThrowStep DEF BufferedFlush
<1>6. CASE wrapped /\ buffer = << >>
  <2>1. Replaces(t, {})
    BY <1>1, <1>6, ThenNothing DEF BufferedFlush
  <2> QED BY <1>1, <1>2, <1>3, <1>6, <2>1, StreamQuiet
<1>7. CASE wrapped /\ buffer # << >>
  <2> DEFINE a == Op("send", buffer)
  <2>1. a \in Ops /\ a \in CallOps /\ a.op = "send" /\ Last(a) = 8 /\ Last(Head(todo[t])) = 8
    <3>1. buffer \in Seq(Nat)
      BY DEF OSLTypeOK
    <3>2. a \in Ops /\ a \in CallOps
      BY <3>1, AreOps DEF CallOps
    <3> QED BY <1>1, <3>2, OpParts, LastPlaces
  <2>2. Then(t, <<a>>)
    BY <1>7 DEF BufferedFlush
  <2> HIDE DEF a
  <2>3. <<a>> \in Seq(Ops) /\ InOrder(<<a>>) /\ Items(<<a>>) = {a}
    BY <2>1, InOrderLists, ItemsOf
  <2>4. Replaces(t, {a})
    <3>1. \A o \in Items(<<a>>) : Last(o) <= Last(Head(todo[t]))
      BY <2>1, <2>3
    <3>2. Replaces(t, Items(<<a>>))
      BY <1>1, <2>2, <2>3, <3>1, AliveTodo, ThenReplaces
    <3> QED BY <2>3, <3>2
  <2> QED BY <1>1, <1>2, <1>3, <1>7, <2>1, <2>4, StreamQuiet
<1> QED BY <1>5, <1>6, <1>7

LEMMA SendStep ==
  ASSUME OSLAssumption, OSLTypeOK, Alive, NEW t \in Threads, Send(t)
  PROVE  aborted' \/ Alive'
<1>1. todo[t] # << >> /\ Head(todo[t]).op = "send" /\ WillDo(t, "send")
  BY DoingHead DEF Send
<1>2. UNCHANGED <<refs, made, freed, holds, run, detached, mutex, wrapped, buffer>>
  BY DEF Send, objectVars
<1>3. wrapped
  BY <1>1 DEF Alive, ClosingOK
<1>4. CASE Throw(t)
  BY <1>1, <1>2, <1>4, ThrowStep
<1>5. CASE Then(t, << >>)
  <2>1. Replaces(t, {})
    BY <1>1, <1>5, ThenNothing
  <2> QED BY <1>1, <1>2, <1>3, <2>1, StreamQuiet
<1> QED BY <1>4, <1>5 DEF Send

LEMMA CloseStreamStep ==
  ASSUME OSLAssumption, OSLTypeOK, Alive, NEW t \in Threads, CloseStream(t)
  PROVE  Alive'
<1> DEFINE h == Head(todo[t])
<1>1. /\ todo[t] # << >> /\ Pending(t) # {} /\ h.op = "close"
      /\ h = Op("close", "in") \/ h = Op("close", "out")
  BY DoingHead DEF CloseStream, Formed
<1>2. Replaces(t, {})
  BY <1>1, ThenNothing DEF CloseStream
<1>3. UNCHANGED <<refs, made, freed, holds, run, detached, mutex, wrapped, buffer>>
  BY DEF CloseStream, objectVars
<1>4. \A n, a : n # "close" => (Will(t, n, a)' <=> Will(t, n, a))
  BY <1>1, <1>2, WillAfter, OpParts
<1>5. \A a : Will(t, "close", a)' => Will(t, "close", a)
  BY <1>2, WillAfter
<1>6. \A n : n # "close" => (WillDo(t, n)' <=> WillDo(t, n))
  BY <1>1, <1>2, WillAfter
<1>7. \A u \in Threads : SameRefs(u) /\ SameFrees(u) /\ SameWraps(u)
  BY <1>4, <1>2, WillAfter DEF SameRefs, SameFrees, SameWraps
<1>8. RefsCounted' /\ WholeWhenReferred' /\ FreedOnce' /\ ThreadOK' /\ BufferOK'
  BY <1>1, <1>2, <1>3, <1>7, QuietStep DEF Replaces, Threads
<1>9. \A u \in Threads \ {t} : CallsOK(u)' /\ ClosingOK(u)'
  BY <1>2, <1>3, OtherQuiet DEF Replaces
<1>10. CallsOK(t)'
  <2>1. (Calling(t)' <=> Calling(t)) /\ Pending(t)' \subseteq Pending(t)
    BY <1>2, <1>4 DEF Calling, Replaces
  <2> QED BY <1>3, <1>4, <1>6, <2>1 DEF Alive, CallsOK, StreamOps
<1>11. ClosingOK(t)'
  BY <1>3, <1>4, <1>5, <1>6 DEF Alive, ClosingOK, Calling
<1> QED BY <1>2, <1>8, <1>9, <1>10, <1>11 DEF Alive, Replaces

LEMMA CloseDescriptorStep ==
  ASSUME OSLAssumption, OSLTypeOK, Alive, NEW t \in Threads, CloseDescriptor(t)
  PROVE  Alive'
<1>1. /\ todo[t] # << >> /\ Pending(t) # {}
      /\ Head(todo[t]) = Op("closefd", "sock") /\ Head(todo[t]).op = "closefd"
  BY DoingHead DEF CloseDescriptor, Formed
<1>2. Replaces(t, {})
  BY <1>1, ThenNothing DEF CloseDescriptor
<1>3. UNCHANGED <<refs, made, freed, holds, run, detached, mutex, wrapped, buffer>>
  BY DEF CloseDescriptor, objectVars
<1>4. /\ \A n, a : n # "closefd" => (Will(t, n, a)' <=> Will(t, n, a))
      /\ \A n : n # "closefd" => (WillDo(t, n)' <=> WillDo(t, n))
      /\ Pending(t)' \subseteq Pending(t)
  <2>1. \A n, a : n # "closefd" => (Will(t, n, a)' <=> Will(t, n, a))
    BY <1>1, <1>2, WillAfter, OpParts
  <2>2. \A n : n # "closefd" => (WillDo(t, n)' <=> WillDo(t, n))
    BY <1>1, <1>2, WillAfter
  <2> QED BY <1>2, <2>1, <2>2 DEF Replaces
<1>5. \A u \in Threads : SameRefs(u) /\ SameFrees(u) /\ SameWraps(u)
  BY <1>4, <1>2, WillAfter DEF SameRefs, SameFrees, SameWraps
<1>6. RefsCounted' /\ WholeWhenReferred' /\ FreedOnce' /\ ThreadOK' /\ BufferOK'
  BY <1>1, <1>2, <1>3, <1>5, QuietStep DEF Replaces, Threads
<1>7. \A u \in Threads \ {t} : CallsOK(u)' /\ ClosingOK(u)'
  BY <1>2, <1>3, OtherQuiet DEF Replaces
<1>8. CallsOK(t)' /\ ClosingOK(t)'
  BY <1>3, <1>4 DEF Alive, CallsOK, ClosingOK, Calling, StreamOps
<1> QED BY <1>2, <1>6, <1>7, <1>8 DEF Alive, Replaces

(* A step that has nothing to do with objects and threads.                 *)
LEMMA AliveSame ==
  ASSUME Alive, UNCHANGED <<refs, made, freed, holds, todo, run, detached, mutex, wrapped, buffer>>
  PROVE  Alive'
<1>1. /\ \A t : Pending(t)' = Pending(t)
      /\ \A t, n, a : Will(t, n, a)' <=> Will(t, n, a)
      /\ \A t, n : WillDo(t, n)' <=> WillDo(t, n)
      /\ \A x : (Freeing(x)' <=> Freeing(x)) /\ (Whole(x)' <=> Whole(x))
      /\ Wrapping' <=> Wrapping
  BY DEF Pending, Will, WillDo, Freeing, Whole, Wrapping
<1>2. (\A o : Unrefs(o)' = Unrefs(o)) /\ Derefs' = Derefs
  BY <1>1 DEF Unrefs, Derefs, Count
<1>3. RefsCounted'
  BY <1>1, <1>2 DEF Alive, RefsCounted, Holders, Count
<1>4. WholeWhenReferred' /\ FreedOnce' /\ ThreadOK' /\ BufferOK'
  BY <1>1 DEF Alive, WholeWhenReferred, FreedOnce, ThreadOK, BufferOK
<1>5. \A t \in Threads : CallsOK(t)' /\ ClosingOK(t)'
  BY <1>1 DEF Alive, CallsOK, ClosingOK, Calling
<1> QED BY <1>3, <1>4, <1>5 DEF Alive
-----------------------------------------------------------------------------
(* What an object that is deleted leaves behind.                           *)
Left(o) ==
  CASE o = "sock" -> {Op("close", "in"), Op("unref", "in"), Op("close", "out"), Op("unref", "out"),
                      Op("closefd", "sock")}
    [] o = "buf"  -> {Op("bufclose", "buf")}
    [] o = "safe" -> {Op("unref", "buf")}
    [] OTHER      -> {}

LEMMA DestructorLeaves ==
  ASSUME NEW o \in Counted
  PROVE  /\ AfterUnref(o, 1) \in Seq(Ops) /\ InOrder(AfterUnref(o, 1))
         /\ Items(AfterUnref(o, 1)) = Left(o) \cup {Op("free", o)}
         /\ \A x \in Items(AfterUnref(o, 1)) : Last(x) <= Last(Op("unref", o))
<1> DEFINE f == Op("free", o)
<1>1. AfterUnref(o, 1) = Destructor(o) \o <<f>>
  BY DEF AfterUnref
<1>2. f \in Ops /\ <<f>> \in Seq(Ops) /\ InOrder(<<f>>) /\ Items(<<f>>) = {f}
      /\ First(f) = Last(f) /\ Last(f) = Last(Op("unref", o)) /\ Last(f) \in Nat
  <2>1. f \in Ops /\ First(f) = Last(f) /\ Last(f) = Last(Op("unref", o)) /\ Last(f) \in Nat
    BY AreOps, Places, LastPlaces DEF Counted, Things
  <2> HIDE DEF f
  <2>2. <<f>> \in Seq(Ops)
    BY <2>1
  <2> QED BY <2>1, <2>2, InOrderLists, ItemsOf
<1>3. /\ Destructor(o) \in Seq(Ops) /\ InOrder(Destructor(o)) /\ Items(Destructor(o)) = Left(o)
      /\ \A x \in Left(o) : Last(x) < First(f) /\ Last(x) \in Nat
  <2>1. CASE o = "sock"
    <3> DEFINE a == Op("close", "in")  b == Op("unref", "in")  c == Op("close", "out")
               d == Op("unref", "out")  e == Op("closefd", "sock")
    <3>1. Destructor(o) = <<a, b, c, d, e>> /\ Left(o) = {a, b, c, d, e}
      BY <2>1 DEF Destructor, Left
    <3>2. /\ a \in Ops /\ b \in Ops /\ c \in Ops /\ d \in Ops /\ e \in Ops
          /\ First(a) = 10 /\ Last(a) = 10 /\ First(b) = 11 /\ Last(b) = 12 /\ First(c) = 13 /\ Last(c) = 13
          /\ First(d) = 14 /\ Last(d) = 15 /\ First(e) = 17 /\ Last(e) = 17 /\ First(f) = 18
      BY <2>1, AreOps, Places, LastPlaces DEF Counted
    <3> HIDE DEF a, b, c, d, e, f
    <3>3. <<a, b, c, d, e>> \in Seq(Ops) /\ InOrder(<<a, b, c, d, e>>)
          /\ Items(<<a, b, c, d, e>>) = {a, b, c, d, e}
      BY <3>2, InOrderLists, ItemsOf
    <3> QED BY <3>1, <3>2, <3>3
  <2>2. CASE o = "buf"
    <3> DEFINE a == Op("bufclose", "buf")
    <3>1. Destructor(o) = <<a>> /\ Left(o) = {a}
      BY <2>2 DEF Destructor, Left
    <3>2. a \in Ops /\ Last(a) = 16 /\ First(f) = 19
      BY <2>2, AreOps, Places, LastPlaces DEF Counted
    <3> HIDE DEF a, f
    <3>3. <<a>> \in Seq(Ops) /\ InOrder(<<a>>) /\ Items(<<a>>) = {a}
      BY <3>2, InOrderLists, ItemsOf
    <3> QED BY <3>1, <3>2, <3>3
  <2>3. CASE o = "safe"
    <3> DEFINE a == Op("unref", "buf")
    <3>1. Destructor(o) = <<a>> /\ Left(o) = {a}
      BY <2>3 DEF Destructor, Left
    <3>2. a \in Ops /\ Last(a) = 19 /\ First(f) = 20
      BY <2>3, AreOps, Places, LastPlaces DEF Counted
    <3> HIDE DEF a, f
    <3>3. <<a>> \in Seq(Ops) /\ InOrder(<<a>>) /\ Items(<<a>>) = {a}
      BY <3>2, InOrderLists, ItemsOf
    <3> QED BY <3>1, <3>2, <3>3
  <2>4. CASE o \in {"in", "out", "impl"}
    <3>1. Destructor(o) = << >> /\ Left(o) = {}
      BY <2>4 DEF Destructor, Left
    <3>2. << >> \in Seq(Ops)
      OBVIOUS
    <3> QED BY <3>1, <3>2, InOrderLists, ItemsOf
  <2> QED BY <2>1, <2>2, <2>3, <2>4 DEF Counted
<1>4. \A x \in Items(Destructor(o)), y \in Items(<<f>>) : Last(x) < First(y)
  BY <1>2, <1>3
<1>5. /\ Destructor(o) \o <<f>> \in Seq(Ops) /\ InOrder(Destructor(o) \o <<f>>)
      /\ Items(Destructor(o) \o <<f>>) = Items(Destructor(o)) \cup Items(<<f>>)
  BY <1>2, <1>3, <1>4, JoinLists
<1>6. \A x \in Left(o) \cup {f} : Last(x) <= Last(Op("unref", o))
  BY <1>2, <1>3
<1> QED BY <1>1, <1>2, <1>3, <1>5, <1>6

(* How many are going to take a reference away after a step of thread t.   *)
LEMMA UnrefsChange ==
  ASSUME OSLAssumption, NEW t \in Threads, NEW o,
         \A u \in Threads \ {t} : Will(u, "unref", o)' <=> Will(u, "unref", o)
  PROVE  /\ (Will(t, "unref", o)' <=> Will(t, "unref", o)) => Unrefs(o)' = Unrefs(o)
         /\ Will(t, "unref", o) /\ ~Will(t, "unref", o)' => Unrefs(o)' = Unrefs(o) - 1
         /\ ~Will(t, "unref", o) /\ Will(t, "unref", o)' => Unrefs(o)' = Unrefs(o) + 1
         /\ Unrefs(o) \in Nat /\ Unrefs(o)' \in Nat
  BY DEF Unrefs, Count, Threads, OSLAssumption

LEMMA DerefsChange ==
  ASSUME OSLAssumption, NEW t \in Threads,
         \A u \in Threads \ {t} : Will(u, "deref", "shared")' <=> Will(u, "deref", "shared")
  PROVE  /\ (Will(t, "deref", "shared")' <=> Will(t, "deref", "shared")) => Derefs' = Derefs
         /\ Will(t, "deref", "shared") /\ ~Will(t, "deref", "shared")' => Derefs' = Derefs - 1
         /\ ~Will(t, "deref", "shared") /\ Will(t, "deref", "shared")' => Derefs' = Derefs + 1
         /\ Derefs \in Nat /\ Derefs' \in Nat
  BY DEF Derefs, Count, Threads, OSLAssumption

(* Before a stream loses its reference it is closed and written to no more. *)
LEMMA NoneBefore ==
  ASSUME OSLTypeOK, Alive, NEW t \in Threads, todo[t] # << >>
  PROVE  /\ Head(todo[t]) = Op("unref", "in") => ~Will(t, "close", "in")
         /\ Head(todo[t]) = Op("unref", "out") =>
               ~Will(t, "close", "out") /\ \A n \in {"bufwrite", "bufflush", "send"} : ~WillDo(t, n)
<1>1. TodoOK
  BY AliveTodo
<1>2. ASSUME Head(todo[t]) = Op("unref", "in") PROVE ~Will(t, "close", "in")
  BY <1>1, <1>2, Behind, Places, LastPlaces, OpParts
<1>3. ASSUME Head(todo[t]) = Op("unref", "out") PROVE ~Will(t, "close", "out")
  BY <1>1, <1>3, Behind, Places, LastPlaces, OpParts
<1>4. ASSUME Head(todo[t]) = Op("unref", "out"), NEW n \in {"bufwrite", "bufflush", "send"} PROVE ~WillDo(t, n)
  <2>1. SUFFICES ASSUME NEW o \in Pending(t), o.op = n PROVE FALSE
    BY DEF WillDo
  <2>2. o \in Ops /\ Formed(o) /\ o = Op(n, o.arg)
    BY <1>1, <2>1, HeadFirst, OpForms DEF Formed
  <2>3. Last(Head(todo[t])) < First(o) /\ Last(Head(todo[t])) = 15
    BY <1>1, <1>4, <2>1, HeadFirst, LastPlaces, OpParts
  <2>4. First(o) <= 9
    <3>1. o = Op("bufwrite", o.arg) \/ o = Op("send", o.arg) \/ o = Op("bufflush", "buf")
      BY <2>1, <2>2 DEF Formed
    <3> QED BY <3>1, Places
  <2> QED BY <2>2, <2>3, <2>4, PlacesGrow
<1> QED BY <1>2, <1>3, <1>4

(* A reference goes that is not the last one.                              *)
LEMMA UnrefStepNotLast ==
  ASSUME OSLAssumption, OSLTypeOK, Alive, NEW t \in Threads, NEW o \in Counted,
         Unref(t), Arg(t) = o, refs[o] # 1
  PROVE  Alive'
<1>1. /\ todo[t] # << >> /\ Pending(t) # {} /\ o \in Counted
      /\ Head(todo[t]) = Op("unref", o) /\ Head(todo[t]).op = "unref" /\ Will(t, "unref", o)
  BY DoingHead DEF Unref, Formed
<1>2. /\ refs' = [refs EXCEPT ![o] = @ - 1] /\ Then(t, << >>)
      /\ UNCHANGED <<made, freed, holds, run, detached, mutex, wrapped, buffer>>
  BY DEF Unref, AfterUnref, streamVars
<1>3. Replaces(t, {})
  BY <1>1, <1>2, ThenNothing
<1>4. /\ \A n, a : Will(t, n, a)' <=> Will(t, n, a) /\ ~(n = "unref" /\ a = o)
      /\ \A u \in Threads \ {t} : \A n, a : Will(u, n, a)' <=> Will(u, n, a)
      /\ \A n : n # "unref" => (WillDo(t, n)' <=> WillDo(t, n))
  BY <1>1, <1>3, WillAfter, OpParts
<1>5. \A u \in Threads : SameFrees(u) /\ SameWraps(u)
  BY <1>4 DEF SameFrees, SameWraps
<1>6. \A x \in Things : (Freeing(x)' <=> Freeing(x)) /\ (Whole(x)' <=> Whole(x))
  BY <1>2, <1>5, WholeSame
<1>7. Wrapping' <=> Wrapping
  BY <1>2, <1>5 DEF Wrapping, SameWraps
<1>8. Unrefs(o)' = Unrefs(o) - 1 /\ Unrefs(o) \in Nat
  BY <1>1, <1>4, UnrefsChange
<1>17. ASSUME NEW x \in Counted \ {o} PROVE Unrefs(x)' = Unrefs(x) /\ Unrefs(x) \in Nat
  BY <1>4, UnrefsChange
<1>18. Derefs' = Derefs /\ Derefs \in Nat
  BY <1>4, DerefsChange
<1>9. RefsCounted'
  <2>1. \A x \in Counted \cup {"shared"} : refs[x] \in Int /\ refs'[x] = IF x = o THEN refs[x] - 1 ELSE refs[x]
    BY <1>1, <1>2 DEF OSLTypeOK
  <2>2. \A x \in Counted \cup {"shared"} : Holders(x)' = Holders(x) /\ Holders(x) \in Int
    BY <1>2, <1>6, <1>7 DEF Holders, Count, Counted, Things
  <2>3. refs'["shared"] = refs["shared"]
    BY <1>1, <2>1 DEF Counted
  <2> QED BY <1>8, <1>17, <1>18, <2>1, <2>2, <2>3 DEF Alive, RefsCounted
<1>10. WholeWhenReferred'
  <2>1. refs[o] # 0
    BY <1>1, Referred DEF Alive, WholeWhenReferred
  <2>2. \A x \in Counted \cup {"shared"} : refs'[x] # 0 <=> refs[x] # 0
    BY <1>1, <1>2, <2>1 DEF OSLTypeOK
  <2> QED BY <1>2, <1>6, <2>2 DEF Alive, WholeWhenReferred, Counted, Things
<1>11. FreedOnce'
  BY <1>2, <1>5, <1>6 DEF Alive, FreedOnce, SameFrees
<1>12. ThreadOK'
  BY <1>1, <1>2, <1>3 DEF Alive, ThreadOK, Threads, Replaces
<1>13. BufferOK'
  BY <1>2, <1>5, <1>6 DEF Alive, BufferOK, SameWraps, SameFrees, Things, Counted
<1>14. \A u \in Threads \ {t} : CallsOK(u)' /\ ClosingOK(u)'
  BY <1>2, <1>3, OtherQuiet DEF Replaces
<1>15. CallsOK(t)'
  <2>1. (Calling(t)' <=> Calling(t)) /\ Pending(t)' \subseteq Pending(t)
    BY <1>3, <1>4 DEF Calling, Replaces
  <2> QED BY <1>2, <1>4, <2>1 DEF Alive, CallsOK, StreamOps
<1>16. ClosingOK(t)'
  BY <1>1, <1>2, <1>4, NoneBefore DEF Alive, ClosingOK, Calling
<1> QED BY <1>3, <1>9, <1>10, <1>11, <1>12, <1>13, <1>14, <1>15, <1>16 DEF Alive, Replaces

(* Whoever takes the last reference deletes the object.                    *)
LEMMA UnrefStepLast ==
  ASSUME OSLAssumption, OSLTypeOK, Alive, NEW t \in Threads, NEW o \in Counted,
         Unref(t), Arg(t) = o, refs[o] = 1
  PROVE  Alive'
<1> DEFINE new == Left(o) \cup {Op("free", o)}
<1>1. /\ todo[t] # << >> /\ Pending(t) # {}
      /\ Head(todo[t]) = Op("unref", o) /\ Head(todo[t]).op = "unref" /\ Will(t, "unref", o)
  BY DoingHead DEF Unref, Formed
<1>2. /\ refs' = [refs EXCEPT ![o] = @ - 1] /\ Then(t, AfterUnref(o, 1))
      /\ UNCHANGED <<made, freed, holds, run, detached, mutex, wrapped, buffer>>
  BY DEF Unref, streamVars
<1>3. Replaces(t, new)
  <2>1. Replaces(t, Items(AfterUnref(o, 1)))
    BY <1>1, <1>2, DestructorLeaves, AliveTodo, ThenReplaces
  <2> QED BY <2>1, DestructorLeaves
<1>4. /\ \A n, a : Will(t, n, a)' <=> (Will(t, n, a) /\ ~(n = "unref" /\ a = o)) \/ Op(n, a) \in new
      /\ \A u \in Threads \ {t} : \A n, a : Will(u, n, a)' <=> Will(u, n, a)
  BY <1>1, <1>3, WillAfter, OpParts
<1>5. /\ \A x \in Counted : Op("unref", x) \in new <=> \/ o = "sock" /\ x \in {"in", "out"}
                                                       \/ o = "safe" /\ x = "buf"
      /\ \A s \in {"in", "out"} : Op("close", s) \in new <=> o = "sock"
      /\ Op("bufclose", "buf") \in new <=> o = "buf"
      /\ \A x : Op("free", x) \in new <=> x = o
      /\ \A n, a : n \in {"lock", "unlock", "deref", "unwrap", "bufwrite", "bufflush", "send"} => Op(n, a) \notin new
      /\ \A x \in new : x.op \notin {"lock", "unlock", "deref", "unwrap", "bufwrite", "bufflush", "send"}
      /\ o # "buf" => \A x \in new : x.op # "bufclose"
  BY OpParts DEF Left, Counted
<1>6. Whole(o) /\ o \in Things
  BY DEF Alive, WholeWhenReferred, Things
<1>7. /\ ~Whole(o)' /\ Will(t, "free", o)'
      /\ \A x \in Things \ {o} : (Freeing(x)' <=> Freeing(x)) /\ (Whole(x)' <=> Whole(x))
      /\ \A u \in Threads : ~Will(u, "free", o)
      /\ \A x \in Things \ {o} : \A u \in Threads : Will(u, "free", x)' <=> Will(u, "free", x)
  <2>1. \A x \in Things \ {o} : \A u \in Threads : Will(u, "free", x)' <=> Will(u, "free", x)
    BY <1>4, <1>5
  <2>2. Will(t, "free", o)'
    BY <1>4, <1>5
  <2> QED BY <1>2, <1>6, <2>1, <2>2 DEF Whole, Freeing
<1>8. \A u \in Threads : Will(u, "unwrap", "buf")' <=> Will(u, "unwrap", "buf")
  BY <1>4, <1>5
<1>9. Wrapping' <=> Wrapping
  BY <1>2, <1>8 DEF Wrapping
<1>10. \A x \in Counted : Op("unref", x) \in new => ~Will(t, "unref", x)
  <2>1. CASE o = "sock"
    <3>1. ASSUME NEW x \in {"in", "out"}, Will(t, "unref", x) PROVE FALSE
      <4>1. Last(Op("unref", "sock")) < First(Op("unref", x))
        BY <1>1, <2>1, <3>1, AliveTodo, Behind, OpParts
      <4> QED BY <4>1, Places, LastPlaces
    <3> QED BY <1>5, <2>1, <3>1
  <2>2. CASE o = "safe"
    <3>1. ASSUME Will(t, "unref", "buf") PROVE FALSE
      <4>1. Last(Op("unref", "safe")) < First(Op("unref", "buf"))
        BY <1>1, <2>2, <3>1, AliveTodo, Behind, OpParts
      <4> QED BY <4>1, Places, LastPlaces
    <3> QED BY <1>5, <2>2, <3>1
  <2> QED BY <1>5, <2>1, <2>2
<1>11. ASSUME NEW x \in Counted \ {o}
       PROVE Unrefs(x)' = Unrefs(x) + Count(Op("unref", x) \in new) /\ Unrefs(x) \in Nat
  BY <1>4, <1>10, UnrefsChange DEF Count
<1>12. Unrefs(o)' = Unrefs(o) - 1 /\ Unrefs(o) \in Nat
  <2>1. ~Will(t, "unref", o)'
    BY <1>4, <1>5
  <2> QED BY <1>1, <1>4, <2>1, UnrefsChange
<1>13. Derefs' = Derefs /\ Derefs \in Nat
  BY <1>4, <1>5, DerefsChange
<1>14. RefsCounted'
  <2>1. \A x \in Counted \cup {"shared"} : refs[x] \in Int /\ refs'[x] = IF x = o THEN refs[x] - 1 ELSE refs[x]
    BY <1>2 DEF OSLTypeOK
  <2>2. \A x \in Counted : Holders(x)' = Holders(x) - Count(Op("unref", x) \in new) /\ Holders(x) \in Int
    <3>1. CASE o = "sock"
      BY <1>2, <1>5, <1>6, <1>7, <1>9, <3>1 DEF Holders, Count, Counted, Things
    <3>2. CASE o = "safe"
      BY <1>2, <1>5, <1>6, <1>7, <1>9, <3>2 DEF Holders, Count, Counted, Things
    <3>3. CASE o \in Counted \ {"sock", "safe"}
      BY <1>2, <1>5, <1>6, <1>7, <1>9, <3>3 DEF Holders, Count, Counted, Things
    <3> QED BY <3>1, <3>2, <3>3
  <2>3. refs'["shared"] = refs["shared"] /\ Holders("shared")' = Holders("shared")
    BY <1>2, <1>7, <2>1 DEF Holders, Count, Counted, Things
  <2>4. Op("unref", o) \notin new
    BY <1>5
  <2> HIDE DEF new
  <2>5. \A x \in Counted : Count(Op("unref", x) \in new) \in Int
    BY DEF Count
  <2>6. Count(Op("unref", o) \in new) = 0
    BY <2>4 DEF Count
  <2> QED BY <1>11, <1>12, <1>13, <2>1, <2>2, <2>3, <2>5, <2>6 DEF Alive, RefsCounted
<1>15. WholeWhenReferred'
  <2>1. refs'[o] = 0 /\ \A x \in (Counted \cup {"shared"}) \ {o} : refs'[x] = refs[x]
    BY <1>2 DEF OSLTypeOK
  <2> QED BY <1>2, <1>7, <2>1 DEF Alive, WholeWhenReferred, Counted, Things
<1>16. FreedOnce'
  <2>1. ASSUME NEW x \in Things \ {o}
        PROVE  /\ freed'[x] <= 1 /\ (freed'[x] # 0 \/ Freeing(x)' => x \in made')
               /\ \A u \in Threads : Will(u, "free", x)' =>
                     freed'[x] = 0 /\ \A v \in Threads \ {u} : ~Will(v, "free", x)'
    BY <1>2, <1>7 DEF Alive, FreedOnce
  <2>2. freed'[o] = 0 /\ o \in made' /\ \A u \in Threads \ {t} : ~Will(u, "free", o)'
    BY <1>2, <1>4, <1>6, <1>7 DEF Whole
  <2> QED BY <2>1, <2>2 DEF FreedOnce
<1>17. ThreadOK'
  BY <1>1, <1>2, <1>3 DEF Alive, ThreadOK, Threads, Replaces
<1>18. BufferOK'
  <2>1. \A u \in Threads : Will(u, "bufclose", "buf") => Will(u, "bufclose", "buf")'
    BY <1>4, OpParts
  <2>2. CASE o = "buf"
    BY <1>2, <1>4, <1>5, <1>7, <2>2 DEF Alive, BufferOK
  <2>3. CASE o # "buf"
    BY <1>2, <1>7, <1>8, <2>1, <2>3 DEF Alive, BufferOK, Things, Counted
  <2> QED BY <2>2, <2>3
<1>19. \A u \in Threads \ {t} : CallsOK(u)' /\ ClosingOK(u)'
  BY <1>2, <1>3, OtherQuiet DEF Replaces
<1>20. \A n : WillDo(t, n)' => WillDo(t, n) \/ \E x \in new : x.op = n
  BY <1>3, WillAfter
<1>21. CallsOK(t)'
  <2>1. (Calling(t)' <=> Calling(t)) /\ Pending(t)' \subseteq Pending(t) \cup new
    BY <1>3, <1>4, <1>5 DEF Calling, Replaces
  <2>2. Calling(t) => o = "out"
    <3>1. Calling(t) => Op("unref", o) \in CallOps
      BY <1>1 DEF Alive, CallsOK, Will
    <3> QED BY <3>1, OpParts DEF CallOps
  <2>3. Calling(t) => new \subseteq CallOps
    BY <2>2 DEF CallOps, Left
  <2>4. \A n \in StreamOps : WillDo(t, n)' => WillDo(t, n) \/ o = "buf"
    BY <1>5, <1>20 DEF StreamOps
  <2>5. Will(t, "free", "buf") => Will(t, "free", "buf")'
    BY <1>4, OpParts
  <2>6. \A n \in StreamOps : WillDo(t, n)' => Calling(t)' \/ Will(t, "free", "buf")'
    BY <1>7, <2>1, <2>4, <2>5 DEF Alive, CallsOK
  <2>7. /\ Will(t, "lock", "safe")' <=> Will(t, "lock", "safe")
        /\ Will(t, "unwrap", "buf")' <=> Will(t, "unwrap", "buf")
        /\ WillDo(t, "send")' => WillDo(t, "send")
    BY <1>4, <1>5, <1>20
  <2> QED BY <1>2, <2>1, <2>3, <2>6, <2>7 DEF Alive, CallsOK
<1>22. ClosingOK(t)'
  <2>1. (Calling(t)' <=> Calling(t)) /\ (Will(t, "unwrap", "buf")' <=> Will(t, "unwrap", "buf"))
        /\ \A n \in {"bufwrite", "bufflush", "send"} : WillDo(t, n)' => WillDo(t, n)
    BY <1>4, <1>5, <1>20 DEF Calling
  <2>2. \A s \in {"in", "out"} : Will(t, "close", s)' => Will(t, "unref", s)'
    <3>1. CASE o = "sock"
      BY <1>4, <1>5, <3>1 DEF Counted
    <3>2. CASE o # "sock"
      BY <1>1, <1>4, <1>5, <3>2, NoneBefore DEF Alive, ClosingOK
    <3> QED BY <3>1, <3>2
  <2>3. Calling(t)' /\ Will(t, "unref", "out")' => Will(t, "unwrap", "buf")'
    <3>1. Calling(t) => o = "out"
      <4>1. Calling(t) => Op("unref", o) \in CallOps
        BY <1>1 DEF Alive, CallsOK, Will
      <4> QED BY <4>1, OpParts DEF CallOps
    <3> QED BY <1>4, <1>5, <2>1, <3>1 DEF Counted
  <2>4. Will(t, "unwrap", "buf")' /\ (\E n \in {"bufwrite", "bufflush", "send"} : WillDo(t, n)')
          => Will(t, "unref", "out")'
    BY <1>1, <1>4, <2>1, NoneBefore DEF Alive, ClosingOK
  <2> QED BY <1>2, <2>1, <2>2, <2>3, <2>4 DEF Alive, ClosingOK
<1> QED BY <1>3, <1>14, <1>15, <1>16, <1>17, <1>18, <1>19, <1>21, <1>22 DEF Alive, Replaces

LEMMA UnrefStep ==
  ASSUME OSLAssumption, OSLTypeOK, Alive, NEW t \in Threads, Unref(t)
  PROVE  Alive'
<1>1. Arg(t) \in Counted
  BY DoingHead DEF Unref, Formed
<1> QED BY <1>1, UnrefStepNotLast, UnrefStepLast

LEMMA DereferenceStepNotLast ==
  ASSUME OSLAssumption, OSLTypeOK, Alive, NEW t \in Threads, Dereference(t), refs["shared"] # 1
  PROVE  Alive'
<1>1. /\ todo[t] # << >> /\ Pending(t) # {} /\ Will(t, "deref", "shared")
      /\ Head(todo[t]) = Op("deref", "shared") /\ Head(todo[t]).op = "deref"
  BY DoingHead DEF Dereference, Formed
<1>2. /\ refs' = [refs EXCEPT !["shared"] = @ - 1] /\ Then(t, << >>)
      /\ UNCHANGED <<made, freed, holds, run, detached, mutex, wrapped, buffer>>
  BY DEF Dereference, streamVars
<1>3. Replaces(t, {})
  BY <1>1, <1>2, ThenNothing
<1>4. /\ \A n, a : Will(t, n, a)' <=> Will(t, n, a) /\ n # "deref"
      /\ \A n : WillDo(t, n)' <=> WillDo(t, n) /\ n # "deref"
      /\ Pending(t)' \subseteq Pending(t)
  BY <1>1, <1>3, SingleDone DEF Single
<1>5. \A u \in Threads \ {t} : \A n, a : Will(u, n, a)' <=> Will(u, n, a)
  BY <1>3, WillAfter
<1>6. \A u \in Threads : SameFrees(u) /\ SameWraps(u)
  BY <1>4, <1>5 DEF SameFrees, SameWraps
<1>7. \A x \in Things : (Freeing(x)' <=> Freeing(x)) /\ (Whole(x)' <=> Whole(x))
  BY <1>2, <1>6, WholeSame
<1>8. Wrapping' <=> Wrapping
  BY <1>2, <1>6 DEF Wrapping, SameWraps
<1>9. RefsCounted'
  <2>1. \A x \in Counted : Unrefs(x)' = Unrefs(x)
    BY <1>4, <1>5, UnrefsChange
  <2>2. Derefs' = Derefs - 1 /\ Derefs \in Nat
    BY <1>1, <1>4, <1>5, DerefsChange
  <2>3. \A x \in Counted \cup {"shared"} : Holders(x)' = Holders(x) /\ Holders(x) \in Int
    BY <1>2, <1>7, <1>8 DEF Holders, Count, Counted, Things
  <2>4. /\ \A x \in Counted : refs'[x] = refs[x]
        /\ refs["shared"] \in Int /\ refs'["shared"] = refs["shared"] - 1
    BY <1>2 DEF OSLTypeOK, Counted
  <2> QED BY <2>1, <2>2, <2>3, <2>4 DEF Alive, RefsCounted
<1>10. WholeWhenReferred'
  <2>1. refs["shared"] # 0
    BY <1>1, Referred DEF Alive, WholeWhenReferred
  <2>2. \A x \in Counted \cup {"shared"} : refs'[x] # 0 <=> refs[x] # 0
    BY <1>2, <2>1 DEF OSLTypeOK
  <2> QED BY <1>2, <1>7, <2>2 DEF Alive, WholeWhenReferred, Counted, Things
<1>11. FreedOnce'
  BY <1>2, <1>6, <1>7 DEF Alive, FreedOnce, SameFrees
<1>12. ThreadOK'
  BY <1>1, <1>2, <1>3 DEF Alive, ThreadOK, Threads, Replaces
<1>13. BufferOK'
  BY <1>2, <1>6, <1>7 DEF Alive, BufferOK, SameWraps, SameFrees, Things, Counted
<1>14. \A u \in Threads \ {t} : CallsOK(u)' /\ ClosingOK(u)'
  BY <1>2, <1>3, OtherQuiet DEF Replaces
<1>15. CallsOK(t)' /\ ClosingOK(t)'
  <2>1. Calling(t)' <=> Calling(t)
    BY <1>4 DEF Calling
  <2> QED BY <1>2, <1>4, <2>1 DEF Alive, CallsOK, ClosingOK, StreamOps
<1> QED BY <1>3, <1>9, <1>10, <1>11, <1>12, <1>13, <1>14, <1>15 DEF Alive, Replaces

(* The last smart pointer gives its reference to the object up.            *)
LEMMA DereferenceStepLast ==
  ASSUME OSLAssumption, OSLTypeOK, Alive, NEW t \in Threads, Dereference(t), refs["shared"] = 1
  PROVE  Alive'
<1> DEFINE a == Op("unref", "safe")
           f == Op("free", "shared")
<1>1. /\ todo[t] # << >> /\ Pending(t) # {} /\ Will(t, "deref", "shared")
      /\ Head(todo[t]) = Op("deref", "shared") /\ Head(todo[t]).op = "deref"
  BY DoingHead DEF Dereference, Formed
<1>2. /\ refs' = [refs EXCEPT !["shared"] = @ - 1] /\ Then(t, <<a, f>>)
      /\ UNCHANGED <<made, freed, holds, run, detached, mutex, wrapped, buffer>>
  BY DEF Dereference, streamVars
<1>3. Replaces(t, {a, f})
  <2>1. /\ a \in Ops /\ f \in Ops /\ Last(a) = 20 /\ First(f) = 21 /\ Last(f) = 21
        /\ Last(Head(todo[t])) = 21
    BY <1>1, AreOps, Places, LastPlaces DEF Counted, Things
  <2> HIDE DEF a, f
  <2>2. <<a, f>> \in Seq(Ops) /\ InOrder(<<a, f>>) /\ Items(<<a, f>>) = {a, f}
    BY <2>1, InOrderLists, ItemsOf
  <2>3. \A x \in Items(<<a, f>>) : Last(x) <= Last(Head(todo[t]))
    BY <2>1, <2>2
  <2>4. Replaces(t, Items(<<a, f>>))
    BY <1>1, <1>2, <2>2, <2>3, AliveTodo, ThenReplaces
  <2> QED BY <2>2, <2>4
<1>4. /\ \A n, b : Will(t, n, b)' <=> \/ Will(t, n, b) /\ n # "deref"
                                      \/ n = "unref" /\ b = "safe"
                                      \/ n = "free" /\ b = "shared"
      /\ \A n : WillDo(t, n)' => WillDo(t, n) \/ n \in {"unref", "free"}
      /\ Pending(t)' \subseteq Pending(t) \cup {a, f}
  <2>1. \A n, b : Op(n, b) \in {a, f} <=> \/ n = "unref" /\ b = "safe"
                                          \/ n = "free" /\ b = "shared"
    BY OpParts
  <2>2. \A o \in {a, f} : o.op \in {"unref", "free"}
    BY OpParts
  <2> HIDE DEF a, f
  <2> QED BY <1>1, <1>3, <2>1, <2>2, SingleDone DEF Single
<1>5. \A u \in Threads \ {t} : \A n, b : Will(u, n, b)' <=> Will(u, n, b)
  BY <1>3, WillAfter
<1>6. Whole("shared") /\ ~Calling(t)
  <2>1. Op("deref", "shared") \notin CallOps
    BY OpParts DEF CallOps
  <2> QED BY <1>1, <2>1 DEF Alive, WholeWhenReferred, CallsOK, Will
<1>7. /\ ~Whole("shared")' /\ Will(t, "free", "shared")'
      /\ \A x \in Things \ {"shared"} : (Freeing(x)' <=> Freeing(x)) /\ (Whole(x)' <=> Whole(x))
      /\ \A u \in Threads : ~Will(u, "free", "shared")
      /\ \A x \in Things \ {"shared"} : \A u \in Threads : Will(u, "free", x)' <=> Will(u, "free", x)
  BY <1>2, <1>4, <1>5, <1>6 DEF Whole, Freeing
<1>8. /\ \A u \in Threads : Will(u, "unwrap", "buf")' <=> Will(u, "unwrap", "buf")
      /\ \A u \in Threads : Will(u, "bufclose", "buf")' <=> Will(u, "bufclose", "buf")
      /\ Wrapping' <=> Wrapping
  BY <1>2, <1>4, <1>5 DEF Wrapping
<1>9. ~Will(t, "unref", "safe")
  <2>1. ASSUME Will(t, "unref", "safe") PROVE FALSE
    <3>1. Last(Op("deref", "shared")) < First(Op("unref", "safe"))
      BY <1>1, <2>1, AliveTodo, Behind, OpParts
    <3> QED BY <3>1, Places, LastPlaces
  <2> QED BY <2>1
<1>10. RefsCounted'
  <2>1. \A x \in Counted \ {"safe"} : Unrefs(x)' = Unrefs(x)
    BY <1>4, <1>5, UnrefsChange
  <2>2. Unrefs("safe")' = Unrefs("safe") + 1 /\ Unrefs("safe") \in Nat
    BY <1>4, <1>5, <1>9, UnrefsChange
  <2>3. Derefs' = Derefs - 1 /\ Derefs \in Nat
    BY <1>1, <1>4, <1>5, DerefsChange
  <2>4. \A x \in (Counted \cup {"shared"}) \ {"safe"} : Holders(x)' = Holders(x) /\ Holders(x) \in Int
    BY <1>2, <1>7, <1>8 DEF Holders, Count, Counted, Things
  <2>5. Holders("safe")' = Holders("safe") - 1 /\ Holders("safe") \in Int
    BY <1>2, <1>6, <1>7 DEF Holders, Count
  <2>6. /\ \A x \in Counted : refs'[x] = refs[x]
        /\ refs["shared"] \in Int /\ refs'["shared"] = refs["shared"] - 1
    BY <1>2 DEF OSLTypeOK, Counted
  <2> QED BY <2>1, <2>2, <2>3, <2>4, <2>5, <2>6 DEF Alive, RefsCounted, Counted
<1>11. WholeWhenReferred'
  <2>1. refs'["shared"] = 0 /\ \A x \in Counted : refs'[x] = refs[x]
    BY <1>2 DEF OSLTypeOK, Counted
  <2> QED BY <1>2, <1>7, <2>1 DEF Alive, WholeWhenReferred, Counted, Things
<1>12. FreedOnce'
  <2>1. ASSUME NEW x \in Things \ {"shared"}
        PROVE  /\ freed'[x] <= 1 /\ (freed'[x] # 0 \/ Freeing(x)' => x \in made')
               /\ \A u \in Threads : Will(u, "free", x)' =>
                     freed'[x] = 0 /\ \A v \in Threads \ {u} : ~Will(v, "free", x)'
    BY <1>2, <1>7 DEF Alive, FreedOnce
  <2>2. freed'["shared"] = 0 /\ "shared" \in made' /\ \A u \in Threads \ {t} : ~Will(u, "free", "shared")'
    BY <1>2, <1>5, <1>6, <1>7 DEF Whole
  <2> QED BY <2>1, <2>2 DEF FreedOnce
<1>13. ThreadOK'
  BY <1>1, <1>2, <1>3 DEF Alive, ThreadOK, Threads, Replaces
<1>14. BufferOK'
  BY <1>2, <1>7, <1>8 DEF Alive, BufferOK, Things, Counted
<1>15. \A u \in Threads \ {t} : CallsOK(u)' /\ ClosingOK(u)'
  BY <1>2, <1>3, OtherQuiet DEF Replaces
<1>16. CallsOK(t)' /\ ClosingOK(t)'
  <2>1. ~Calling(t)'
    BY <1>4, <1>6 DEF Calling
  <2>2. \A n : n \notin {"unref", "free"} => (WillDo(t, n)' => WillDo(t, n))
    BY <1>4
  <2> QED BY <1>2, <1>4, <1>6, <2>1, <2>2 DEF Alive, CallsOK, ClosingOK, StreamOps
<1> QED BY <1>3, <1>10, <1>11, <1>12, <1>13, <1>14, <1>15, <1>16 DEF Alive, Replaces

LEMMA FreeStep ==
  ASSUME OSLAssumption, OSLTypeOK, Alive, NEW t \in Threads, NEW x \in Things, Free(t), Arg(t) = x
  PROVE  Alive'
<1>1. /\ todo[t] # << >> /\ Pending(t) # {} /\ Will(t, "free", x)
      /\ Head(todo[t]) = Op("free", x) /\ Head(todo[t]).op = "free"
  BY DoingHead DEF Free
<1>2. /\ freed' = [freed EXCEPT ![x] = @ + 1] /\ Then(t, << >>)
      /\ UNCHANGED <<refs, made, holds, run, detached, mutex, wrapped, buffer>>
  BY DEF Free, streamVars
<1>3. Replaces(t, {})
  BY <1>1, <1>2, ThenNothing
<1>4. /\ \A n, a : Will(t, n, a)' <=> Will(t, n, a) /\ ~(n = "free" /\ a = x)
      /\ \A n : n # "free" => (WillDo(t, n)' <=> WillDo(t, n))
      /\ Pending(t)' \subseteq Pending(t)
  <2>1. \A n, a : Will(t, n, a)' <=> Will(t, n, a) /\ ~(n = "free" /\ a = x)
    BY <1>1, <1>3, WillAfter, OpParts
  <2>2. \A n : n # "free" => (WillDo(t, n)' <=> WillDo(t, n))
    BY <1>1, <1>3, WillAfter
  <2> QED BY <1>3, <2>1, <2>2 DEF Replaces
<1>5. \A u \in Threads \ {t} : \A n, a : Will(u, n, a)' <=> Will(u, n, a)
  BY <1>3, WillAfter
<1>6. freed[x] = 0 /\ x \in made /\ \A u \in Threads \ {t} : ~Will(u, "free", x)
  BY <1>1 DEF Alive, FreedOnce, Freeing
<1>7. freed'[x] = 1 /\ (\A y \in Things \ {x} : freed'[y] = freed[y])
  BY <1>2, <1>6 DEF OSLTypeOK
<1>8. \A y \in Things : (Whole(y)' <=> Whole(y)) /\ (y # x => (Freeing(y)' <=> Freeing(y))) /\ ~Freeing(x)'
  BY <1>1, <1>2, <1>4, <1>5, <1>6, <1>7 DEF Whole, Freeing
<1>9. /\ \A u \in Threads : Will(u, "unwrap", "buf")' <=> Will(u, "unwrap", "buf")
      /\ \A u \in Threads : Will(u, "bufclose", "buf")' <=> Will(u, "bufclose", "buf")
      /\ Wrapping' <=> Wrapping
  BY <1>2, <1>4, <1>5 DEF Wrapping
<1>10. RefsCounted'
  <2>1. (\A y \in Counted : Unrefs(y)' = Unrefs(y)) /\ Derefs' = Derefs
    BY <1>4, <1>5, UnrefsChange, DerefsChange
  <2>2. \A y \in Counted \cup {"shared"} : Holders(y)' = Holders(y)
    BY <1>2, <1>8, <1>9 DEF Holders, Count, Counted, Things
  <2> QED BY <1>2, <2>1, <2>2 DEF Alive, RefsCounted
<1>11. WholeWhenReferred'
  BY <1>2, <1>8 DEF Alive, WholeWhenReferred, Counted, Things
<1>12. FreedOnce'
  BY <1>2, <1>4, <1>5, <1>6, <1>7, <1>8 DEF Alive, FreedOnce
<1>13. ThreadOK'
  BY <1>1, <1>2, <1>3 DEF Alive, ThreadOK, Threads, Replaces
<1>14. x = "buf" => \A n \in StreamOps : ~WillDo(t, n)
  <2> SUFFICES ASSUME x = "buf", NEW o \in Pending(t), o.op \in StreamOps PROVE FALSE
    BY DEF WillDo
  <2>1. o \in Ops /\ Formed(o) /\ o = Op(o.op, o.arg)
    BY AliveTodo, HeadFirst, OpForms, <1>1 DEF Formed
  <2>2. Last(Head(todo[t])) < First(o) /\ Last(Head(todo[t])) = 19
    BY <1>1, AliveTodo, HeadFirst, LastPlaces, OpParts DEF StreamOps
  <2>3. First(o) <= 16
    <3>1. \/ o = Op("bufwrite", o.arg) \/ o = Op("send", o.arg) \/ o = Op("bufflush", "buf")
          \/ o = Op("bufclose", "buf") \/ o = Op("unwrap", "buf")
      BY <2>1 DEF Formed, StreamOps
    <3> QED BY <3>1, Places
  <2> QED BY <2>1, <2>2, <2>3, PlacesGrow
<1>15. BufferOK'
  <2>1. x = "buf" => ~Will(t, "bufclose", "buf") /\ ~Will(t, "unwrap", "buf")
    BY <1>14, OpParts DEF StreamOps, WillDo, Will
  <2>2. ASSUME wrapped, NEW u \in Threads, Will(u, "free", "buf"),
               Will(u, "bufclose", "buf") \/ Will(u, "unwrap", "buf")
        PROVE  Will(u, "free", "buf")' /\ (Will(u, "bufclose", "buf")' \/ Will(u, "unwrap", "buf")')
    BY <1>4, <1>5, <1>6, <1>9, <2>1, <2>2
  <2> QED BY <1>2, <1>8, <2>2 DEF Alive, BufferOK, Things, Counted
<1>16. \A u \in Threads \ {t} : CallsOK(u)' /\ ClosingOK(u)'
  BY <1>2, <1>3, OtherQuiet DEF Replaces
<1>17. CallsOK(t)'
  <2>1. Calling(t)' <=> Calling(t)
    BY <1>4 DEF Calling
  <2>2. \A n \in StreamOps : WillDo(t, n)' => Calling(t)' \/ Will(t, "free", "buf")'
    BY <1>4, <1>14, <2>1 DEF Alive, CallsOK, StreamOps
  <2> QED BY <1>2, <1>4, <2>1, <2>2 DEF Alive, CallsOK
<1>18. ClosingOK(t)'
  BY <1>2, <1>4 DEF Alive, ClosingOK, Calling
<1> QED BY <1>3, <1>10, <1>11, <1>12, <1>13, <1>15, <1>16, <1>17, <1>18 DEF Alive, Replaces

(* close() on a stream that is already closed.                             *)
LEMMA BufferedCloseStepClosed ==
  ASSUME OSLAssumption, OSLTypeOK, Alive, NEW t \in Threads, BufferedClose(t), ~wrapped
  PROVE  Alive'
<1>1. /\ todo[t] # << >> /\ Pending(t) # {}
      /\ Head(todo[t]) = Op("bufclose", "buf") /\ Head(todo[t]).op = "bufclose"
  BY DoingHead DEF BufferedClose, Formed
<1>2. Then(t, << >>) /\ UNCHANGED <<refs, made, freed, holds, run, detached, mutex, wrapped, buffer>>
  BY DEF BufferedClose, objectVars, streamVars
<1>3. Replaces(t, {})
  BY <1>1, <1>2, ThenNothing
<1>4. /\ \A n, a : Will(t, n, a)' <=> Will(t, n, a) /\ n # "bufclose"
      /\ \A n : WillDo(t, n)' <=> WillDo(t, n) /\ n # "bufclose"
      /\ Pending(t)' \subseteq Pending(t)
  BY <1>1, <1>3, SingleDone DEF Single, StreamOps
<1>5. \A u \in Threads \ {t} : \A n, a : Will(u, n, a)' <=> Will(u, n, a)
  BY <1>3, WillAfter
<1>6. \A u \in Threads : SameFrees(u)
  BY <1>4, <1>5 DEF SameFrees
<1>7. \A x \in Things : (Freeing(x)' <=> Freeing(x)) /\ (Whole(x)' <=> Whole(x))
  BY <1>2, <1>6, WholeSame
<1>8. RefsCounted'
  <2>1. (\A y \in Counted : Unrefs(y)' = Unrefs(y)) /\ Derefs' = Derefs
    BY <1>4, <1>5, UnrefsChange, DerefsChange
  <2>2. Wrapping' <=> Wrapping
    BY <1>2, <1>4, <1>5 DEF Wrapping
  <2>3. \A y \in Counted \cup {"shared"} : Holders(y)' = Holders(y)
    BY <1>2, <1>7, <2>2 DEF Holders, Count, Counted, Things
  <2> QED BY <1>2, <2>1, <2>3 DEF Alive, RefsCounted
<1>9. WholeWhenReferred'
  BY <1>2, <1>7 DEF Alive, WholeWhenReferred, Counted, Things
<1>10. FreedOnce'
  BY <1>2, <1>6, <1>7 DEF Alive, FreedOnce, SameFrees
<1>11. ThreadOK' /\ BufferOK'
  BY <1>1, <1>2, <1>3 DEF Alive, ThreadOK, BufferOK, Threads, Replaces
<1>12. \A u \in Threads \ {t} : CallsOK(u)' /\ ClosingOK(u)'
  BY <1>2, <1>3, OtherQuiet DEF Replaces
<1>13. CallsOK(t)' /\ ClosingOK(t)'
  <2>1. Calling(t)' <=> Calling(t)
    BY <1>4 DEF Calling
  <2> QED BY <1>2, <1>4, <2>1 DEF Alive, CallsOK, ClosingOK, StreamOps
<1> QED BY <1>3, <1>8, <1>9, <1>10, <1>11, <1>12, <1>13 DEF Alive, Replaces

(* close() on an open stream: the reference to the wrapped stream is now   *)
(* taken away by an operation of its own.                                  *)
LEMMA BufferedCloseStepOpen ==
  ASSUME OSLAssumption, OSLTypeOK, Alive, NEW t \in Threads, BufferedClose(t), wrapped
  PROVE  Alive'
<1> DEFINE a == Op("bufflush", "buf")
           b == Op("close", "out")
           c == Op("unref", "out")
           d == Op("unwrap", "buf")
<1>1. /\ todo[t] # << >> /\ Pending(t) # {} /\ WillDo(t, "bufclose")
      /\ Head(todo[t]) = Op("bufclose", "buf") /\ Head(todo[t]).op = "bufclose"
  BY DoingHead DEF BufferedClose, Formed
<1>2. /\ Then(t, <<a, b, c, d>>)
      /\ UNCHANGED <<refs, made, freed, holds, run, detached, mutex, wrapped, buffer>>
  BY DEF BufferedClose, objectVars, streamVars
<1>3. Replaces(t, {a, b, c, d})
  <2>1. /\ a \in Ops /\ b \in Ops /\ c \in Ops /\ d \in Ops
        /\ Last(a) = 8 /\ First(b) = 13 /\ Last(b) = 13 /\ First(c) = 14 /\ Last(c) = 15
        /\ First(d) = 16 /\ Last(d) = 16 /\ Last(Head(todo[t])) = 16
    BY <1>1, AreOps, Places, LastPlaces DEF Counted
  <2> HIDE DEF a, b, c, d
  <2>2. <<a, b, c, d>> \in Seq(Ops) /\ InOrder(<<a, b, c, d>>) /\ Items(<<a, b, c, d>>) = {a, b, c, d}
    BY <2>1, InOrderLists, ItemsOf
  <2>3. \A x \in Items(<<a, b, c, d>>) : Last(x) <= Last(Head(todo[t]))
    BY <2>1, <2>2
  <2>4. Replaces(t, Items(<<a, b, c, d>>))
    BY <1>1, <1>2, <2>2, <2>3, AliveTodo, ThenReplaces
  <2> QED BY <2>2, <2>4
<1>4. /\ \A n, e : Will(t, n, e)' <=> \/ Will(t, n, e) /\ n # "bufclose"
                                      \/ n \in {"bufflush", "unwrap"} /\ e = "buf"
                                      \/ n \in {"close", "unref"} /\ e = "out"
      /\ \A n : WillDo(t, n)' => WillDo(t, n) \/ n \in {"bufflush", "unwrap", "close", "unref"}
      /\ Pending(t)' \subseteq Pending(t) \cup {a, b, c, d}
  <2>1. \A n, e : Op(n, e) \in {a, b, c, d} <=> \/ n \in {"bufflush", "unwrap"} /\ e = "buf"
                                                \/ n \in {"close", "unref"} /\ e = "out"
    BY OpParts
  <2>2. \A o \in {a, b, c, d} : o.op \in {"bufflush", "unwrap", "close", "unref"}
    BY OpParts
  <2> HIDE DEF a, b, c, d
  <2> QED BY <1>1, <1>3, <2>1, <2>2, SingleDone DEF Single, StreamOps
<1>5. \A u \in Threads \ {t} : \A n, e : Will(u, n, e)' <=> Will(u, n, e)
  BY <1>3, WillAfter
<1>6. ~Will(t, "unref", "out") /\ ~Will(t, "unwrap", "buf")
  <2>1. Will(t, "unref", "out") => Last(Op("bufclose", "buf")) < First(Op("unref", "out"))
    BY <1>1, AliveTodo, Behind, OpParts
  <2>2. Will(t, "unwrap", "buf") => Last(Op("bufclose", "buf")) < First(Op("unwrap", "buf"))
    BY <1>1, AliveTodo, Behind, OpParts
  <2> QED BY <2>1, <2>2, Places, LastPlaces
<1>7. \A u \in Threads \ {t} : ~Will(u, "unwrap", "buf")
  BY <1>1, OneWorks DEF StreamOps
<1>8. Wrapping /\ ~Wrapping'
  BY <1>2, <1>4, <1>6, <1>7 DEF Wrapping
<1>9. \A u \in Threads : SameFrees(u)
  BY <1>4, <1>5 DEF SameFrees
<1>10. \A x \in Things : (Freeing(x)' <=> Freeing(x)) /\ (Whole(x)' <=> Whole(x))
  BY <1>2, <1>9, WholeSame
<1>11. RefsCounted'
  <2>1. \A x \in Counted \ {"out"} : Unrefs(x)' = Unrefs(x)
    BY <1>4, <1>5, UnrefsChange
  <2>2. Unrefs("out")' = Unrefs("out") + 1 /\ Unrefs("out") \in Nat
    BY <1>4, <1>5, <1>6, UnrefsChange
  <2>3. Derefs' = Derefs
    BY <1>4, <1>5, DerefsChange
  <2>4. \A x \in (Counted \cup {"shared"}) \ {"out"} : Holders(x)' = Holders(x)
    BY <1>2, <1>10 DEF Holders, Count, Counted, Things
  <2>5. Holders("out")' = Holders("out") - 1 /\ Holders("out") \in Int
    BY <1>8, <1>10 DEF Holders, Count, Counted, Things
  <2> QED BY <1>2, <2>1, <2>2, <2>3, <2>4, <2>5 DEF Alive, RefsCounted, Counted
<1>12. WholeWhenReferred'
  BY <1>2, <1>10 DEF Alive, WholeWhenReferred, Counted, Things
<1>13. FreedOnce'
  BY <1>2, <1>9, <1>10 DEF Alive, FreedOnce, SameFrees
<1>14. ThreadOK'
  BY <1>1, <1>2, <1>3 DEF Alive, ThreadOK, Threads, Replaces
<1>15. BufferOK'
  BY <1>2, <1>4, <1>5, <1>10 DEF Alive, BufferOK, Things, Counted
<1>16. \A u \in Threads \ {t} : CallsOK(u)' /\ ClosingOK(u)'
  BY <1>2, <1>3, OtherQuiet DEF Replaces
<1>17. CallsOK(t)'
  <2>1. (Calling(t)' <=> Calling(t)) /\ (Will(t, "free", "buf")' <=> Will(t, "free", "buf"))
        /\ ~Will(t, "lock", "safe")' /\ ~Will(t, "lock", "safe")
    BY <1>1, <1>4, OneWorks DEF Calling, StreamOps, Threads, OSLAssumption
  <2>2. {a, b, c, d} \subseteq CallOps
    BY DEF CallOps
  <2>3. Calling(t) \/ Will(t, "free", "buf")
    BY <1>1 DEF Alive, CallsOK, StreamOps
  <2> QED BY <1>2, <1>4, <2>1, <2>2, <2>3 DEF Alive, CallsOK
<1>18. ClosingOK(t)'
  <2>1. WillDo(t, "send")' => WillDo(t, "send")
    BY <1>4
  <2> QED BY <1>2, <1>4, <2>1 DEF Alive, ClosingOK
<1> QED BY <1>3, <1>11, <1>12, <1>13, <1>14, <1>15, <1>16, <1>17, <1>18 DEF Alive, Replaces

LEMMA UnwrapStep ==
  ASSUME OSLAssumption, OSLTypeOK, Alive, NEW t \in Threads, Unwrap(t)
  PROVE  Alive'
<1>1. /\ todo[t] # << >> /\ Pending(t) # {} /\ Will(t, "unwrap", "buf") /\ WillDo(t, "unwrap")
      /\ Head(todo[t]) = Op("unwrap", "buf") /\ Head(todo[t]).op = "unwrap"
  BY DoingHead DEF Unwrap, Formed
<1>2. /\ wrapped' = FALSE /\ Then(t, << >>)
      /\ UNCHANGED <<refs, made, freed, holds, run, detached, mutex, buffer>>
  BY DEF Unwrap, objectVars
<1>3. Replaces(t, {})
  BY <1>1, <1>2, ThenNothing
<1>4. /\ \A n, a : Will(t, n, a)' <=> Will(t, n, a) /\ n # "unwrap"
      /\ \A n : WillDo(t, n)' <=> WillDo(t, n) /\ n # "unwrap"
      /\ Pending(t)' \subseteq Pending(t)
  BY <1>1, <1>3, SingleDone DEF Single, StreamOps
<1>5. /\ \A u \in Threads \ {t} : \A n, a : Will(u, n, a)' <=> Will(u, n, a)
      /\ \A u \in Threads \ {t} : \A n : WillDo(u, n)' <=> WillDo(u, n)
      /\ \A u \in Threads \ {t} : Pending(u)' = Pending(u)
  BY <1>3, WillAfter DEF Replaces
<1>6. \A u \in Threads : SameFrees(u)
  BY <1>4, <1>5 DEF SameFrees
<1>7. \A x \in Things : (Freeing(x)' <=> Freeing(x)) /\ (Whole(x)' <=> Whole(x))
  BY <1>2, <1>6, WholeSame
<1>8. RefsCounted'
  <2>1. (\A y \in Counted : Unrefs(y)' = Unrefs(y)) /\ Derefs' = Derefs
    BY <1>4, <1>5, UnrefsChange, DerefsChange
  <2>2. ~Wrapping' /\ ~Wrapping
    BY <1>1, <1>2 DEF Wrapping
  <2>3. \A y \in Counted \cup {"shared"} : Holders(y)' = Holders(y)
    BY <1>2, <1>7, <2>2 DEF Holders, Count, Counted, Things
  <2> QED BY <1>2, <2>1, <2>3 DEF Alive, RefsCounted
<1>9. WholeWhenReferred'
  BY <1>2, <1>7 DEF Alive, WholeWhenReferred, Counted, Things
<1>10. FreedOnce'
  BY <1>2, <1>6, <1>7 DEF Alive, FreedOnce, SameFrees
<1>11. ThreadOK' /\ BufferOK'
  BY <1>1, <1>2, <1>3 DEF Alive, ThreadOK, BufferOK, Threads, Replaces
<1>12. ASSUME NEW u \in Threads \ {t} PROVE CallsOK(u)' /\ ClosingOK(u)'
  <2>1. ~WillDo(u, "send") /\ ~Will(u, "unwrap", "buf")
    BY <1>1, OneWorks DEF StreamOps
  <2>2. Calling(u)' <=> Calling(u)
    BY <1>5 DEF Calling
  <2>3. CallsOK(u)'
    BY <1>2, <1>5, <2>2 DEF Alive, CallsOK
  <2>4. ClosingOK(u)'
    BY <1>5, <2>1, <2>2 DEF Alive, ClosingOK
  <2> QED BY <2>3, <2>4
<1>13. ~Will(t, "unref", "out") /\ ~WillDo(t, "send")
  <2>1. Will(t, "unref", "out") => Last(Op("unwrap", "buf")) < First(Op("unref", "out"))
    BY <1>1, AliveTodo, Behind, OpParts
  <2>2. ASSUME NEW o \in Pending(t), o.op = "send" PROVE FALSE
    <3>1. o \in Ops /\ Formed(o) /\ o = Op("send", o.arg)
      BY <1>1, <2>2, AliveTodo, HeadFirst, OpForms DEF Formed
    <3>2. Last(Op("unwrap", "buf")) < First(o)
      BY <1>1, <2>2, AliveTodo, HeadFirst
    <3> QED BY <3>1, <3>2, Places, LastPlaces
  <2> QED BY <2>1, <2>2, Places, LastPlaces DEF WillDo
<1>14. CallsOK(t)' /\ ClosingOK(t)'
  <2>1. Calling(t)' <=> Calling(t)
    BY <1>4 DEF Calling
  <2> QED BY <1>2, <1>4, <1>13, <2>1 DEF Alive, CallsOK, ClosingOK, StreamOps
<1> QED BY <1>3, <1>8, <1>9, <1>10, <1>11, <1>12, <1>14 DEF Alive, Replaces
-----------------------------------------------------------------------------
(* What holds when the program has made something.                         *)
Made(things, taken, kept) ==
  /\ \A t : Pending(t)' = Pending(t) /\ todo'[t] = todo[t]
  /\ \A t, n, a : Will(t, n, a)' <=> Will(t, n, a)
  /\ \A t, n : WillDo(t, n)' <=> WillDo(t, n)
  /\ \A o \in Counted : Unrefs(o)' = Unrefs(o) /\ Unrefs(o) \in Nat
  /\ Derefs' = Derefs /\ Derefs \in Nat
  /\ \A x \in Things : Whole(x)' <=> Whole(x) \/ x \in things
  /\ \A x \in things : ~Whole(x) /\ x \notin made
  /\ \A x \in things \cap (Counted \cup {"shared"}) : refs[x] = 0
  /\ \A x \in Counted \cup {"shared"} :
        refs[x] \in Int /\ refs'[x] = IF x \in things THEN 1 ELSE refs[x] + (IF x \in taken THEN 1 ELSE 0)
  /\ made' = made \cup things /\ holds'[main] = holds[main] \cup {kept}
  /\ UNCHANGED <<run, freed, mutex, buffer, todo>>
  /\ FreedOnce'

(* The program makes something: it is whole, and referred to by the        *)
(* program or what it is a part of.                                        *)
LEMMA MakeFacts ==
  ASSUME OSLAssumption, OSLTypeOK, Alive,
         NEW things \in SUBSET Things, NEW taken \in SUBSET (Counted \cup {"shared"}), NEW kept,
         Make(things, taken, kept)
  PROVE  Made(things, taken, kept)
<1>1. /\ things \cap made = {} /\ made' = made \cup things
      /\ refs' = [o \in DOMAIN refs |-> IF o \in things THEN 1 ELSE refs[o] + (IF o \in taken THEN 1 ELSE 0)]
      /\ holds' = [holds EXCEPT ![main] = @ \cup {kept}]
      /\ UNCHANGED <<run, freed, mutex, buffer, todo>>
  BY DEF Make
<1>2. /\ \A t : Pending(t)' = Pending(t) /\ todo'[t] = todo[t]
      /\ \A t, n, a : Will(t, n, a)' <=> Will(t, n, a)
      /\ \A t, n : WillDo(t, n)' <=> WillDo(t, n)
  BY <1>1 DEF Pending, Will, WillDo
<1>3. \A o \in Counted : Unrefs(o)' = Unrefs(o) /\ Unrefs(o) \in Nat
  BY <1>2 DEF Unrefs, Count
<1>4. Derefs' = Derefs /\ Derefs \in Nat
  BY <1>2 DEF Derefs, Count
<1>5. \A x \in Things : Freeing(x)' <=> Freeing(x)
  BY <1>2 DEF Freeing
<1>6. \A x \in things : x \notin made /\ freed[x] = 0 /\ ~Freeing(x)
  BY <1>1 DEF Alive, FreedOnce
<1>7. /\ \A x \in Things : Whole(x)' <=> Whole(x) \/ x \in things
      /\ \A x \in things : ~Whole(x)
  BY <1>1, <1>5, <1>6 DEF Whole
<1>8. \A x \in things \cap (Counted \cup {"shared"}) : refs[x] = 0
  BY <1>7 DEF Alive, WholeWhenReferred
<1>9. FreedOnce'
  BY <1>1, <1>2, <1>5 DEF Alive, FreedOnce
<1>10. holds'[main] = holds[main] \cup {kept}
  BY <1>1 DEF OSLTypeOK, Threads
<1>11. \A x \in Counted \cup {"shared"} :
          refs[x] \in Int /\ refs'[x] = IF x \in things THEN 1 ELSE refs[x] + (IF x \in taken THEN 1 ELSE 0)
  BY <1>1 DEF OSLTypeOK
<1> QED BY <1>1, <1>2, <1>3, <1>4, <1>6, <1>7, <1>8, <1>9, <1>10, <1>11 DEF Made

(* The threads go on with what they are doing.                             *)
LEMMA MakeKeepsCalls ==
  ASSUME OSLAssumption, OSLTypeOK, Alive,
         NEW things \in SUBSET Things, NEW taken \in SUBSET (Counted \cup {"shared"}), NEW kept,
         Make(things, taken, kept), wrapped => wrapped'
  PROVE  \A t \in Threads : InOrder(todo'[t]) /\ CallsOK(t)' /\ ClosingOK(t)'
<1> SUFFICES ASSUME NEW t \in Threads PROVE InOrder(todo'[t]) /\ CallsOK(t)' /\ ClosingOK(t)'
  OBVIOUS
<1>1. /\ Pending(t)' = Pending(t) /\ todo'[t] = todo[t]
      /\ \A n, a : Will(t, n, a)' <=> Will(t, n, a)
      /\ \A n : WillDo(t, n)' <=> WillDo(t, n)
      /\ holds'[main] = holds[main] \cup {kept} /\ UNCHANGED <<run, mutex>>
  BY MakeFacts DEF Made
<1>2. Calling(t)' <=> Calling(t)
  BY <1>1 DEF Calling
<1>3. InOrder(todo'[t])
  BY <1>1 DEF Alive
<1>4. CallsOK(t)'
  BY <1>1, <1>2 DEF Alive, CallsOK
<1>5. ClosingOK(t)'
  BY <1>1, <1>2 DEF Alive, ClosingOK
<1> QED BY <1>3, <1>4, <1>5

(* What has got another reference had one.                                 *)
LEMMA MakeRefers ==
  ASSUME OSLAssumption, OSLTypeOK, Alive,
         NEW things \in SUBSET Things, NEW taken \in SUBSET (Counted \cup {"shared"}), NEW kept,
         Make(things, taken, kept), \A x \in taken : Whole(x)
  PROVE  \A o \in Counted \cup {"shared"} : Whole(o)' <=> refs'[o] # 0
<1> SUFFICES ASSUME NEW o \in Counted \cup {"shared"} PROVE Whole(o)' <=> refs'[o] # 0
  OBVIOUS
<1>1. /\ Whole(o)' <=> Whole(o) \/ o \in things
      /\ refs'[o] = IF o \in things THEN 1 ELSE refs[o] + (IF o \in taken THEN 1 ELSE 0)
  <2>1. Made(things, taken, kept) /\ o \in Things
    BY MakeFacts DEF Things
  <2> QED BY <2>1 DEF Made
<1>2. (Whole(o) <=> refs[o] # 0) /\ (o \in taken => Whole(o)) /\ refs[o] \in Int
  BY DEF Alive, WholeWhenReferred, OSLTypeOK
<1>3. refs[o] >= 0
  <2>1. Unrefs(o) \in Nat /\ Derefs \in Nat /\ Holders(o) \in Nat
    BY DEF Unrefs, Derefs, Holders, Count
  <2> QED BY <2>1 DEF Alive, RefsCounted
<1> QED BY <1>1, <1>2, <1>3

LEMMA ConnectStep ==
  ASSUME OSLAssumption, OSLTypeOK, Alive, Connect PROVE Alive'
<1> DEFINE things == {"sock", "in", "out"}
<1>1. Make(things, {}, "sock") /\ UNCHANGED <<detached, wrapped>>
      /\ things \in SUBSET Things /\ {} \in SUBSET (Counted \cup {"shared"})
  BY DEF Connect, Things, Counted
<1> HIDE DEF things
<1>0. Made(things, {}, "sock")
  BY <1>1, MakeFacts
<1>2. /\ \A t, n, a : Will(t, n, a)' <=> Will(t, n, a)
      /\ \A o \in Counted : Unrefs(o)' = Unrefs(o) /\ Unrefs(o) \in Nat
      /\ Derefs' = Derefs /\ Derefs \in Nat
      /\ \A x \in Things : Whole(x)' <=> Whole(x) \/ x \in things
      /\ \A x \in things : ~Whole(x)
      /\ \A x \in things \cap (Counted \cup {"shared"}) : refs[x] = 0
      /\ \A x \in Counted \cup {"shared"} : refs[x] \in Int /\ refs'[x] = IF x \in things THEN 1 ELSE refs[x]
      /\ made' = made \cup things /\ holds'[main] = holds[main] \cup {"sock"}
      /\ UNCHANGED <<run, buffer>> /\ Pending(worker)' = Pending(worker)
      /\ FreedOnce'
  BY <1>0 DEF Made
<1>3. RefsCounted'
  <2>1. Wrapping' <=> Wrapping
    BY <1>1, <1>2 DEF Wrapping
  <2>2. \A x \in (Counted \cup {"shared"}) \ things : Holders(x)' = Holders(x)
    BY <1>2, <2>1 DEF Holders, Count, Counted, Things, things
  <2>3. Unrefs("sock") = 0 /\ Unrefs("in") = 0 /\ Unrefs("out") = 0 /\ ~Wrapping
    BY <1>2 DEF Alive, RefsCounted, Holders, Count, Counted, Things, things
  <2>4. Holders("sock")' = 1 /\ Holders("in")' = 1 /\ Holders("out")' = 1
    BY <1>2, <2>1, <2>3 DEF Holders, Count, Counted, Things, things
  <2> QED BY <1>2, <2>2, <2>3, <2>4 DEF Alive, RefsCounted, things
<1>4. WholeWhenReferred'
  <2>1. \A o \in Counted \cup {"shared"} : Whole(o)' <=> refs'[o] # 0
    BY <1>1, MakeRefers
  <2> QED BY <1>1, <1>2, <2>1 DEF Alive, WholeWhenReferred, Things, things
<1>5. ThreadOK' /\ BufferOK'
  BY <1>1, <1>2 DEF Alive, ThreadOK, BufferOK, Things, Counted, things
<1>6. \A t \in Threads : InOrder(todo'[t]) /\ CallsOK(t)' /\ ClosingOK(t)'
  BY <1>1, MakeKeepsCalls
<1> QED BY <1>2, <1>3, <1>4, <1>5, <1>6 DEF Alive

LEMMA MakeBufferedStep ==
  ASSUME OSLAssumption, OSLTypeOK, Alive, MakeBuffered PROVE Alive'
<1> DEFINE things == {"buf"}
<1>1. Make(things, {"out"}, "buf") /\ UNCHANGED detached /\ wrapped' = TRUE /\ "sock" \in holds[main]
      /\ things \in SUBSET Things /\ {"out"} \in SUBSET (Counted \cup {"shared"})
  BY DEF MakeBuffered, Things, Counted
<1>0. Made(things, {"out"}, "buf")
  BY <1>1, MakeFacts
<1>2. /\ \A t, n, a : Will(t, n, a)' <=> Will(t, n, a)
      /\ \A o \in Counted : Unrefs(o)' = Unrefs(o) /\ Unrefs(o) \in Nat
      /\ Derefs' = Derefs /\ Derefs \in Nat
      /\ \A x \in Things : Whole(x)' <=> Whole(x) \/ x = "buf"
      /\ ~Whole("buf") /\ refs["buf"] = 0 /\ "buf" \notin made
      /\ \A x \in Counted \cup {"shared"} :
            refs[x] \in Int /\ refs'[x] = IF x = "buf" THEN 1 ELSE refs[x] + (IF x = "out" THEN 1 ELSE 0)
      /\ made' = made \cup {"buf"} /\ holds'[main] = holds[main] \cup {"buf"}
      /\ UNCHANGED <<run, buffer>> /\ Pending(worker)' = Pending(worker)
      /\ FreedOnce'
  BY <1>0 DEF Made, Counted, Things
<1>3. ~Wrapping /\ Wrapping'
  <2>1. ~wrapped
    BY <1>2 DEF Alive, BufferOK
  <2>2. \A u \in Threads : ~Will(u, "unwrap", "buf")
    BY <2>1 DEF Alive, ClosingOK
  <2> QED BY <1>1, <1>2, <2>1, <2>2 DEF Wrapping
<1>4. RefsCounted'
  <2>1. \A x \in (Counted \cup {"shared"}) \ {"buf", "out"} : Holders(x)' = Holders(x)
    BY <1>2 DEF Holders, Count, Counted, Things
  <2>2. Holders("out")' = Holders("out") + 1 /\ Holders("out") \in Int
    BY <1>2, <1>3 DEF Holders, Count, Counted, Things
  <2>3. Unrefs("buf") = 0 /\ ~Whole("safe")
    BY <1>2 DEF Alive, RefsCounted, Holders, Count, Counted
  <2>4. Holders("buf")' = 1
    BY <1>2, <2>3 DEF Holders, Count, Counted, Things
  <2> QED BY <1>2, <2>1, <2>2, <2>3, <2>4 DEF Alive, RefsCounted, Counted
<1>5. WholeWhenReferred'
  <2>1. Whole("out")
    BY <1>1, Referred
  <2>2. \A o \in Counted \cup {"shared"} : Whole(o)' <=> refs'[o] # 0
    BY <1>1, <2>1, MakeRefers
  <2> QED BY <1>1, <1>2, <2>2 DEF Alive, WholeWhenReferred, Things
<1>6. ThreadOK' /\ BufferOK'
  BY <1>1, <1>2 DEF Alive, ThreadOK, BufferOK, Things, Counted
<1>7. \A t \in Threads : InOrder(todo'[t]) /\ CallsOK(t)' /\ ClosingOK(t)'
  BY <1>1, MakeKeepsCalls
<1> QED BY <1>2, <1>4, <1>5, <1>6, <1>7 DEF Alive

LEMMA CreateThreadSafeStep ==
  ASSUME OSLAssumption, OSLTypeOK, Alive, CreateThreadSafe PROVE Alive'
<1> DEFINE things == {"safe"}
<1>1. Make(things, {"buf"}, "safe") /\ UNCHANGED <<detached, wrapped>> /\ "buf" \in holds[main]
      /\ things \in SUBSET Things /\ {"buf"} \in SUBSET (Counted \cup {"shared"})
  BY DEF CreateThreadSafe, Things, Counted
<1>0. Made(things, {"buf"}, "safe")
  BY <1>1, MakeFacts
<1>2. /\ \A t, n, a : Will(t, n, a)' <=> Will(t, n, a)
      /\ \A o \in Counted : Unrefs(o)' = Unrefs(o) /\ Unrefs(o) \in Nat
      /\ Derefs' = Derefs /\ Derefs \in Nat
      /\ \A x \in Things : Whole(x)' <=> Whole(x) \/ x = "safe"
      /\ ~Whole("safe") /\ refs["safe"] = 0
      /\ \A x \in Counted \cup {"shared"} :
            refs[x] \in Int /\ refs'[x] = IF x = "safe" THEN 1 ELSE refs[x] + (IF x = "buf" THEN 1 ELSE 0)
      /\ made' = made \cup {"safe"} /\ holds'[main] = holds[main] \cup {"safe"}
      /\ UNCHANGED <<run, buffer>> /\ Pending(worker)' = Pending(worker)
      /\ FreedOnce'
  BY <1>0 DEF Made, Counted, Things
<1>3. Wrapping' <=> Wrapping
  BY <1>1, <1>2 DEF Wrapping
<1>4. RefsCounted'
  <2>1. \A x \in (Counted \cup {"shared"}) \ {"safe", "buf"} : Holders(x)' = Holders(x)
    BY <1>2, <1>3 DEF Holders, Count, Counted, Things
  <2>2. Holders("buf")' = Holders("buf") + 1 /\ Holders("buf") \in Int
    BY <1>2 DEF Holders, Count, Counted, Things
  <2>3. Unrefs("safe") = 0 /\ ~Whole("shared")
    BY <1>2 DEF Alive, RefsCounted, Holders, Count, Counted
  <2>4. Holders("safe")' = 1
    BY <1>2, <2>3 DEF Holders, Count, Counted, Things
  <2> QED BY <1>2, <2>1, <2>2, <2>3, <2>4 DEF Alive, RefsCounted, Counted
<1>5. WholeWhenReferred'
  <2>1. Whole("buf")
    BY <1>1, Referred
  <2>2. \A o \in Counted \cup {"shared"} : Whole(o)' <=> refs'[o] # 0
    BY <1>1, <2>1, MakeRefers
  <2> QED BY <1>1, <1>2, <2>2 DEF Alive, WholeWhenReferred, Things
<1>6. ThreadOK' /\ BufferOK'
  BY <1>1, <1>2 DEF Alive, ThreadOK, BufferOK, Things, Counted
<1>7. \A t \in Threads : InOrder(todo'[t]) /\ CallsOK(t)' /\ ClosingOK(t)'
  BY <1>1, MakeKeepsCalls
<1> QED BY <1>2, <1>4, <1>5, <1>6, <1>7 DEF Alive

LEMMA CreateForObjectStep ==
  ASSUME OSLAssumption, OSLTypeOK, Alive, CreateForObject PROVE Alive'
<1> DEFINE things == {"shared"}
<1>1. Make(things, {"safe"}, "pointer") /\ UNCHANGED <<detached, wrapped>> /\ "safe" \in holds[main]
      /\ things \in SUBSET Things /\ {"safe"} \in SUBSET (Counted \cup {"shared"})
  BY DEF CreateForObject, Things, Counted
<1>0. Made(things, {"safe"}, "pointer")
  BY <1>1, MakeFacts
<1>2. /\ \A t, n, a : Will(t, n, a)' <=> Will(t, n, a)
      /\ \A o \in Counted : Unrefs(o)' = Unrefs(o) /\ Unrefs(o) \in Nat
      /\ Derefs' = Derefs /\ Derefs \in Nat
      /\ \A x \in Things : Whole(x)' <=> Whole(x) \/ x = "shared"
      /\ ~Whole("shared") /\ refs["shared"] = 0
      /\ \A x \in Counted \cup {"shared"} :
            refs[x] \in Int /\ refs'[x] = IF x = "shared" THEN 1 ELSE refs[x] + (IF x = "safe" THEN 1 ELSE 0)
      /\ made' = made \cup {"shared"} /\ holds'[main] = holds[main] \cup {"pointer"}
      /\ UNCHANGED <<run, buffer>> /\ Pending(worker)' = Pending(worker)
      /\ FreedOnce'
  BY <1>0 DEF Made, Counted, Things
<1>3. Wrapping' <=> Wrapping
  BY <1>1, <1>2 DEF Wrapping
<1>4. RefsCounted'
  <2>1. \A x \in Counted \ {"safe"} : Holders(x)' = Holders(x)
    BY <1>2, <1>3 DEF Holders, Count, Counted, Things
  <2>2. Holders("safe")' = Holders("safe") + 1 /\ Holders("safe") \in Int
    BY <1>2 DEF Holders, Count, Counted, Things
  <2>3. Derefs = 0 /\ ~Whole("runnable")
    BY <1>2 DEF Alive, RefsCounted, Holders, Count, Counted
  <2>4. Holders("shared")' = 1
    BY <1>2, <2>3 DEF Holders, Count, Counted, Things
  <2> QED BY <1>2, <2>1, <2>2, <2>3, <2>4 DEF Alive, RefsCounted, Counted
<1>5. WholeWhenReferred'
  <2>1. Whole("safe")
    BY <1>1, Referred
  <2>2. \A o \in Counted \cup {"shared"} : Whole(o)' <=> refs'[o] # 0
    BY <1>1, <2>1, MakeRefers
  <2> QED BY <1>1, <1>2, <2>2 DEF Alive, WholeWhenReferred, Things
<1>6. ThreadOK' /\ BufferOK'
  BY <1>1, <1>2 DEF Alive, ThreadOK, BufferOK, Things, Counted
<1>7. \A t \in Threads : InOrder(todo'[t]) /\ CallsOK(t)' /\ ClosingOK(t)'
  BY <1>1, MakeKeepsCalls
<1> QED BY <1>2, <1>4, <1>5, <1>6, <1>7 DEF Alive

LEMMA MakeThreadStep ==
  ASSUME OSLAssumption, OSLTypeOK, Alive, MakeThread PROVE Alive'
<1> DEFINE things == {"thread", "runnable", "impl"}
<1>1. Make(things, {"shared"}, "thread") /\ UNCHANGED wrapped /\ "pointer" \in holds[main]
      /\ things \in SUBSET Things /\ {"shared"} \in SUBSET (Counted \cup {"shared"})
      /\ detached' \in BOOLEAN
  BY DEF MakeThread, Things, Counted
<1> HIDE DEF things
<1>0. Made(things, {"shared"}, "thread")
  BY <1>1, MakeFacts
<1>2. /\ \A t, n, a : Will(t, n, a)' <=> Will(t, n, a)
      /\ \A o \in Counted : Unrefs(o)' = Unrefs(o) /\ Unrefs(o) \in Nat
      /\ Derefs' = Derefs /\ Derefs \in Nat
      /\ \A x \in Things : Whole(x)' <=> Whole(x) \/ x \in things
      /\ \A x \in things : ~Whole(x) /\ x \notin made
      /\ \A x \in things \cap (Counted \cup {"shared"}) : refs[x] = 0
      /\ \A x \in Counted \cup {"shared"} :
            refs[x] \in Int /\ refs'[x] = IF x \in things THEN 1 ELSE refs[x] + (IF x = "shared" THEN 1 ELSE 0)
      /\ made' = made \cup things /\ holds'[main] = holds[main] \cup {"thread"}
      /\ UNCHANGED <<run, buffer>> /\ Pending(worker)' = Pending(worker)
      /\ FreedOnce'
  BY <1>0 DEF Made
<1>3. Wrapping' <=> Wrapping
  BY <1>1, <1>2 DEF Wrapping
<1>4. run = "none"
  BY <1>2 DEF Alive, ThreadOK, things
<1>5. RefsCounted'
  <2>1. \A x \in Counted \ {"impl"} : Holders(x)' = Holders(x)
    BY <1>2, <1>3 DEF Holders, Count, Counted, Things, things
  <2>2. Holders("shared")' = Holders("shared") + 1 /\ Holders("shared") \in Int
    BY <1>2 DEF Holders, Count, Counted, Things, things
  <2>3. Unrefs("impl") = 0
    BY <1>2 DEF Alive, RefsCounted, Holders, Count, Counted, things
  <2>4. Holders("impl")' = 1
    BY <1>2, <1>4 DEF Holders, Count
  <2> QED BY <1>2, <2>1, <2>2, <2>3, <2>4 DEF Alive, RefsCounted, Counted, things
<1>6. WholeWhenReferred'
  <2>1. Whole("shared")
    BY <1>1, Referred
  <2>2. \A o \in Counted \cup {"shared"} : Whole(o)' <=> refs'[o] # 0
    BY <1>1, <2>1, MakeRefers
  <2> QED BY <1>1, <1>2, <1>4, <2>2 DEF Alive, WholeWhenReferred, Things, things
<1>7. ThreadOK'
  BY <1>1, <1>2, <1>4 DEF Alive, ThreadOK, things
<1>8. BufferOK'
  BY <1>1, <1>2 DEF Alive, BufferOK, Things, Counted, things
<1>9. \A t \in Threads : InOrder(todo'[t]) /\ CallsOK(t)' /\ ClosingOK(t)'
  BY <1>1, MakeKeepsCalls
<1> QED BY <1>2, <1>5, <1>6, <1>7, <1>8, <1>9 DEF Alive
-----------------------------------------------------------------------------
(* The program lets go of something: the reference it had is now one that  *)
(* is about to be given up.                                                *)
Begun(t, new) ==
  /\ Pending(t) = {} /\ Pending(t)' = new
  /\ \A u \in Threads : InOrder(todo'[u])
  /\ \A n, a : ~Will(t, n, a) /\ (Will(t, n, a)' <=> Op(n, a) \in new)
  /\ \A n : ~WillDo(t, n) /\ (WillDo(t, n)' <=> \E o \in new : o.op = n)
  /\ \A u \in Threads \ {t} : \A n, a : Will(u, n, a)' <=> Will(u, n, a)
  /\ \A u \in Threads \ {t} : Pending(u)' = Pending(u)

LEMMA BeginFacts ==
  ASSUME OSLAssumption, OSLTypeOK, Alive, NEW t \in Threads, todo[t] = << >>,
         NEW ops \in Seq(Ops), InOrder(ops), Begin(t, ops)
  PROVE  Begun(t, Items(ops))
<1>1. Pending(t) = {}
  BY NothingToDo
<1>2. /\ Pending(t)' = Items(ops) /\ todo' \in [Threads -> Seq(Ops)]
      /\ \A u \in Threads : InOrder(todo'[u])
      /\ \A u \in Threads \ {t} : Pending(u)' = Pending(u)
  BY AliveTodo, BeginReplaces DEF TodoOK
<1> QED BY <1>1, <1>2 DEF Begun, Will, WillDo

LEMMA LetGoObjectStep ==
  ASSUME OSLAssumption, OSLTypeOK, Alive, NEW x \in {"sock", "buf", "safe"}, LetGo(x)
  PROVE  Alive'
<1> DEFINE a == Op("unref", x)
<1>1. /\ todo[main] = << >> /\ x \in holds[main] /\ Begin(main, <<a>>) /\ main \in Threads
      /\ holds' = [holds EXCEPT ![main] = @ \ {x}]
      /\ UNCHANGED <<refs, made, freed, run, detached, mutex, wrapped, buffer>>
  BY DEF LetGo, Idle, streamVars, Threads
<1>2. a \in Ops /\ a.op = "unref" /\ a.arg = x
  BY AreOps, OpParts DEF Counted
<1>3. <<a>> \in Seq(Ops) /\ InOrder(<<a>>) /\ Items(<<a>>) = {a}
  BY <1>2, InOrderLists, ItemsOf
<1>4. /\ Pending(main) = {} /\ Pending(main)' = {a}
      /\ \A u \in Threads : InOrder(todo'[u])
      /\ \A n, b : ~Will(main, n, b) /\ (Will(main, n, b)' <=> Op(n, b) \in {a})
      /\ \A n : ~WillDo(main, n) /\ (WillDo(main, n)' <=> \E o \in {a} : o.op = n)
      /\ \A u \in Threads \ {main} : \A n, b : Will(u, n, b)' <=> Will(u, n, b)
      /\ \A u \in Threads \ {main} : Pending(u)' = Pending(u)
  <2> HIDE DEF a
  <2>1. Begun(main, Items(<<a>>))
    BY <1>1, <1>3, BeginFacts
  <2>2. Begun(main, {a})
    BY <1>3, <2>1
  <2> QED BY <2>2 DEF Begun
<1>5. /\ \A n, b : Will(main, n, b)' <=> n = "unref" /\ b = x
      /\ \A n : WillDo(main, n)' <=> n = "unref"
  BY <1>2, <1>4, OpParts
<1>6. holds'[main] = holds[main] \ {x}
  BY <1>1 DEF OSLTypeOK
<1>7. \A u \in Threads : SameFrees(u)
  BY <1>4, <1>5 DEF SameFrees
<1>8. \A y \in Things : (Freeing(y)' <=> Freeing(y)) /\ (Whole(y)' <=> Whole(y))
  BY <1>1, <1>7, WholeSame
<1>9. Wrapping' <=> Wrapping
  BY <1>1, <1>4, <1>5 DEF Wrapping, Threads
<1>10. RefsCounted'
  <2>1. \A y \in Counted \ {x} : Unrefs(y)' = Unrefs(y)
    BY <1>1, <1>4, <1>5, UnrefsChange
  <2>2. Unrefs(x)' = Unrefs(x) + 1 /\ Unrefs(x) \in Nat
    BY <1>1, <1>4, <1>5, UnrefsChange
  <2>3. Derefs' = Derefs
    BY <1>1, <1>4, <1>5, DerefsChange
  <2>4. \A y \in (Counted \cup {"shared"}) \ {x} : Holders(y)' = Holders(y)
    BY <1>1, <1>6, <1>8, <1>9 DEF Holders, Count, Counted, Things
  <2>5. Holders(x)' = Holders(x) - 1 /\ Holders(x) \in Int
    BY <1>1, <1>6, <1>8 DEF Holders, Count, Counted, Things
  <2> QED BY <1>1, <2>1, <2>2, <2>3, <2>4, <2>5 DEF Alive, RefsCounted, Counted
<1>11. WholeWhenReferred'
  BY <1>1, <1>6, <1>8 DEF Alive, WholeWhenReferred, Counted, Things
<1>12. FreedOnce'
  BY <1>1, <1>7, <1>8 DEF Alive, FreedOnce, SameFrees
<1>13. ThreadOK'
  BY <1>1, <1>4, <1>6 DEF Alive, ThreadOK, Threads, OSLAssumption
<1>14. BufferOK'
  BY <1>1, <1>4, <1>5, <1>8 DEF Alive, BufferOK, Things, Counted
<1>15. ASSUME NEW u \in Threads \ {main} PROVE CallsOK(u)' /\ ClosingOK(u)'
  BY <1>1, <1>4, OtherQuiet DEF Threads
<1>16. CallsOK(main)' /\ ClosingOK(main)'
  <2>1. ~Calling(main) /\ ~Calling(main)'
    BY <1>4, <1>5 DEF Calling
  <2> QED BY <1>1, <1>4, <1>5, <2>1 DEF Alive, CallsOK, ClosingOK, StreamOps
<1> QED BY <1>4, <1>10, <1>11, <1>12, <1>13, <1>14, <1>15, <1>16 DEF Alive, Threads

LEMMA LetGoPointerStep ==
  ASSUME OSLAssumption, OSLTypeOK, Alive, LetGo("pointer")
  PROVE  Alive'
<1> DEFINE a == Op("deref", "shared")
<1>1. /\ todo[main] = << >> /\ "pointer" \in holds[main] /\ Begin(main, <<a>>) /\ main \in Threads
      /\ holds' = [holds EXCEPT ![main] = @ \ {"pointer"}]
      /\ UNCHANGED <<refs, made, freed, run, detached, mutex, wrapped, buffer>>
  BY DEF LetGo, Idle, streamVars, Threads
<1>2. a \in Ops /\ a.op = "deref" /\ a.arg = "shared"
  BY AreOps, OpParts
<1>3. <<a>> \in Seq(Ops) /\ InOrder(<<a>>) /\ Items(<<a>>) = {a}
  BY <1>2, InOrderLists, ItemsOf
<1>4. /\ Pending(main) = {} /\ Pending(main)' = {a}
      /\ \A u \in Threads : InOrder(todo'[u])
      /\ \A n, b : ~Will(main, n, b) /\ (Will(main, n, b)' <=> Op(n, b) \in {a})
      /\ \A n : ~WillDo(main, n) /\ (WillDo(main, n)' <=> \E o \in {a} : o.op = n)
      /\ \A u \in Threads \ {main} : \A n, b : Will(u, n, b)' <=> Will(u, n, b)
      /\ \A u \in Threads \ {main} : Pending(u)' = Pending(u)
  <2> HIDE DEF a
  <2>1. Begun(main, Items(<<a>>))
    BY <1>1, <1>3, BeginFacts
  <2>2. Begun(main, {a})
    BY <1>3, <2>1
  <2> QED BY <2>2 DEF Begun
<1>5. /\ \A n, b : Will(main, n, b)' <=> n = "deref" /\ b = "shared"
      /\ \A n : WillDo(main, n)' <=> n = "deref"
  BY <1>2, <1>4, OpParts
<1>6. holds'[main] = holds[main] \ {"pointer"}
  BY <1>1 DEF OSLTypeOK
<1>7. \A u \in Threads : SameFrees(u)
  BY <1>4, <1>5 DEF SameFrees
<1>8. \A y \in Things : (Freeing(y)' <=> Freeing(y)) /\ (Whole(y)' <=> Whole(y))
  BY <1>1, <1>7, WholeSame
<1>9. Wrapping' <=> Wrapping
  BY <1>1, <1>4, <1>5 DEF Wrapping, Threads
<1>10. RefsCounted'
  <2>1. \A y \in Counted : Unrefs(y)' = Unrefs(y)
    BY <1>1, <1>4, <1>5, UnrefsChange
  <2>2. Derefs' = Derefs + 1 /\ Derefs \in Nat
    BY <1>1, <1>4, <1>5, DerefsChange
  <2>3. \A y \in Counted : Holders(y)' = Holders(y)
    BY <1>1, <1>6, <1>8, <1>9 DEF Holders, Count, Counted, Things
  <2>4. Holders("shared")' = Holders("shared") - 1 /\ Holders("shared") \in Int
    BY <1>1, <1>6, <1>8 DEF Holders, Count, Counted, Things
  <2> QED BY <1>1, <2>1, <2>2, <2>3, <2>4 DEF Alive, RefsCounted
<1>11. WholeWhenReferred'
  BY <1>1, <1>6, <1>8 DEF Alive, WholeWhenReferred, Counted, Things
<1>12. FreedOnce'
  BY <1>1, <1>7, <1>8 DEF Alive, FreedOnce, SameFrees
<1>13. ThreadOK'
  BY <1>1, <1>4, <1>6 DEF Alive, ThreadOK, Threads, OSLAssumption
<1>14. BufferOK'
  BY <1>1, <1>4, <1>5, <1>8 DEF Alive, BufferOK, Things, Counted
<1>15. ASSUME NEW u \in Threads \ {main} PROVE CallsOK(u)' /\ ClosingOK(u)'
  BY <1>1, <1>4, OtherQuiet DEF Threads
<1>16. CallsOK(main)' /\ ClosingOK(main)'
  <2>1. ~Calling(main) /\ ~Calling(main)'
    BY <1>4, <1>5 DEF Calling
  <2> QED BY <1>1, <1>4, <1>5, <2>1 DEF Alive, CallsOK, ClosingOK, StreamOps
<1> QED BY <1>4, <1>10, <1>11, <1>12, <1>13, <1>14, <1>15, <1>16 DEF Alive, Threads
-----------------------------------------------------------------------------
(* The thread: what it does last, and what is done when it is deleted.     *)
Listed(s, new) == s \in Seq(Ops) /\ InOrder(s) /\ Items(s) = new

LEMMA ThreadLists ==
  /\ Listed(<< >> \o <<Op("unref", "impl")>>, {Op("unref", "impl")})
  /\ Listed(<<Op("deref", "shared"), Op("free", "runnable")>> \o <<Op("unref", "impl")>>,
            {Op("deref", "shared"), Op("free", "runnable"), Op("unref", "impl")})
  /\ Listed(<< >> \o <<Op("unref", "impl"), Op("free", "thread")>>, {Op("unref", "impl"), Op("free", "thread")})
  /\ Listed(<<Op("deref", "shared"), Op("free", "runnable")>> \o <<Op("unref", "impl"), Op("free", "thread")>>,
            {Op("deref", "shared"), Op("free", "runnable"), Op("unref", "impl"), Op("free", "thread")})
<1> DEFINE d == Op("deref", "shared")
           f == Op("free", "runnable")
           i == Op("unref", "impl")
           g == Op("free", "thread")
<1>1. /\ d \in Ops /\ f \in Ops /\ i \in Ops /\ g \in Ops
      /\ Last(d) = 21 /\ First(f) = 22 /\ Last(f) = 22 /\ First(i) = 23 /\ Last(i) = 24 /\ First(g) = 25
  BY AreOps, Places, LastPlaces DEF Counted, Things
<1> HIDE DEF d, f, i, g
<1>2. /\ Listed(<<i>>, {i}) /\ Listed(<<d, f>>, {d, f}) /\ Listed(<<i, g>>, {i, g})
  BY <1>1, InOrderLists, ItemsOf DEF Listed
<1>3. Listed(<< >> \o <<i>>, {i}) /\ Listed(<< >> \o <<i, g>>, {i, g})
  <2>1. << >> \o <<i>> = <<i>> /\ << >> \o <<i, g>> = <<i, g>>
    OBVIOUS
  <2> QED BY <1>2, <2>1
<1>4. Listed(<<d, f>> \o <<i>>, {d, f, i})
  <2>1. \A x \in Items(<<d, f>>), y \in Items(<<i>>) : Last(x) < First(y)
    BY <1>1, <1>2 DEF Listed
  <2>2. /\ <<d, f>> \o <<i>> \in Seq(Ops) /\ InOrder(<<d, f>> \o <<i>>)
        /\ Items(<<d, f>> \o <<i>>) = Items(<<d, f>>) \cup Items(<<i>>)
    BY <1>2, <2>1, JoinLists DEF Listed
  <2> QED BY <1>2, <2>2 DEF Listed
<1>5. Listed(<<d, f>> \o <<i, g>>, {d, f, i, g})
  <2>1. \A x \in Items(<<d, f>>), y \in Items(<<i, g>>) : Last(x) < First(y)
    BY <1>1, <1>2 DEF Listed
  <2>2. /\ <<d, f>> \o <<i, g>> \in Seq(Ops) /\ InOrder(<<d, f>> \o <<i, g>>)
        /\ Items(<<d, f>> \o <<i, g>>) = Items(<<d, f>>) \cup Items(<<i, g>>)
    BY <1>2, <2>1, JoinLists DEF Listed
  <2> QED BY <1>2, <2>2 DEF Listed
<1> QED BY <1>3, <1>4, <1>5 DEF d, f, i, g

LEMMA BeginListed ==
  ASSUME OSLAssumption, OSLTypeOK, Alive, NEW t \in Threads, todo[t] = << >>,
         NEW ops, NEW new, Listed(ops, new), Begin(t, ops)
  PROVE  Begun(t, new)
  BY BeginFacts DEF Listed

(* A thread that begins to let go of things is in no call.                 *)
LEMMA BegunCalls ==
  ASSUME OSLAssumption, OSLTypeOK, Alive, NEW t \in Threads, NEW new, Begun(t, new),
         \A o \in new : o.op \in {"unref", "deref", "free"},
         UNCHANGED <<mutex, wrapped>>,
         \A u \in Threads \ {t} : IF u = main THEN holds'[main] = holds[main] ELSE run' = run
  PROVE  \A u \in Threads : InOrder(todo'[u]) /\ CallsOK(u)' /\ ClosingOK(u)'
<1>1. \A u \in Threads \ {t} : CallsOK(u)' /\ ClosingOK(u)'
  BY OtherQuiet DEF Begun
<1>2. \A n : WillDo(t, n)' => n \in {"unref", "deref", "free"}
  BY DEF Begun
<1>3. \A n, a : Will(t, n, a)' => n \in {"unref", "deref", "free"}
  BY OpParts DEF Begun
<1>4. ~Calling(t) /\ ~Calling(t)' /\ ~Will(t, "lock", "safe")
  BY <1>3 DEF Calling, Begun
<1>5. CallsOK(t)'
  BY <1>2, <1>3, <1>4 DEF Alive, CallsOK, StreamOps
<1>6. ClosingOK(t)'
  BY <1>2, <1>3, <1>4 DEF ClosingOK
<1> QED BY <1>1, <1>5, <1>6 DEF Begun

(* Nothing is begun: only the state of the thread changes.                 *)
LEMMA SameTodo ==
  ASSUME Alive, UNCHANGED <<todo, made, freed, wrapped>>
  PROVE  /\ \A t : Pending(t)' = Pending(t)
         /\ \A t, n, a : Will(t, n, a)' <=> Will(t, n, a)
         /\ \A t, n : WillDo(t, n)' <=> WillDo(t, n)
         /\ \A x : (Freeing(x)' <=> Freeing(x)) /\ (Whole(x)' <=> Whole(x))
         /\ Wrapping' <=> Wrapping
         /\ (\A o : Unrefs(o)' = Unrefs(o)) /\ Derefs' = Derefs
         /\ FreedOnce'
<1>1. /\ \A t : Pending(t)' = Pending(t)
      /\ \A t, n, a : Will(t, n, a)' <=> Will(t, n, a)
      /\ \A t, n : WillDo(t, n)' <=> WillDo(t, n)
      /\ \A x : (Freeing(x)' <=> Freeing(x)) /\ (Whole(x)' <=> Whole(x))
      /\ Wrapping' <=> Wrapping
  BY DEF Pending, Will, WillDo, Freeing, Whole, Wrapping
<1>2. (\A o : Unrefs(o)' = Unrefs(o)) /\ Derefs' = Derefs
  BY <1>1 DEF Unrefs, Derefs, Count
<1>3. FreedOnce'
  BY <1>1 DEF Alive, FreedOnce
<1> QED BY <1>1, <1>2, <1>3

(* The worker does nothing at the time.                                    *)
LEMMA SameTodoCalls ==
  ASSUME OSLAssumption, Alive, UNCHANGED <<todo, made, freed, wrapped, holds, mutex>>, Pending(worker) = {}
  PROVE  \A t \in Threads : InOrder(todo'[t]) /\ CallsOK(t)' /\ ClosingOK(t)'
<1> SUFFICES ASSUME NEW t \in Threads PROVE InOrder(todo'[t]) /\ CallsOK(t)' /\ ClosingOK(t)'
  OBVIOUS
<1>1. /\ Pending(t)' = Pending(t)
      /\ \A n, a : Will(t, n, a)' <=> Will(t, n, a)
      /\ \A n : WillDo(t, n)' <=> WillDo(t, n)
  BY SameTodo
<1>2. (Calling(t)' <=> Calling(t)) /\ ~Calling(worker)
  BY <1>1 DEF Calling, Will
<1>3. CallsOK(t)'
  BY <1>1, <1>2 DEF Alive, CallsOK, Threads
<1>4. ClosingOK(t)'
  BY <1>1, <1>2 DEF Alive, ClosingOK
<1> QED BY <1>3, <1>4 DEF Alive

LEMMA StartStep ==
  ASSUME OSLAssumption, OSLTypeOK, Alive, Start PROVE Alive'
<1>1. /\ "thread" \in holds[main] /\ run = "none"
      /\ UNCHANGED <<made, freed, holds, todo, detached, mutex, wrapped, buffer>>
      /\ \/ run' = "running" /\ refs' = [refs EXCEPT !["impl"] = @ + 1]
         \/ run' = "failed" /\ UNCHANGED refs
  BY DEF Start, streamVars
<1>2. /\ \A x : Whole(x)' <=> Whole(x)
      /\ Wrapping' <=> Wrapping
      /\ (\A o : Unrefs(o)' = Unrefs(o)) /\ Derefs' = Derefs
      /\ \A t, n, a : Will(t, n, a)' <=> Will(t, n, a)
      /\ Pending(worker)' = Pending(worker) /\ FreedOnce'
  BY <1>1, SameTodo
<1>3. Pending(worker) = {} /\ "thread" \in made
  BY <1>1, Referred DEF Alive, ThreadOK, Whole
<1>4. \A o \in (Counted \cup {"shared"}) \ {"impl"} : Holders(o)' = Holders(o)
  BY <1>1, <1>2 DEF Holders, Count, Counted
<1>5. RefsCounted'
  <2>1. \A o \in (Counted \cup {"shared"}) \ {"impl"} : refs'[o] = refs[o]
    BY <1>1 DEF OSLTypeOK
  <2>2. refs'["impl"] = Holders("impl")' + Unrefs("impl")'
    <3>1. refs["impl"] = Holders("impl") + Unrefs("impl") /\ Unrefs("impl") \in Nat
      BY DEF Alive, RefsCounted, Counted, Unrefs, Count
    <3>2. Holders("impl") = 1 /\ Holders("impl")' = (IF run' = "running" THEN 2 ELSE 1)
      BY <1>1 DEF Holders, Count
    <3> QED BY <1>1, <1>2, <3>1, <3>2 DEF OSLTypeOK, Counted
  <2> QED BY <1>2, <1>4, <2>1, <2>2 DEF Alive, RefsCounted, Counted
<1>6. WholeWhenReferred'
  <2>1. refs["impl"] # 0 /\ refs'["impl"] # 0 /\ Whole("impl")
    <3>1. refs["impl"] = Holders("impl") + Unrefs("impl") /\ Unrefs("impl") \in Nat /\ Holders("impl") = 1
      BY <1>1 DEF Alive, RefsCounted, Counted, Unrefs, Holders, Count
    <3>2. Whole("impl")
      BY <1>1, Referred
    <3> QED BY <1>1, <3>1, <3>2 DEF OSLTypeOK, Counted
  <2>2. \A o \in (Counted \cup {"shared"}) \ {"impl"} : refs'[o] = refs[o]
    BY <1>1 DEF OSLTypeOK
  <2> QED BY <1>1, <1>2, <2>1, <2>2 DEF Alive, WholeWhenReferred
<1>7. ThreadOK' /\ BufferOK'
  BY <1>1, <1>2, <1>3 DEF Alive, ThreadOK, BufferOK
<1>8. \A t \in Threads : InOrder(todo'[t]) /\ CallsOK(t)' /\ ClosingOK(t)'
  BY <1>1, <1>3, SameTodoCalls
<1> QED BY <1>2, <1>5, <1>6, <1>7, <1>8 DEF Alive

(* Exit and Join: the thread is over. *)
LEMMA OverStep ==
  ASSUME OSLAssumption, OSLTypeOK, Alive, Exit \/ Join PROVE Alive'
<1>1. /\ UNCHANGED <<refs, made, freed, holds, todo, detached, mutex, wrapped, buffer>>
      /\ run \in {"leaving", "ended"} /\ run' \in {"ended", "joined"}
      /\ run' # "joined" \/ "thread" \in holds[main]
      /\ run = "leaving" => todo[worker] = << >>
  BY DEF Exit, Join, Idle, objectVars, streamVars
<1>2. /\ \A x : Whole(x)' <=> Whole(x)
      /\ Wrapping' <=> Wrapping
      /\ (\A o : Unrefs(o)' = Unrefs(o)) /\ Derefs' = Derefs
      /\ \A t, n, a : Will(t, n, a)' <=> Will(t, n, a)
      /\ Pending(worker)' = Pending(worker) /\ FreedOnce'
  BY <1>1, SameTodo
<1>3. Pending(worker) = {}
  BY <1>1, NothingToDo DEF Alive, ThreadOK
<1>4. RefsCounted'
  <2>1. \A o \in Counted \cup {"shared"} : Holders(o)' = Holders(o)
    BY <1>1, <1>2 DEF Holders, Count, Counted
  <2> QED BY <1>1, <1>2, <2>1 DEF Alive, RefsCounted
<1>5. WholeWhenReferred'
  BY <1>1, <1>2 DEF Alive, WholeWhenReferred
<1>6. ThreadOK' /\ BufferOK'
  BY <1>1, <1>2, <1>3 DEF Alive, ThreadOK, BufferOK
<1>7. \A t \in Threads : InOrder(todo'[t]) /\ CallsOK(t)' /\ ClosingOK(t)'
  BY <1>1, <1>3, SameTodoCalls
<1> QED BY <1>2, <1>4, <1>5, <1>6, <1>7 DEF Alive
-----------------------------------------------------------------------------
(* A reference to the implementation is given up, and with it the Runnable *)
(* and its pointer when both is true of gone.                              *)
GivesUp(t, gone) ==
  /\ (\A o \in Counted \ {"impl"} : Unrefs(o)' = Unrefs(o)) /\ Unrefs("impl")' = Unrefs("impl") + 1
  /\ Derefs' = Derefs + (IF gone THEN 1 ELSE 0) /\ Unrefs("impl") \in Nat /\ Derefs \in Nat
  /\ Wrapping' <=> Wrapping

LEMMA BegunGivesUp ==
  ASSUME OSLAssumption, OSLTypeOK, Alive, NEW t \in Threads, NEW new, NEW gone \in BOOLEAN, Begun(t, new),
         Op("unref", "impl") \in new, gone <=> Op("deref", "shared") \in new,
         \A o \in new : o \in {Op("deref", "shared"), Op("free", "runnable"), Op("unref", "impl"),
                               Op("free", "thread")},
         wrapped' = wrapped
  PROVE  GivesUp(t, gone)
<1>1. /\ \A o \in Counted \ {"impl"} : ~(Op("unref", o) \in new)
      /\ ~(Op("unwrap", "buf") \in new)
  BY OpParts DEF Counted
<1>2. \A o \in Counted \ {"impl"} : Unrefs(o)' = Unrefs(o)
  BY <1>1, UnrefsChange DEF Begun
<1>3. Unrefs("impl")' = Unrefs("impl") + 1 /\ Unrefs("impl") \in Nat
  BY UnrefsChange DEF Begun
<1>4. Derefs' = Derefs + (IF gone THEN 1 ELSE 0) /\ Derefs \in Nat
  BY DerefsChange DEF Begun
<1>5. \A u \in Threads : Will(u, "unwrap", "buf")' <=> Will(u, "unwrap", "buf")
  BY <1>1 DEF Begun
<1> QED BY <1>2, <1>3, <1>4, <1>5 DEF GivesUp, Wrapping

LEMMA EndRunStep ==
  ASSUME OSLAssumption, OSLTypeOK, Alive, EndRun PROVE Alive'
<1> DEFINE d == Op("deref", "shared")
           f == Op("free", "runnable")
           i == Op("unref", "impl")
           new == IF detached THEN {d, f, i} ELSE {i}
<1>1. /\ todo[worker] = << >> /\ run = "running" /\ run' = "leaving" /\ worker \in Threads
      /\ Begin(worker, (IF detached THEN <<d, f>> ELSE << >>) \o <<i>>)
      /\ UNCHANGED <<refs, made, freed, holds, detached, mutex, wrapped, buffer>>
  BY DEF EndRun, Idle, objectVars, streamVars, Threads
<1>2. Begun(worker, new)
  <2> DEFINE ops == (IF detached THEN <<d, f>> ELSE << >>) \o <<i>>
  <2>1. Listed(ops, new)
    BY ThreadLists
  <2>2. Begin(worker, ops)
    BY <1>1
  <2> HIDE DEF ops, new
  <2> QED BY <1>1, <2>1, <2>2, BeginListed
<1>3. /\ \A o \in new : o \in {d, f, i, Op("free", "thread")} /\ o.op \in {"unref", "deref", "free"}
      /\ i \in new /\ (d \in new <=> detached) /\ (f \in new <=> detached)
      /\ \A x \in Things \ {"runnable"} : Op("free", x) \notin new
  BY OpParts
<1> HIDE DEF new
<1>4. GivesUp(worker, detached)
  <2>1. detached \in BOOLEAN
    BY DEF OSLTypeOK
  <2> HIDE DEF d, f, i
  <2> QED BY <1>1, <1>2, <1>3, <2>1, BegunGivesUp DEF d, f, i
<1>5. Whole("runnable") /\ (detached \/ "thread" \in holds[main])
  BY <1>1, Referred DEF Alive, WholeWhenReferred
<1>6. \A x \in Things : Will(worker, "free", x)' <=> (detached /\ x = "runnable")
  BY <1>2, <1>3 DEF Begun
<1>7. \A x \in Things : (Freeing(x)' <=> Freeing(x) \/ (detached /\ x = "runnable"))
  BY <1>2, <1>6 DEF Freeing, Begun, Threads
<1>8. \A x \in Things : Whole(x)' <=> Whole(x) /\ ~(detached /\ x = "runnable")
  BY <1>1, <1>7 DEF Whole
<1>9. RefsCounted'
  <2>1. \A x \in Counted \ {"impl"} : Holders(x)' = Holders(x)
    BY <1>1, <1>4, <1>8 DEF Holders, Count, Counted, Things, GivesUp
  <2>2. Holders("shared")' = Holders("shared") - (IF detached THEN 1 ELSE 0) /\ Holders("shared") \in Int
    BY <1>1, <1>5, <1>8 DEF Holders, Count, Things
  <2>3. Holders("impl")' = Holders("impl") - 1 /\ Holders("impl") \in Int
    BY <1>1 DEF Holders, Count
  <2>4. /\ \A x \in Counted : refs[x] = Holders(x) + Unrefs(x)
        /\ refs["shared"] = Holders("shared") + Derefs /\ refs' = refs
    BY <1>1 DEF Alive, RefsCounted
  <2>5. \A x \in Counted : refs'[x] = Holders(x)' + Unrefs(x)'
    BY <1>4, <2>1, <2>3, <2>4 DEF GivesUp, Counted
  <2>6. refs'["shared"] = Holders("shared")' + Derefs'
    BY <1>4, <2>2, <2>4 DEF GivesUp
  <2> QED BY <2>5, <2>6 DEF RefsCounted
<1>10. WholeWhenReferred'
  BY <1>1, <1>5, <1>8 DEF Alive, WholeWhenReferred, Counted, Things
<1>11. FreedOnce'
  <2>1. \A u \in Threads : ~Will(u, "free", "runnable")
    BY <1>5 DEF Whole, Freeing
  <2>2. \A u \in Threads \ {worker} : \A x : Will(u, "free", x)' <=> Will(u, "free", x)
    BY <1>2 DEF Begun
  <2>3. \A x : ~Will(worker, "free", x)
    BY <1>2 DEF Begun
  <2> QED BY <1>1, <1>5, <1>6, <1>7, <2>1, <2>2, <2>3 DEF Alive, FreedOnce, Whole, Threads
<1>12. ThreadOK'
  BY <1>1, <1>5 DEF Alive, ThreadOK
<1>13. BufferOK'
  <2>1. \A u \in Threads : /\ Will(u, "free", "buf") => Will(u, "free", "buf")'
                           /\ Will(u, "bufclose", "buf") => Will(u, "bufclose", "buf")'
                           /\ Will(u, "unwrap", "buf") => Will(u, "unwrap", "buf")'
    BY <1>2 DEF Begun
  <2> QED BY <1>1, <1>8, <2>1 DEF Alive, BufferOK, Things, Counted
<1>14. \A u \in Threads : InOrder(todo'[u]) /\ CallsOK(u)' /\ ClosingOK(u)'
  BY <1>1, <1>2, <1>3, BegunCalls DEF Threads
<1> QED BY <1>9, <1>10, <1>11, <1>12, <1>13, <1>14 DEF Alive

LEMMA DeleteThreadStep ==
  ASSUME OSLAssumption, OSLTypeOK, Alive, DeleteThread PROVE Alive'
<1> DEFINE d == Op("deref", "shared")
           f == Op("free", "runnable")
           i == Op("unref", "impl")
           g == Op("free", "thread")
           new == IF detached THEN {i, g} ELSE {d, f, i, g}
<1>1. /\ todo[main] = << >> /\ "thread" \in holds[main] /\ main \in Threads
      /\ detached \/ run \in {"none", "failed", "joined"}
      /\ holds' = [holds EXCEPT ![main] = @ \ {"thread"}]
      /\ Begin(main, (IF detached THEN << >> ELSE <<d, f>>) \o <<i, g>>)
      /\ UNCHANGED <<refs, made, freed, run, detached, mutex, wrapped, buffer>>
  BY DEF DeleteThread, Idle, streamVars, Threads
<1>2. Begun(main, new)
  <2> DEFINE ops == (IF detached THEN << >> ELSE <<d, f>>) \o <<i, g>>
  <2>1. Listed(ops, new)
    BY ThreadLists
  <2>2. Begin(main, ops)
    BY <1>1
  <2> HIDE DEF ops, new
  <2> QED BY <1>1, <2>1, <2>2, BeginListed
<1>3. /\ \A o \in new : o \in {d, f, i, g} /\ o.op \in {"unref", "deref", "free"}
      /\ i \in new /\ g \in new /\ (d \in new <=> ~detached) /\ (f \in new <=> ~detached)
      /\ \A x \in Things \ {"runnable", "thread"} : Op("free", x) \notin new
  BY OpParts
<1> HIDE DEF new
<1>4. GivesUp(main, ~detached)
  <2>1. (~detached) \in BOOLEAN
    BY DEF OSLTypeOK
  <2> HIDE DEF d, f, i, g
  <2> QED BY <1>1, <1>2, <1>3, <2>1, BegunGivesUp DEF d, f, i, g
<1>5. Whole("thread") /\ (~detached => Whole("runnable")) /\ holds'[main] = holds[main] \ {"thread"}
  <2>1. Whole("thread") /\ "runnable" \in made
    BY <1>1, Referred DEF Alive, ThreadOK, Whole
  <2> QED BY <1>1, <2>1 DEF Alive, WholeWhenReferred, OSLTypeOK
<1>6. \A x \in Things : Will(main, "free", x)' <=> x = "thread" \/ (~detached /\ x = "runnable")
  BY <1>2, <1>3 DEF Begun
<1>7. \A x \in Things : Freeing(x)' <=> Freeing(x) \/ x = "thread" \/ (~detached /\ x = "runnable")
  BY <1>2, <1>6 DEF Freeing, Begun, Threads
<1>8. \A x \in Things : Whole(x)' <=> Whole(x) /\ x # "thread" /\ ~(~detached /\ x = "runnable")
  BY <1>1, <1>7 DEF Whole
<1>9. RefsCounted'
  <2>1. \A x \in Counted \ {"impl"} : Holders(x)' = Holders(x)
    BY <1>1, <1>4, <1>5, <1>8 DEF Holders, Count, Counted, Things, GivesUp
  <2>2. Holders("shared")' = Holders("shared") - (IF ~detached THEN 1 ELSE 0) /\ Holders("shared") \in Int
    BY <1>1, <1>5, <1>8 DEF Holders, Count, Things
  <2>3. Holders("impl")' = Holders("impl") - 1 /\ Holders("impl") \in Int
    BY <1>1, <1>5 DEF Holders, Count
  <2>4. /\ \A x \in Counted : refs[x] = Holders(x) + Unrefs(x)
        /\ refs["shared"] = Holders("shared") + Derefs /\ refs' = refs
    BY <1>1 DEF Alive, RefsCounted
  <2>5. \A x \in Counted : refs'[x] = Holders(x)' + Unrefs(x)'
    BY <1>4, <2>1, <2>3, <2>4 DEF GivesUp, Counted
  <2>6. refs'["shared"] = Holders("shared")' + Derefs'
    BY <1>4, <2>2, <2>4 DEF GivesUp
  <2> QED BY <2>5, <2>6 DEF RefsCounted
<1>10. WholeWhenReferred'
  BY <1>1, <1>5, <1>8 DEF Alive, WholeWhenReferred, Counted, Things
<1>11. FreedOnce'
  <2>1. \A u \in Threads : ~Will(u, "free", "thread") /\ (~detached => ~Will(u, "free", "runnable"))
    BY <1>5 DEF Whole, Freeing
  <2>2. \A u \in Threads \ {main} : \A x : Will(u, "free", x)' <=> Will(u, "free", x)
    BY <1>2 DEF Begun
  <2>3. \A x : ~Will(main, "free", x)
    BY <1>2 DEF Begun
  <2> QED BY <1>1, <1>5, <1>6, <1>7, <2>1, <2>2, <2>3 DEF Alive, FreedOnce, Whole, Threads
<1>12. ThreadOK'
  BY <1>1, <1>2, <1>5 DEF Alive, ThreadOK, Begun, Threads, OSLAssumption
<1>13. BufferOK'
  <2>1. \A u \in Threads : /\ Will(u, "free", "buf") => Will(u, "free", "buf")'
                           /\ Will(u, "bufclose", "buf") => Will(u, "bufclose", "buf")'
                           /\ Will(u, "unwrap", "buf") => Will(u, "unwrap", "buf")'
    BY <1>2 DEF Begun
  <2> QED BY <1>1, <1>8, <2>1 DEF Alive, BufferOK, Things, Counted
<1>14. \A u \in Threads : InOrder(todo'[u]) /\ CallsOK(u)' /\ ClosingOK(u)'
  BY <1>1, <1>2, <1>3, BegunCalls DEF Threads
<1> QED BY <1>9, <1>10, <1>11, <1>12, <1>13, <1>14 DEF Alive

(* A call of the thread-safe stream.                                       *)
LEMMA CallStep ==
  ASSUME OSLAssumption, OSLTypeOK, Alive, NEW t \in Threads, NEW op \in Ops, Call(t, op),
         op.op \in {"bufwrite", "bufflush", "bufclose"}
  PROVE  Alive'
<1> DEFINE l == Op("lock", "safe")
           u == Op("unlock", "safe")
           new == {l, op, u}
<1>1. /\ todo[t] = << >> /\ Begin(t, <<l, op, u>>)
      /\ UNCHANGED <<refs, made, freed, holds, run, detached, mutex, wrapped, buffer>>
      /\ IF t = main THEN {"safe", "pointer"} \cap holds[main] # {} ELSE run = "running"
  BY DEF Call, CanUse, Idle, objectVars, streamVars, Threads
<1>2. Formed(op) /\ op = Op(op.op, op.arg) /\ op \in CallOps /\ Last(op) < 26 /\ First(op) > 1
  <2>1. Formed(op) /\ op = Op(op.op, op.arg)
    BY OpForms DEF Formed
  <2>2. op \in {Op("bufflush", "buf"), Op("bufclose", "buf")} \/ (op = Op("bufwrite", op.arg) /\ op.arg \in Nat \ {0})
    BY <2>1 DEF Formed
  <2>3. op \in CallOps
    BY <2>2 DEF CallOps
  <2> QED BY <2>1, <2>2, <2>3, Places, LastPlaces
<1>3. /\ l \in Ops /\ u \in Ops /\ l \in CallOps /\ u \in CallOps /\ l.op = "lock" /\ u.op = "unlock"
      /\ Last(l) = 1 /\ First(u) = 26
  BY AreOps, Places, LastPlaces, OpParts DEF CallOps
<1>4. Begun(t, new)
  <2> HIDE DEF l, u
  <2>1. Last(op) \in Nat /\ First(op) \in Nat
    BY PlacesGrow
  <2>2. <<l, op, u>> \in Seq(Ops) /\ InOrder(<<l, op, u>>) /\ Items(<<l, op, u>>) = {l, op, u}
    BY <1>2, <1>3, <2>1, InOrderLists, ItemsOf
  <2> QED BY <1>1, <2>2, BeginListed DEF Listed
<1>5. /\ \A n : WillDo(t, n)' <=> n \in {"lock", "unlock", op.op}
      /\ \A n, a : Will(t, n, a)' => n \in {"lock", "unlock", op.op}
      /\ Will(t, "lock", "safe")' /\ Calling(t)' /\ ~Calling(t)
  <2>1. \A n : WillDo(t, n)' <=> n \in {"lock", "unlock", op.op}
    BY <1>3, <1>4 DEF Begun
  <2>2. \A n, a : Will(t, n, a)' => n \in {"lock", "unlock", op.op}
    BY <1>3, <1>4, OpParts DEF Begun
  <2> QED BY <1>4, <2>1, <2>2 DEF Begun, Calling
<1>6. \A w \in Threads : SameRefs(w) /\ SameFrees(w) /\ SameWraps(w)
  BY <1>4, <1>5 DEF Begun, SameRefs, SameFrees, SameWraps
<1>7. RefsCounted' /\ WholeWhenReferred' /\ FreedOnce'
  BY <1>1, <1>6, ObjectsQuiet
<1>8. ThreadOK'
  BY <1>1, <1>4 DEF Alive, ThreadOK, Begun, Threads, OSLAssumption
<1>9. BufferOK'
  BY <1>1, <1>6, WholeSame DEF Alive, BufferOK, SameWraps, SameFrees, Things, Counted
<1>10. \A w \in Threads \ {t} : CallsOK(w)' /\ ClosingOK(w)'
  BY <1>1, <1>4, OtherQuiet DEF Begun
<1>11. CallsOK(t)'
  <2>1. Pending(t)' \subseteq CallOps
    BY <1>2, <1>3, <1>4 DEF Begun
  <2>2. mutex # t
    BY <1>4, <1>5 DEF Alive, CallsOK
  <2>3. ~WillDo(t, "send")' /\ ~Will(t, "unwrap", "buf")'
    BY <1>5
  <2> QED BY <1>1, <1>5, <2>1, <2>2, <2>3 DEF CallsOK
<1>12. ClosingOK(t)'
  <2>1. ~WillDo(t, "send")' /\ ~Will(t, "unwrap", "buf")' /\ ~Will(t, "unref", "out")'
        /\ \A s : ~Will(t, "close", s)'
    BY <1>5
  <2> QED BY <2>1 DEF ClosingOK
<1> QED BY <1>4, <1>7, <1>8, <1>9, <1>10, <1>11, <1>12 DEF Alive, Begun
-----------------------------------------------------------------------------
(* What is to be done stays a list of operations.                          *)
SameSends == \A t \in Threads : \A o \in Ops : o.op = "send" => (o \in Pending(t)' <=> o \in Pending(t))

LEMMA ThenTodo ==
  ASSUME todo \in [Threads -> Seq(Ops)], NEW t \in Threads, todo[t] # << >>,
         NEW ops \in Seq(Ops), Then(t, ops)
  PROVE  /\ todo' \in [Threads -> Seq(Ops)]
         /\ Head(todo[t]).op # "send" /\ (\A o \in Items(ops) : o.op # "send") => SameSends
<1> DEFINE s == todo[t]
           r == ops \o Tail(s)
<1>1. s \in Seq(Ops) /\ Len(s) >= 1 /\ Head(s) = s[1] /\ Tail(s) \in Seq(Ops) /\ Len(Tail(s)) = Len(s) - 1
      /\ \A k \in 1..Len(s) - 1 : Tail(s)[k] = s[k + 1]
  OBVIOUS
<1>2. r \in Seq(Ops) /\ todo' = [todo EXCEPT ![t] = r]
  BY <1>1 DEF Then
<1>3. todo' \in [Threads -> Seq(Ops)] /\ todo'[t] = r
  BY <1>2
<1>4. /\ Len(r) = Len(ops) + Len(s) - 1 /\ DOMAIN r = 1..Len(r)
      /\ \A k \in 1..Len(ops) : r[k] = ops[k]
      /\ \A k \in Len(ops) + 1..Len(r) : r[k] = s[k - Len(ops) + 1]
  BY <1>1
<1>5. ASSUME Head(s).op # "send", \A o \in Items(ops) : o.op # "send", NEW o \in Ops, o.op = "send"
      PROVE  o \in Items(r) <=> o \in Items(s)
  <2>1. ASSUME o \in Items(r) PROVE o \in Items(s)
    <3>1. PICK k \in 1..Len(r) : o = r[k]
      BY <1>4, <2>1 DEF Items
    <3>2. k > Len(ops)
      BY <1>4, <1>5, <3>1 DEF Items
    <3>3. o = s[k - Len(ops) + 1] /\ k - Len(ops) + 1 \in DOMAIN s
      BY <1>1, <1>4, <3>1, <3>2
    <3> QED BY <3>3 DEF Items
  <2>2. ASSUME o \in Items(s) PROVE o \in Items(r)
    <3>1. PICK k \in DOMAIN s : o = s[k]
      BY <2>2 DEF Items
    <3>2. k # 1
      BY <1>1, <1>5, <3>1
    <3>3. k - 1 + Len(ops) \in DOMAIN r /\ r[k - 1 + Len(ops)] = s[k]
      BY <1>1, <1>4, <3>1, <3>2
    <3> QED BY <3>1, <3>3 DEF Items
  <2> QED BY <2>1, <2>2
<1>6. Pending(t) = Items(s) /\ Pending(t)' = Items(r)
  BY <1>3 DEF Pending, Items
<1>7. \A u \in Threads \ {t} : Pending(u)' = Pending(u)
  BY <1>2 DEF Pending
<1> HIDE DEF s, r
<1> QED BY <1>3, <1>5, <1>6, <1>7 DEF SameSends, s

LEMMA BeginTodo ==
  ASSUME todo \in [Threads -> Seq(Ops)], NEW t \in Threads, todo[t] = << >>,
         NEW ops \in Seq(Ops), Begin(t, ops)
  PROVE  /\ todo' \in [Threads -> Seq(Ops)]
         /\ (\A o \in Items(ops) : o.op # "send") => SameSends
<1>1. todo' = [todo EXCEPT ![t] = ops]
  BY DEF Begin
<1>2. todo' \in [Threads -> Seq(Ops)] /\ Pending(t)' = Items(ops) /\ Pending(t) = {}
  BY <1>1 DEF Pending, Items
<1>3. \A u \in Threads \ {t} : Pending(u)' = Pending(u)
  BY <1>1 DEF Pending
<1> QED BY <1>2, <1>3 DEF SameSends

(* A throw leaves an unlock, or nothing. *)
LEMMA ThrowTodo ==
  ASSUME todo \in [Threads -> Seq(Ops)], NEW t \in Threads, Throw(t)
  PROVE  /\ todo' \in [Threads -> Seq(Ops)]
         /\ todo'[t] = (IF Has(t, "unlock") THEN <<Op("unlock", "safe")>> ELSE << >>)
         /\ \A u \in Threads \ {t} : todo'[u] = todo[u]
         /\ Pending(t)' \subseteq {Op("unlock", "safe")}
         /\ \A u \in Threads \ {t} : Pending(u)' = Pending(u)
         /\ aborted' \in BOOLEAN
<1> DEFINE r == IF Has(t, "unlock") THEN <<Op("unlock", "safe")>> ELSE << >>
<1>1. r \in Seq(Ops) /\ Items(r) \subseteq {Op("unlock", "safe")}
  <2> DEFINE u == Op("unlock", "safe")
  <2>1. u \in Ops
    BY AreOps
  <2> HIDE DEF u
  <2>2. <<u>> \in Seq(Ops) /\ << >> \in Seq(Ops) /\ Items(<<u>>) = {u} /\ Items(<< >>) = {}
    BY <2>1, ItemsOf
  <2> QED BY <2>2 DEF u
<1>2. todo' = [todo EXCEPT ![t] = r] /\ aborted' \in BOOLEAN
  BY DEF Throw, Has
<1> HIDE DEF r
<1>3. todo' \in [Threads -> Seq(Ops)] /\ todo'[t] = r /\ \A u \in Threads \ {t} : todo'[u] = todo[u]
  BY <1>1, <1>2
<1>4. Pending(t)' = Items(r) /\ \A u \in Threads \ {t} : Pending(u)' = Pending(u)
  BY <1>3 DEF Pending, Items
<1> QED BY <1>1, <1>2, <1>3, <1>4 DEF r

(* What an exception leaves to do is still possible.                       *)
LEMMA ThrowUsed ==
  ASSUME OSLTypeOK, UsedAreAlive, NEW t \in Threads, Throw(t), UNCHANGED <<freed, run>>
  PROVE  UsedAreAlive'
<1>1. /\ todo'[t] = (IF Has(t, "unlock") THEN <<Op("unlock", "safe")>> ELSE << >>)
      /\ \A u \in Threads \ {t} : todo'[u] = todo[u]
  BY ThrowTodo DEF OSLTypeOK
<1>2. Has(t, "unlock") => freed["safe"] = 0
  <2>1. ASSUME Has(t, "unlock") PROVE freed["safe"] = 0
    <3>1. PICK k \in DOMAIN todo[t] : todo[t][k].op = "unlock"
      BY <2>1 DEF Has
    <3>2. "safe" \in Uses(todo[t][k])
      BY <3>1 DEF Uses
    <3> QED BY <3>2 DEF UsedAreAlive
  <2> QED BY <2>1
<1>3. ASSUME NEW k \in DOMAIN todo'[t] PROVE \A x \in Uses(todo'[t][k]) : freed[x] = 0
  <2>1. Has(t, "unlock") /\ todo'[t][k] = Op("unlock", "safe")
    BY <1>1, <1>3
  <2>2. Uses(todo'[t][k]) = {"safe"}
    BY <2>1, OpParts DEF Uses
  <2> QED BY <1>2, <2>1, <2>2
<1>4. ASSUME NEW u \in Threads \ {t}, NEW k \in DOMAIN todo'[u] PROVE \A x \in Uses(todo'[u][k]) : freed[x] = 0
  BY <1>1, <1>4 DEF UsedAreAlive
<1>5. ASSUME NEW u \in Threads, NEW k \in DOMAIN todo'[u] PROVE \A x \in Uses(todo'[u][k]) : freed'[x] = 0
  BY <1>3, <1>4, <1>5
<1> QED BY <1>5 DEF UsedAreAlive, Uses
-----------------------------------------------------------------------------
(* Steps that do not touch the bytes.                                      *)
LEMMA StreamSame ==
  ASSUME OSLTypeOK, todo' \in [Threads -> Seq(Ops)], StreamOK, SameSends,
         UNCHANGED <<buffer, written, sent, stray, lossy>>
  PROVE  StreamOK'
<1>1. \A t \in Threads : \A d \in Seq(Nat) : Will(t, "send", d)' => Will(t, "send", d)
  BY AreOps, OpParts DEF SameSends, Will
<1>2. \A t \in Threads : WillDo(t, "send") => WillDo(t, "send")'
  <2> SUFFICES ASSUME NEW t \in Threads, NEW o \in Pending(t), o.op = "send" PROVE WillDo(t, "send")'
    BY DEF WillDo
  <2>1. o \in Ops
    BY DEF Pending, OSLTypeOK
  <2> QED BY <2>1 DEF SameSends, WillDo
<1>3. \A s : Ordered(s)' <=> Ordered(s)
  BY DEF Ordered
<1> QED BY <1>1, <1>2, <1>3 DEF StreamOK

(* The steps that only begin something, or end it.                         *)
LEMMA StepLists ==
  ASSUME OSLAssumption, OSLTypeOK, NEW t \in Threads, Doing(t, "unref")
  PROVE  /\ Arg(t) \in Counted
         /\ AfterUnref(Arg(t), refs[Arg(t)]) \in Seq(Ops)
         /\ \A o \in Items(AfterUnref(Arg(t), refs[Arg(t)])) : o.op # "send"
<1>1. Arg(t) \in Counted
  <2>1. todo[t] # << >> /\ Head(todo[t]) \in Ops /\ Head(todo[t]).op = "unref"
    BY DEF Doing, OSLTypeOK
  <2> QED BY <2>1, OpForms DEF Formed, Arg
<1>2. CASE refs[Arg(t)] = 1
  <2> DEFINE o == Arg(t)
  <2>1. /\ AfterUnref(o, 1) \in Seq(Ops)
        /\ Items(AfterUnref(o, 1)) = Left(o) \cup {Op("free", o)}
    BY <1>1, DestructorLeaves
  <2>2. \A x \in Left(o) \cup {Op("free", o)} : x.op # "send"
    BY OpParts DEF Left
  <2> QED BY <1>1, <1>2, <2>1, <2>2
<1>3. CASE refs[Arg(t)] # 1
  <2>1. AfterUnref(Arg(t), refs[Arg(t)]) = << >>
    BY <1>3 DEF AfterUnref
  <2> QED BY <1>1, <2>1, ItemsOf
<1> QED BY <1>2, <1>3

Quiet == todo' \in [Threads -> Seq(Ops)] /\ SameSends /\ UNCHANGED <<buffer, written, sent, stray, lossy>>

LEMMA DoingQuiet ==
  ASSUME OSLTypeOK, NEW t \in Threads, NEW n, Doing(t, n), n # "send",
         NEW ops \in Seq(Ops), \A o \in Items(ops) : o.op # "send", Then(t, ops)
  PROVE  todo' \in [Threads -> Seq(Ops)] /\ SameSends
<1>1. todo[t] # << >> /\ Head(todo[t]).op = n
  BY DEF Doing
<1> QED BY <1>1, ThenTodo DEF OSLTypeOK

LEMMA DoingNothing ==
  ASSUME OSLTypeOK, NEW t \in Threads, NEW n, Doing(t, n), n # "send", Then(t, << >>)
  PROVE  todo' \in [Threads -> Seq(Ops)] /\ SameSends
<1>1. << >> \in Seq(Ops) /\ Items(<< >>) = {}
  BY ItemsOf
<1> QED BY <1>1, DoingQuiet

LEMMA UnrefType == ASSUME OSLAssumption, OSLTypeOK, NEW t \in Threads, Unref(t) PROVE OSLTypeOK' /\ Quiet
<1>1. todo' \in [Threads -> Seq(Ops)] /\ SameSends
  BY StepLists, DoingQuiet DEF Unref
<1>2. Arg(t) \in Counted
  BY StepLists DEF Unref
<1>3. refs' \in [Counted \cup {"shared"} -> Int]
  BY <1>2 DEF Unref, OSLTypeOK
<1> QED BY <1>1, <1>3 DEF Unref, OSLTypeOK, Quiet, streamVars

LEMMA DereferenceType == ASSUME OSLAssumption, OSLTypeOK, NEW t \in Threads, Dereference(t) PROVE OSLTypeOK' /\ Quiet
<1> DEFINE ops == IF refs["shared"] = 1 THEN <<Op("unref", "safe"), Op("free", "shared")>> ELSE << >>
<1>1. ops \in Seq(Ops) /\ \A o \in Items(ops) : o.op # "send"
  <2> DEFINE a == Op("unref", "safe")
             b == Op("free", "shared")
  <2>1. a \in Ops /\ b \in Ops /\ a.op # "send" /\ b.op # "send"
    BY AreOps, OpParts DEF Counted, Things
  <2> HIDE DEF a, b
  <2>2. <<a, b>> \in Seq(Ops) /\ Items(<<a, b>>) = {a, b} /\ Items(<< >>) = {} /\ << >> \in Seq(Ops)
    BY <2>1, ItemsOf
  <2> QED BY <2>1, <2>2 DEF a, b
<1>2. Doing(t, "deref") /\ Then(t, ops)
  BY DEF Dereference
<1> HIDE DEF ops
<1>3. todo' \in [Threads -> Seq(Ops)] /\ SameSends
  BY <1>1, <1>2, DoingQuiet
<1>4. refs' \in [Counted \cup {"shared"} -> Int]
  BY DEF Dereference, OSLTypeOK
<1> QED BY <1>3, <1>4 DEF Dereference, OSLTypeOK, Quiet, streamVars

LEMMA FreeType == ASSUME OSLAssumption, OSLTypeOK, NEW t \in Threads, Free(t) PROVE OSLTypeOK' /\ Quiet
<1>1. todo' \in [Threads -> Seq(Ops)] /\ SameSends
  BY DoingNothing DEF Free
<1>2. freed' \in [Things -> Nat]
  <2>1. todo[t] # << >> /\ Head(todo[t]) \in Ops /\ Head(todo[t]).op = "free"
    BY DEF Doing, Free, OSLTypeOK
  <2>2. Arg(t) \in Things
    BY <2>1, OpForms DEF Formed, Arg
  <2> QED BY <2>2 DEF Free, OSLTypeOK
<1> QED BY <1>1, <1>2 DEF Free, OSLTypeOK, Quiet, streamVars

LEMMA LockType ==
  ASSUME OSLAssumption, OSLTypeOK, NEW t \in Threads, Lock(t) \/ Unlock(t) PROVE OSLTypeOK' /\ Quiet
<1>1. todo' \in [Threads -> Seq(Ops)] /\ SameSends
  BY DoingNothing DEF Lock, Unlock
<1>2. mutex' \in Threads \cup {Nobody} /\ UNCHANGED <<platform, objectVars, run, detached, aborted, streamVars>>
  BY DEF Lock, Unlock
<1> QED BY <1>1, <1>2 DEF OSLTypeOK, Quiet, streamVars, objectVars

LEMMA CloseType ==
  ASSUME OSLAssumption, OSLTypeOK, NEW t \in Threads,
         CloseStream(t) \/ CloseDescriptor(t) \/ Unwrap(t)
  PROVE  OSLTypeOK' /\ Quiet
<1>1. todo' \in [Threads -> Seq(Ops)] /\ SameSends
  BY DoingNothing DEF CloseStream, CloseDescriptor, Unwrap
<1>2. closed' \subseteq {"in", "out"} /\ shut' \subseteq {"send", "receive"}
  <2>1. CASE CloseStream(t)
    <3>1. todo[t] # << >> /\ Head(todo[t]) \in Ops /\ Head(todo[t]).op = "close"
      BY <2>1 DEF Doing, CloseStream, OSLTypeOK
    <3>2. Arg(t) \in {"in", "out"}
      BY <3>1, OpForms DEF Formed, Arg
    <3> QED BY <2>1, <3>2 DEF CloseStream, Direction, OSLTypeOK
  <2>2. CASE ~CloseStream(t)
    BY <2>2 DEF CloseDescriptor, Unwrap, OSLTypeOK
  <2> QED BY <2>1, <2>2
<1>3. /\ UNCHANGED <<platform, objectVars, run, detached, aborted, mutex, buffer, maxsize, written, sent, stray,
                      lossy>>
      /\ wrapped' \in BOOLEAN /\ fd' \in {"ours", "nothing", "another"}
  BY DEF CloseStream, CloseDescriptor, Unwrap, OSLTypeOK
<1> QED BY <1>1, <1>2, <1>3 DEF OSLTypeOK, Quiet, objectVars

LEMMA BufferedCloseType ==
  ASSUME OSLAssumption, OSLTypeOK, NEW t \in Threads, BufferedClose(t) PROVE OSLTypeOK' /\ Quiet
<1> DEFINE a == Op("bufflush", "buf")
           b == Op("close", "out")
           c == Op("unref", "out")
           d == Op("unwrap", "buf")
           ops == IF wrapped THEN <<a, b, c, d>> ELSE << >>
<1>1. /\ a \in Ops /\ b \in Ops /\ c \in Ops /\ d \in Ops
      /\ a.op # "send" /\ b.op # "send" /\ c.op # "send" /\ d.op # "send"
  BY AreOps, OpParts DEF Counted
<1>2. Doing(t, "bufclose") /\ Then(t, ops)
  BY DEF BufferedClose
<1> HIDE DEF a, b, c, d
<1>3. ops \in Seq(Ops) /\ \A o \in Items(ops) : o.op # "send"
  <2>1. <<a, b, c, d>> \in Seq(Ops) /\ Items(<<a, b, c, d>>) = {a, b, c, d} /\ Items(<< >>) = {} /\ << >> \in Seq(Ops)
    BY <1>1, ItemsOf
  <2> QED BY <1>1, <2>1
<1> HIDE DEF ops
<1>4. todo' \in [Threads -> Seq(Ops)] /\ SameSends
  BY <1>2, <1>3, DoingQuiet
<1> QED BY <1>4 DEF BufferedClose, OSLTypeOK, Quiet, streamVars, objectVars
-----------------------------------------------------------------------------
(* The program's own steps.                                                *)
LEMMA UnchangedQuiet ==
  ASSUME OSLTypeOK, UNCHANGED todo PROVE todo' \in [Threads -> Seq(Ops)] /\ SameSends
  BY DEF OSLTypeOK, SameSends, Pending

LEMMA BeginQuiet ==
  ASSUME OSLTypeOK, NEW t \in Threads, todo[t] = << >>, NEW ops, NEW new, Listed(ops, new), Begin(t, ops),
         \A o \in new : o.op # "send"
  PROVE  todo' \in [Threads -> Seq(Ops)] /\ SameSends
  BY BeginTodo DEF Listed, OSLTypeOK

MadeType ==
  /\ refs' \in [Counted \cup {"shared"} -> Int] /\ made' \subseteq Things
  /\ holds' \in [Threads -> SUBSET {"sock", "buf", "safe", "pointer", "thread"}]
  /\ todo' \in [Threads -> Seq(Ops)] /\ Quiet
  /\ UNCHANGED <<platform, freed, todo, run, aborted, mutex, buffer, closed, shut, written, sent,
                 stray, lossy>>

LEMMA MakeType ==
  ASSUME OSLAssumption, OSLTypeOK, NEW things \in SUBSET Things, NEW taken,
         NEW kept \in {"sock", "buf", "safe", "pointer", "thread"}, Make(things, taken, kept)
  PROVE  MadeType
<1>1. /\ made' = made \cup things
      /\ refs' = [o \in DOMAIN refs |-> IF o \in things THEN 1 ELSE refs[o] + (IF o \in taken THEN 1 ELSE 0)]
      /\ holds' = [holds EXCEPT ![main] = @ \cup {kept}]
      /\ UNCHANGED <<platform, freed, todo, run, aborted, mutex, buffer, closed, shut, written, sent,
                     stray, lossy>>
  BY DEF Make
<1>2. refs' \in [Counted \cup {"shared"} -> Int]
  BY <1>1 DEF OSLTypeOK
<1>3. holds' \in [Threads -> SUBSET {"sock", "buf", "safe", "pointer", "thread"}]
  BY <1>1 DEF OSLTypeOK
<1>4. todo' \in [Threads -> Seq(Ops)] /\ SameSends
  BY <1>1, UnchangedQuiet
<1> QED BY <1>1, <1>2, <1>3, <1>4 DEF MadeType, OSLTypeOK, Quiet

LEMMA MakersType ==
  ASSUME OSLAssumption, OSLTypeOK, ~aborted => Alive,
         Connect \/ MakeBuffered \/ CreateThreadSafe \/ CreateForObject \/ MakeThread
  PROVE  OSLTypeOK' /\ Quiet
<1>1. CASE Connect
  <2>1. Make({"sock", "in", "out"}, {}, "sock") /\ {"sock", "in", "out"} \in SUBSET Things
    BY <1>1 DEF Connect, Things, Counted
  <2>2. MadeType
    BY <2>1, MakeType
  <2>3. fd' \in {"ours", "nothing", "another"} /\ UNCHANGED <<detached, wrapped, maxsize>>
    BY <1>1 DEF Connect
  <2> QED BY <2>2, <2>3 DEF MadeType, OSLTypeOK
<1>2. CASE MakeBuffered
  <2>1. Make({"buf"}, {"out"}, "buf") /\ {"buf"} \in SUBSET Things
    BY <1>2 DEF MakeBuffered, Things, Counted
  <2>2. buffer = << >> /\ maxsize' \in Nat /\ Len(buffer) = 0
    <3>1. "buf" \notin made /\ ~aborted
      BY <2>1 DEF Make, Idle
    <3> QED BY <1>2, <3>1 DEF Alive, BufferOK, MakeBuffered, OSLAssumption
  <2>3. MadeType
    BY <2>1, MakeType
  <2>4. UNCHANGED <<detached, fd>> /\ wrapped' = TRUE
    BY <1>2 DEF MakeBuffered
  <2>5. Len(buffer') <= maxsize'
    BY <2>2, <2>3 DEF MadeType
  <2> QED BY <2>2, <2>3, <2>4, <2>5 DEF MadeType, OSLTypeOK
<1>3. CASE CreateThreadSafe
  <2>1. Make({"safe"}, {"buf"}, "safe") /\ {"safe"} \in SUBSET Things
    BY <1>3 DEF CreateThreadSafe, Things, Counted
  <2>2. MadeType
    BY <2>1, MakeType
  <2>3. UNCHANGED <<detached, wrapped, maxsize, fd>>
    BY <1>3 DEF CreateThreadSafe
  <2> QED BY <2>2, <2>3 DEF MadeType, OSLTypeOK
<1>4. CASE CreateForObject
  <2>1. Make({"shared"}, {"safe"}, "pointer") /\ {"shared"} \in SUBSET Things
    BY <1>4 DEF CreateForObject, Things
  <2>2. MadeType
    BY <2>1, MakeType
  <2>3. UNCHANGED <<detached, wrapped, maxsize, fd>>
    BY <1>4 DEF CreateForObject
  <2> QED BY <2>2, <2>3 DEF MadeType, OSLTypeOK
<1>5. CASE MakeThread
  <2>1. Make({"thread", "runnable", "impl"}, {"shared"}, "thread") /\ {"thread", "runnable", "impl"} \in SUBSET Things
    BY <1>5 DEF MakeThread, Things, Counted
  <2>2. MadeType
    BY <2>1, MakeType
  <2>3. detached' \in BOOLEAN /\ UNCHANGED <<wrapped, maxsize, fd>>
    BY <1>5 DEF MakeThread
  <2> QED BY <2>2, <2>3 DEF MadeType, OSLTypeOK
<1> QED BY <1>1, <1>2, <1>3, <1>4, <1>5

LEMMA ThreadType ==
  ASSUME OSLAssumption, OSLTypeOK, Start \/ Exit \/ Join \/ ReuseDescriptor
  PROVE  OSLTypeOK' /\ Quiet
<1>1. todo' \in [Threads -> Seq(Ops)] /\ SameSends
  BY UnchangedQuiet DEF Start, Exit, Join, ReuseDescriptor
<1>2. refs' \in [Counted \cup {"shared"} -> Int]
  BY DEF Start, Exit, Join, ReuseDescriptor, OSLTypeOK, objectVars
<1>3. CASE Start
  BY <1>1, <1>2, <1>3 DEF Start, OSLTypeOK, Quiet, streamVars
<1>4. CASE Exit \/ Join
  BY <1>1, <1>2, <1>4 DEF Exit, Join, OSLTypeOK, Quiet, streamVars, objectVars
<1>5. CASE ReuseDescriptor
  BY <1>1, <1>2, <1>5 DEF ReuseDescriptor, OSLTypeOK, Quiet, objectVars
<1> QED BY <1>3, <1>4, <1>5

LEMMA EndRunType == ASSUME OSLAssumption, OSLTypeOK, EndRun PROVE OSLTypeOK' /\ Quiet
<1> DEFINE d == Op("deref", "shared")
           f == Op("free", "runnable")
           i == Op("unref", "impl")
           new == IF detached THEN {d, f, i} ELSE {i}
           ops == (IF detached THEN <<d, f>> ELSE << >>) \o <<i>>
<1>1. todo[worker] = << >> /\ Begin(worker, ops) /\ worker \in Threads
  BY DEF EndRun, Idle, Threads
<1>2. Listed(ops, new)
  BY ThreadLists
<1>3. \A o \in new : o.op # "send"
  BY OpParts
<1> HIDE DEF ops, new
<1>4. todo' \in [Threads -> Seq(Ops)] /\ SameSends
  BY <1>1, <1>2, <1>3, BeginQuiet
<1> QED BY <1>4 DEF EndRun, OSLTypeOK, Quiet, streamVars, objectVars

LEMMA DeleteThreadType == ASSUME OSLAssumption, OSLTypeOK, DeleteThread PROVE OSLTypeOK' /\ Quiet
<1> DEFINE d == Op("deref", "shared")
           f == Op("free", "runnable")
           i == Op("unref", "impl")
           g == Op("free", "thread")
           new == IF detached THEN {i, g} ELSE {d, f, i, g}
           ops == (IF detached THEN << >> ELSE <<d, f>>) \o <<i, g>>
<1>1. todo[main] = << >> /\ Begin(main, ops) /\ main \in Threads
  BY DEF DeleteThread, Idle, Threads
<1>2. Listed(ops, new)
  BY ThreadLists
<1>3. \A o \in new : o.op # "send"
  BY OpParts
<1> HIDE DEF ops, new
<1>4. todo' \in [Threads -> Seq(Ops)] /\ SameSends
  BY <1>1, <1>2, <1>3, BeginQuiet
<1>5. holds' \in [Threads -> SUBSET {"sock", "buf", "safe", "pointer", "thread"}]
  BY DEF DeleteThread, OSLTypeOK
<1> QED BY <1>4, <1>5 DEF DeleteThread, OSLTypeOK, Quiet, streamVars

LEMMA LetGoType ==
  ASSUME OSLAssumption, OSLTypeOK, NEW x \in {"sock", "buf", "safe", "pointer"}, LetGo(x)
  PROVE  OSLTypeOK' /\ Quiet
<1> DEFINE a == IF x = "pointer" THEN Op("deref", "shared") ELSE Op("unref", x)
<1>1. todo[main] = << >> /\ Begin(main, <<a>>) /\ main \in Threads
  BY DEF LetGo, Idle, Threads
<1>2. a \in Ops /\ a.op # "send"
  BY AreOps, OpParts DEF Counted
<1> HIDE DEF a
<1>3. Listed(<<a>>, {a})
  BY <1>2, InOrderLists, ItemsOf DEF Listed
<1>4. todo' \in [Threads -> Seq(Ops)] /\ SameSends
  BY <1>1, <1>2, <1>3, BeginQuiet
<1>5. holds' \in [Threads -> SUBSET {"sock", "buf", "safe", "pointer", "thread"}]
  BY DEF LetGo, OSLTypeOK
<1> QED BY <1>4, <1>5 DEF LetGo, OSLTypeOK, Quiet, streamVars

LEMMA CallOpsOf ==
  ASSUME NEW t \in Threads,
         (\E n \in 1..MaxBytes : Write(t, n)) \/ Flush(t) \/ CloseOut(t)
  PROVE  \E op \in Ops : Call(t, op) /\ op.op \in {"bufwrite", "bufflush", "bufclose"}
<1>1. ASSUME NEW n \in 1..MaxBytes, Write(t, n)
      PROVE  \E op \in Ops : Call(t, op) /\ op.op \in {"bufwrite", "bufflush", "bufclose"}
  <2>1. Op("bufwrite", n) \in Ops
    BY AreOps
  <2> QED BY <1>1, <2>1, OpParts DEF Write
<1>2. CASE Flush(t)
  BY <1>2, AreOps, OpParts DEF Flush
<1>3. CASE CloseOut(t)
  BY <1>3, AreOps, OpParts DEF CloseOut
<1> QED BY <1>1, <1>2, <1>3

LEMMA CallType ==
  ASSUME OSLAssumption, OSLTypeOK, NEW t \in Threads, NEW op \in Ops, Call(t, op),
         op.op \in {"bufwrite", "bufflush", "bufclose"}
  PROVE  OSLTypeOK' /\ Quiet
<1> DEFINE l == Op("lock", "safe")
           u == Op("unlock", "safe")
<1>1. todo[t] = << >> /\ Begin(t, <<l, op, u>>)
  BY DEF Call, CanUse, Idle
<1>2. l \in Ops /\ u \in Ops /\ l.op # "send" /\ u.op # "send"
  BY AreOps, OpParts
<1> HIDE DEF l, u
<1>3. <<l, op, u>> \in Seq(Ops) /\ Items(<<l, op, u>>) = {l, op, u}
  BY <1>2, ItemsOf
<1>4. \A o \in Items(<<l, op, u>>) : o.op # "send"
  BY <1>2, <1>3
<1>5. todo' \in [Threads -> Seq(Ops)] /\ SameSends
  BY <1>1, <1>3, <1>4, BeginTodo DEF OSLTypeOK
<1> QED BY <1>5 DEF Call, OSLTypeOK, Quiet, streamVars, objectVars
-----------------------------------------------------------------------------
(* The bytes.                                                              *)
Rising(s, n) ==
  /\ \A k \in DOMAIN s : s[k] \in 1..n
  /\ \A j, k \in DOMAIN s : j < k => s[j] < s[k]

LEMMA RisingPart ==
  ASSUME NEW s \in Seq(Nat), NEW d \in Seq(Nat), NEW e \in Seq(Nat), NEW b \in Seq(Nat), NEW n \in Nat,
         Rising(s \o d \o b, n), Len(e) <= Len(d), \A k \in 1..Len(e) : e[k] = d[k]
  PROVE  Rising(s \o e \o b, n)
<1> DEFINE p == s \o d \o b
           q == s \o e \o b
           Old(k) == IF k <= Len(s) + Len(e) THEN k ELSE k - Len(e) + Len(d)
<1>1. /\ Len(s) \in Nat /\ Len(d) \in Nat /\ Len(e) \in Nat /\ Len(b) \in Nat
      /\ DOMAIN p = 1..Len(s) + Len(d) + Len(b) /\ DOMAIN q = 1..Len(s) + Len(e) + Len(b)
  OBVIOUS
<1>2. ASSUME NEW k \in DOMAIN q PROVE Old(k) \in DOMAIN p /\ q[k] = p[Old(k)]
  <2>1. CASE k <= Len(s)
    BY <1>1, <2>1
  <2>2. CASE k > Len(s) /\ k <= Len(s) + Len(e)
    <3>1. q[k] = e[k - Len(s)] /\ p[k] = d[k - Len(s)] /\ k - Len(s) \in 1..Len(e)
      BY <1>1, <2>2
    <3> QED BY <1>1, <2>2, <3>1
  <2>3. CASE k > Len(s) + Len(e)
    <3>1. q[k] = b[k - Len(s) - Len(e)] /\ k - Len(e) + Len(d) \in DOMAIN p
      <4>1. k \in Len(s) + Len(e) + 1..Len(s) + Len(e) + Len(b) /\ k \in DOMAIN q
        BY <1>1, <2>3
      <4>2. q[k] = b[k - (Len(s \o e))] /\ Len(s \o e) = Len(s) + Len(e)
        BY <1>1, <4>1
      <4>3. k - Len(e) + Len(d) \in DOMAIN p
        BY <1>1, <4>1
      <4>4. k - (Len(s) + Len(e)) = k - Len(s) - Len(e)
        BY <1>1, <4>1
      <4> HIDE DEF p, q, Old
      <4> QED BY <4>2, <4>3, <4>4
    <3>2. p[k - Len(e) + Len(d)] = b[k - Len(s) - Len(e)]
      <4>1. k \in Len(s) + Len(e) + 1..Len(s) + Len(e) + Len(b)
        BY <1>1, <2>3
      <4>2. /\ Len(s \o d) = Len(s) + Len(d)
            /\ \A i \in Len(s) + Len(d) + 1..Len(s) + Len(d) + Len(b) : p[i] = b[i - Len(s \o d)]
        OBVIOUS
      <4>3. /\ k - Len(e) + Len(d) \in Len(s) + Len(d) + 1..Len(s) + Len(d) + Len(b)
            /\ k - Len(e) + Len(d) - (Len(s) + Len(d)) = k - Len(s) - Len(e)
        BY <1>1, <4>1
      <4> DEFINE i == k - Len(e) + Len(d)
      <4>4. i \in Len(s) + Len(d) + 1..Len(s) + Len(d) + Len(b) /\ i - Len(s \o d) = k - Len(s) - Len(e)
        <5>1. i \in Len(s) + Len(d) + 1..Len(s) + Len(d) + Len(b) /\ i - (Len(s) + Len(d)) = k - Len(s) - Len(e)
          BY <4>3
        <5> HIDE DEF i
        <5> QED BY <4>2, <5>1
      <4> HIDE DEF p, q, Old, i
      <4>5. p[i] = b[i - Len(s \o d)]
        BY <4>2, <4>4
      <4>6. p[i] = b[k - Len(s) - Len(e)]
        BY <4>4, <4>5
      <4> QED BY <4>6 DEF i
    <3>3. Old(k) = k - Len(e) + Len(d)
      BY <1>1, <2>3
    <3> HIDE DEF p, q, Old
    <3> QED BY <3>1, <3>2, <3>3
  <2>4. k \in Nat
    BY <1>1
  <2> HIDE DEF p, q, Old
  <2> QED BY <1>1, <2>1, <2>2, <2>3, <2>4
<1>3. ASSUME NEW j \in DOMAIN q, NEW k \in DOMAIN q, j < k PROVE Old(j) < Old(k)
  BY <1>1, <1>3
<1> HIDE DEF p, q, Old
<1>4. \A k \in DOMAIN q : q[k] \in 1..n
  BY <1>2 DEF Rising, p
<1>5. \A j, k \in DOMAIN q : j < k => q[j] < q[k]
  BY <1>2, <1>3 DEF Rising, p
<1> QED BY <1>4, <1>5 DEF Rising, q

LEMMA RisingPrefix ==
  ASSUME NEW s \in Seq(Nat), NEW b \in Seq(Nat), NEW n \in Nat, Rising(s \o b, n)
  PROVE  Rising(s, n)
<1> DEFINE p == s \o b
<1>1. /\ DOMAIN s \subseteq DOMAIN p /\ \A k \in DOMAIN s : p[k] = s[k]
  OBVIOUS
<1> HIDE DEF p
<1> QED BY <1>1 DEF Rising, p

LEMMA JoinedBytes ==
  ASSUME NEW s \in Seq(Nat), NEW a \in Seq(Nat), NEW b \in Seq(Nat)
  PROVE  /\ s \o a \in Seq(Nat) /\ Len(s \o a) = Len(s) + Len(a) /\ s \o a \o b \in Seq(Nat)
         /\ s \o (a \o b) = (s \o a) \o b /\ s \o << >> = s
<1>1. s \o a \in Seq(Nat) /\ Len(s \o a) = Len(s) + Len(a)
  OBVIOUS
<1>2. (s \o a) \o b \in Seq(Nat)
  BY <1>1
<1>3. s \o (a \o b) = (s \o a) \o b
  BY ConcatAssociative
<1> QED BY <1>1, <1>2, <1>3

(* The next bytes written are taken behind the others.                     *)
LEMMA Appended ==
  ASSUME NEW s \in Seq(Nat), NEW w \in Nat, NEW n \in Nat, Rising(s, w),
         NEW a \in Seq(Nat), Len(a) = n, \A k \in 1..n : a[k] = w + k
  PROVE  /\ Rising(s \o a, w + n)
         /\ s = [k \in 1..w |-> k] => s \o a = [k \in 1..w + n |-> k]
<1> DEFINE r == s \o a
<1>1. /\ DOMAIN r = 1..Len(s) + n /\ Len(s) \in Nat /\ DOMAIN s = 1..Len(s) /\ Len(r) = Len(s) + n /\ r \in Seq(Nat)
      /\ \A k \in 1..Len(s) : r[k] = s[k]
  OBVIOUS
<1>0. ASSUME NEW k \in Len(s) + 1..Len(s) + n PROVE r[k] = a[k - Len(s)] /\ k - Len(s) \in 1..n
  <2>1. k - Len(s) \in 1..n /\ Len(s) \in Nat
    OBVIOUS
  <2> QED BY <2>1
<1> HIDE DEF r
<1>2. ASSUME NEW k \in DOMAIN r
      PROVE  /\ k \in Nat
             /\ k <= Len(s) => k \in DOMAIN s /\ r[k] = s[k] /\ r[k] \in 1..w
             /\ k > Len(s) => k - Len(s) \in 1..n /\ r[k] = w + (k - Len(s))
  <2>1. CASE k <= Len(s)
    BY <1>1, <2>1 DEF Rising
  <2>2. CASE k > Len(s)
    <3>1. k \in Len(s) + 1..Len(s) + n
      BY <1>1, <2>2
    <3>2. r[k] = a[k - Len(s)] /\ k - Len(s) \in 1..n
      BY <1>0, <3>1
    <3> QED BY <1>1, <2>2, <3>2
  <2>3. k \in Nat
    BY <1>1
  <2> QED BY <1>1, <2>1, <2>2, <2>3
<1>3. ASSUME NEW k \in DOMAIN r PROVE r[k] \in 1..w + n
  <2>1. CASE k <= Len(s)
    BY <1>2, <2>1
  <2>2. CASE k > Len(s)
    <3>1. k - Len(s) \in 1..n /\ r[k] = w + (k - Len(s))
      BY <1>2, <2>2
    <3> QED BY <3>1
  <2> QED BY <1>1, <1>2, <2>1, <2>2
<1>4. ASSUME NEW j \in DOMAIN r, NEW k \in DOMAIN r, j < k PROVE r[j] < r[k]
  <2>1. CASE k <= Len(s)
    <3>1. j \in DOMAIN s /\ k \in DOMAIN s /\ r[j] = s[j] /\ r[k] = s[k]
      BY <1>1, <1>2, <1>4, <2>1
    <3> QED BY <1>4, <3>1 DEF Rising
  <2>2. CASE j > Len(s)
    <3>1. r[j] = w + (j - Len(s)) /\ r[k] = w + (k - Len(s)) /\ j \in Nat /\ k \in Nat
      <4>1. j \in Nat /\ k \in Nat /\ k > Len(s)
        BY <1>1, <1>2, <1>4, <2>2
      <4> QED BY <1>2, <2>2, <4>1
    <3> QED BY <1>1, <1>4, <3>1
  <2>3. CASE j <= Len(s) /\ k > Len(s)
    <3>1. r[j] \in 1..w /\ r[k] = w + (k - Len(s)) /\ k - Len(s) \in 1..n
      BY <1>2, <2>3
    <3> QED BY <3>1
  <2>4. j \in Nat /\ k \in Nat /\ Len(s) \in Nat
    BY <1>1, <1>2
  <2> HIDE DEF r
  <2> QED BY <1>4, <2>1, <2>2, <2>3, <2>4
<1>5. ASSUME s = [k \in 1..w |-> k] PROVE r = [k \in 1..w + n |-> k]
  <2>1. Len(s) = w /\ \A k \in 1..w : s[k] = k
    BY <1>5
  <2>2. \A k \in 1..w + n : r[k] = k
    <3> SUFFICES ASSUME NEW k \in 1..w + n PROVE r[k] = k
      OBVIOUS
    <3>1. CASE k <= Len(s)
      BY <1>1, <1>2, <2>1, <3>1
    <3>2. CASE k > Len(s)
      <4>1. r[k] = w + (k - Len(s)) /\ k \in Nat
        BY <1>1, <1>2, <2>1, <3>2
      <4> QED BY <2>1, <4>1
    <3> QED BY <1>1, <3>1, <3>2
  <2> QED BY <1>1, <2>1, <2>2
<1> QED BY <1>3, <1>4, <1>5 DEF Rising, r

LEMMA OrderedIs ==
  /\ \A s : Ordered(s) <=> Rising(s, written) /\ (~lossy /\ ~stray => s = [k \in 1..written |-> k])
  /\ \A s : Ordered(s)' <=> Rising(s, written') /\ (~lossy' /\ ~stray' => s = [k \in 1..written' |-> k])
  BY DEF Ordered, Rising
-----------------------------------------------------------------------------
(* The three steps with the bytes.                                         *)
LEMMA NoSends ==
  ASSUME OSLAssumption, OSLTypeOK, Alive, NEW t \in Threads, todo[t] # << >>,
         Head(todo[t]).op \in {"bufwrite", "bufflush"}
  PROVE  \A u \in Threads : ~WillDo(u, "send")
<1> DEFINE h == Head(todo[t])
<1>1. h \in Ops /\ Formed(h) /\ Last(h) >= 8 /\ Last(h) \in Nat
  <2>1. h \in Ops /\ Formed(h)
    BY AliveTodo, HeadFirst, OpForms
  <2>2. h = Op("bufflush", "buf") \/ h = Op("bufwrite", h.arg)
    BY <2>1 DEF Formed
  <2> QED BY <2>1, <2>2, LastPlaces
<1>2. \A u \in Threads \ {t} : ~WillDo(u, "send")
  BY OneWorks DEF StreamOps
<1>3. ASSUME NEW o \in Pending(t), o.op = "send" PROVE FALSE
  <2>1. o \in Ops /\ Formed(o) /\ o = Op("send", o.arg) /\ o # h
    BY <1>3, AliveTodo, HeadFirst, OpForms DEF Formed
  <2>2. Last(h) < First(o) /\ First(o) = 8
    BY <1>3, <2>1, AliveTodo, HeadFirst, Places
  <2> QED BY <1>1, <2>2
<1> QED BY <1>2, <1>3 DEF WillDo

(* A throw before anything is sent. *)
LEMMA ThrowStream ==
  ASSUME OSLAssumption, OSLTypeOK, NEW t \in Threads, Throw(t),
         \A u \in Threads : ~WillDo(u, "send"), StreamOK,
         UNCHANGED <<buffer, written, sent, stray, lossy>>
  PROVE  StreamOK'
<1>1. /\ todo' \in [Threads -> Seq(Ops)]
      /\ Pending(t)' \subseteq {Op("unlock", "safe")}
      /\ \A u \in Threads \ {t} : Pending(u)' = Pending(u)
  BY ThrowTodo DEF OSLTypeOK
<1>2. \A u \in Threads : \A d : ~Will(u, "send", d)'
  <2>1. \A d : ~Will(t, "send", d)'
    BY <1>1, OpParts DEF Will
  <2>2. \A u \in Threads \ {t} : \A d : ~Will(u, "send", d)'
    BY <1>1, OpParts DEF Will, WillDo
  <2> QED BY <2>1, <2>2
<1>3. \A s : Ordered(s)' <=> Ordered(s)
  BY DEF Ordered
<1> QED BY <1>2, <1>3 DEF StreamOK

LEMMA BufferedWriteStream ==
  ASSUME OSLAssumption, OSLTypeOK, Alive, StreamOK, NEW t \in Threads, BufferedWrite(t)
  PROVE  OSLTypeOK' /\ StreamOK'
<1> DEFINE n == IF Arg(t) > maxsize - Len(buffer) THEN maxsize - Len(buffer) ELSE Arg(t)
<1>1. /\ todo[t] # << >> /\ Head(todo[t]).op = "bufwrite" /\ Arg(t) \in Nat \ {0}
  BY DoingHead DEF BufferedWrite, Formed
<1>2. \A u \in Threads : ~WillDo(u, "send")
  BY <1>1, NoSends
<1>3. CASE ~wrapped
  <2>1. Throw(t) /\ UNCHANGED <<buffer, written, sent, stray, lossy>>
    BY <1>3 DEF BufferedWrite
  <2>2. todo' \in [Threads -> Seq(Ops)] /\ aborted' \in BOOLEAN
    BY <2>1, ThrowTodo DEF OSLTypeOK
  <2>3. OSLTypeOK'
    BY <2>1, <2>2 DEF BufferedWrite, OSLTypeOK, objectVars
  <2> QED BY <1>2, <2>1, <2>3, ThrowStream
<1>4. CASE wrapped
  <2> DEFINE a == Op("bufflush", "buf")
             b == Op("bufwrite", Arg(t) - n)
             ops == (IF Len(buffer) + n = maxsize THEN <<a>> ELSE << >>) \o (IF n < Arg(t) THEN <<b>> ELSE << >>)
             new == [k \in 1..n |-> written + k]
  <2>1. /\ buffer' = buffer \o new /\ written' = written + n /\ Then(t, ops)
        /\ UNCHANGED <<aborted, sent, stray, lossy>>
    BY <1>4 DEF BufferedWrite
  <2>2. /\ n \in Nat /\ Len(buffer) + n <= maxsize /\ (n < Arg(t) => Arg(t) - n \in Nat \ {0})
        /\ buffer \in Seq(Nat) /\ sent \in Seq(Nat) /\ written \in Nat /\ maxsize \in Nat
    BY <1>1 DEF OSLTypeOK
  <2> HIDE DEF n
  <2>3. /\ a \in Ops /\ a.op # "send" /\ (n < Arg(t) => b \in Ops) /\ b.op # "send"
    BY <2>2, AreOps, OpParts
  <2> HIDE DEF a, b
  <2>4. ops \in Seq(Ops) /\ \A o \in Items(ops) : o.op # "send"
    BY <2>3 DEF Items
  <2>5. todo' \in [Threads -> Seq(Ops)] /\ SameSends
    <3> HIDE DEF ops
    <3> QED BY <1>1, <2>1, <2>4, ThenTodo DEF OSLTypeOK
  <2>6. new \in Seq(Nat) /\ Len(new) = n
    BY <2>2
  <2>7. /\ buffer \o new \in Seq(Nat) /\ Len(buffer \o new) = Len(buffer) + n
        /\ sent \o (buffer \o new) = (sent \o buffer) \o new /\ sent \o buffer \in Seq(Nat)
    <3> HIDE DEF new, ops
    <3>1. buffer \in Seq(Nat) /\ sent \in Seq(Nat) /\ new \in Seq(Nat)
      BY <2>2, <2>6
    <3>2. buffer \o new \in Seq(Nat) /\ Len(buffer \o new) = Len(buffer) + Len(new)
      BY ONLY <3>1, JoinedBytes
    <3>3. sent \o (buffer \o new) = (sent \o buffer) \o new /\ sent \o buffer \in Seq(Nat)
      BY ONLY <3>1, JoinedBytes
    <3> QED BY <2>6, <3>2, <3>3
  <2>8. OSLTypeOK'
    <3>1. buffer' \in Seq(Nat) /\ Len(buffer') <= maxsize' /\ written' \in Nat
      <4>1. maxsize' = maxsize
        BY DEF BufferedWrite
      <4> HIDE DEF new, ops
      <4> QED BY <2>1, <2>2, <2>7, <4>1
    <3> HIDE DEF new, ops
    <3> QED BY <2>1, <2>5, <3>1 DEF BufferedWrite, OSLTypeOK, objectVars
  <2>9. Ordered(sent \o buffer)
    BY <1>2 DEF StreamOK
  <2>10. Ordered(sent \o buffer)'
    <3> DEFINE s == sent \o buffer
    <3>1. Rising(s, written) /\ (~lossy /\ ~stray => s = [k \in 1..written |-> k]) /\ s \in Seq(Nat)
      BY <2>7, <2>9, OrderedIs
    <3> HIDE DEF s
    <3>2. /\ Rising(s \o new, written + n)
          /\ s = [k \in 1..written |-> k] => s \o new = [k \in 1..written + n |-> k]
      <4>1. \A k \in 1..n : new[k] = written + k
        OBVIOUS
      <4> HIDE DEF new
      <4> QED BY <2>2, <2>6, <3>1, <4>1, Appended
    <3>3. sent' \o buffer' = s \o new
      <4> HIDE DEF new
      <4> QED BY <2>1, <2>7 DEF s
    <3> HIDE DEF new
    <3> QED BY <2>1, <3>1, <3>2, <3>3 DEF Ordered, Rising
  <2>11. \A u \in Threads : \A d \in Seq(Nat) : ~Will(u, "send", d)'
    BY <1>2, <2>5, AreOps, OpParts DEF SameSends, Will, WillDo
  <2> QED BY <2>8, <2>10, <2>11 DEF StreamOK
<1> QED BY <1>3, <1>4

LEMMA BufferedFlushStream ==
  ASSUME OSLAssumption, OSLTypeOK, Alive, StreamOK, NEW t \in Threads, BufferedFlush(t)
  PROVE  OSLTypeOK' /\ StreamOK'
<1>1. todo[t] # << >> /\ Head(todo[t]).op = "bufflush"
  BY DoingHead DEF BufferedFlush
<1>2. \A u \in Threads : ~WillDo(u, "send")
  BY <1>1, NoSends
<1>3. Ordered(sent \o buffer)
  BY <1>2 DEF StreamOK
<1>4. CASE ~wrapped
  <2>1. Throw(t) /\ UNCHANGED <<buffer, written, sent, stray, lossy>>
    BY <1>4 DEF BufferedFlush
  <2>2. todo' \in [Threads -> Seq(Ops)] /\ aborted' \in BOOLEAN
    BY <2>1, ThrowTodo DEF OSLTypeOK
  <2>3. OSLTypeOK'
    BY <2>1, <2>2 DEF BufferedFlush, OSLTypeOK, objectVars
  <2> QED BY <1>2, <2>1, <2>3, ThrowStream
<1>5. CASE wrapped
  <2> DEFINE a == Op("send", buffer)
             ops == IF buffer = << >> THEN << >> ELSE <<a>>
  <2>1. /\ buffer' = << >> /\ Then(t, ops) /\ UNCHANGED <<aborted, written, sent, stray, lossy, maxsize>>
    BY <1>5 DEF BufferedFlush
  <2>2. a \in Ops /\ a.op = "send" /\ a.arg = buffer /\ Last(a) = 8
    BY AreOps, OpParts, LastPlaces DEF OSLTypeOK
  <2>3. Last(Head(todo[t])) = 8
    <3>1. Head(todo[t]) = Op("bufflush", "buf")
      BY DoingHead DEF BufferedFlush, Formed
    <3> QED BY <3>1, LastPlaces
  <2> HIDE DEF a
  <2>4. /\ ops \in Seq(Ops) /\ InOrder(ops)
        /\ Items(ops) = (IF buffer = << >> THEN {} ELSE {a})
    <3>1. /\ <<a>> \in Seq(Ops) /\ InOrder(<<a>>) /\ Items(<<a>>) = {a}
          /\ << >> \in Seq(Ops) /\ InOrder(<< >>) /\ Items(<< >>) = {}
      BY <2>2, InOrderLists, ItemsOf
    <3> QED BY <3>1
  <2> HIDE DEF ops
  <2>5. Replaces(t, Items(ops))
    <3>1. \A o \in Items(ops) : Last(o) <= Last(Head(todo[t]))
      BY <2>2, <2>3, <2>4
    <3> QED BY <1>1, <2>1, <2>4, <3>1, AliveTodo, ThenReplaces
  <2>6. OSLTypeOK'
    <3>1. todo' \in [Threads -> Seq(Ops)]
      BY <2>5 DEF Replaces
    <3>2. buffer' \in Seq(Nat) /\ Len(buffer') <= maxsize'
      BY <2>1 DEF OSLTypeOK
    <3> QED BY <2>1, <3>1, <3>2 DEF BufferedFlush, OSLTypeOK, objectVars
  <2>7. \A u \in Threads : \A d : Will(u, "send", d)' => d = buffer /\ buffer # << >>
    <3>1. \A u \in Threads : \A o \in Pending(u)' : o \in Pending(u) \/ o \in Items(ops)
      BY <2>5 DEF Replaces
    <3>2. \A u \in Threads : \A d : Will(u, "send", d)' => Op("send", d) \in Items(ops)
      BY <1>2, <3>1, OpParts DEF Will, WillDo
    <3> QED BY <2>2, <2>4, <3>2, OpParts
  <2>8. buffer # << >> => WillDo(t, "send")'
    BY <2>2, <2>4, <2>5 DEF Replaces, WillDo
  <2>9. sent \o buffer \in Seq(Nat) /\ sent \in Seq(Nat) /\ buffer \in Seq(Nat)
        /\ (sent \o buffer) \o << >> = sent \o buffer /\ sent \o << >> = sent
    <3>1. sent \in Seq(Nat) /\ buffer \in Seq(Nat)
      BY DEF OSLTypeOK
    <3> QED BY <3>1, JoinedBytes
  <2>10. ASSUME NEW u \in Threads, NEW d \in Seq(Nat), Will(u, "send", d)'
         PROVE  Ordered(sent \o d \o buffer)'
    <3>1. d = buffer
      BY <2>7, <2>10
    <3>2. sent' \o d \o buffer' = sent \o buffer
      BY <2>1, <2>9, <3>1
    <3> QED BY <1>3, <2>1, <3>2 DEF Ordered
  <2>11. ASSUME \A u \in Threads : ~WillDo(u, "send")' PROVE Ordered(sent \o buffer)'
    <3>1. buffer = << >>
      BY <2>8, <2>11
    <3>2. sent' \o buffer' = sent \o buffer
      BY <2>1, <3>1
    <3> QED BY <1>3, <2>1, <3>2 DEF Ordered
  <2> QED BY <2>6, <2>10, <2>11 DEF StreamOK
<1> QED BY <1>4, <1>5

LEMMA SendStream ==
  ASSUME OSLAssumption, OSLTypeOK, Alive, StreamOK, NEW t \in Threads, Send(t)
  PROVE  OSLTypeOK' /\ StreamOK'
<1> DEFINE data == Arg(t)
<1>1. /\ todo[t] # << >> /\ Head(todo[t]).op = "send" /\ data \in Seq(Nat) /\ Will(t, "send", data)
  BY DoingHead DEF Send, Formed
<1>2. \A u \in Threads \ {t} : ~WillDo(u, "send")
  BY <1>1, OneWorks DEF StreamOps
<1>3. Ordered(sent \o data \o buffer)
  BY <1>1 DEF StreamOK
<1>4. /\ sent \in Seq(Nat) /\ buffer \in Seq(Nat) /\ written \in Nat /\ UNCHANGED <<buffer, written>>
  BY DEF OSLTypeOK, Send
<1> HIDE DEF data
<1>5. CASE Throw(t) \/ Then(t, << >>)
  <2>1. todo' \in [Threads -> Seq(Ops)] /\ \A u \in Threads : ~WillDo(u, "send")'
    <3>1. CASE Throw(t)
      <4>1. /\ todo' \in [Threads -> Seq(Ops)]
            /\ Pending(t)' \subseteq {Op("unlock", "safe")}
            /\ \A u \in Threads \ {t} : Pending(u)' = Pending(u)
        BY <3>1, ThrowTodo DEF OSLTypeOK
      <4> QED BY <1>2, <4>1, OpParts DEF WillDo
    <3>2. CASE Then(t, << >>)
      <4>1. Replaces(t, {})
        BY <1>1, <3>2, ThenNothing
      <4>2. ~WillDo(t, "send")'
        BY <1>1, <4>1, SingleDone DEF Single, StreamOps
      <4> QED BY <1>2, <4>1, <4>2 DEF Replaces, WillDo
    <3> QED BY <1>5, <3>1, <3>2
  <2>2. \A u \in Threads : \A d : ~Will(u, "send", d)'
    BY <2>1, OpParts DEF Will, WillDo
  <2>3. ASSUME Ordered(sent \o buffer)', sent' \in Seq(Nat), stray' \in BOOLEAN, lossy' \in BOOLEAN,
               aborted' \in BOOLEAN
        PROVE  OSLTypeOK' /\ StreamOK'
    <3>1. OSLTypeOK'
      BY <1>4, <2>1, <2>3 DEF Send, OSLTypeOK, objectVars
    <3> QED BY <2>2, <2>3, <3>1 DEF StreamOK
  <2>4. Rising(sent \o data \o buffer, written)
        /\ (~lossy /\ ~stray => sent \o data \o buffer = [k \in 1..written |-> k])
    BY <1>3, OrderedIs
  <2>5. Rising(sent \o buffer, written)
    <3> DEFINE e == << >>
    <3>1. /\ e \in Seq(Nat) /\ Len(e) = 0 /\ Len(data) \in Nat /\ sent \o e = sent
      BY <1>1, <1>4
    <3> HIDE DEF e
    <3>2. Len(e) <= Len(data) /\ \A k \in 1..Len(e) : e[k] = data[k]
      BY <3>1
    <3>3. Rising(sent \o data \o buffer, written)
      BY <2>4
    <3>4. Rising(sent \o e \o buffer, written)
      BY <1>1, <1>4, <3>1, <3>2, <3>3, RisingPart
    <3> QED BY <3>1, <3>4
  <2>6. CASE lossy' = TRUE /\ Throw(t) /\ UNCHANGED <<sent, stray>>
    <3>1. Ordered(sent \o buffer)'
      BY <1>4, <2>5, <2>6 DEF Ordered, Rising
    <3>2. aborted' \in BOOLEAN
      BY <2>6, ThrowTodo DEF OSLTypeOK
    <3> QED BY <1>4, <2>3, <2>6, <3>1, <3>2 DEF OSLTypeOK
  <2>7. CASE stray' = TRUE /\ UNCHANGED <<sent, lossy, aborted>>
    <3>1. Ordered(sent \o buffer)'
      BY <1>4, <2>5, <2>7 DEF Ordered, Rising
    <3> QED BY <1>4, <2>3, <2>7, <3>1 DEF OSLTypeOK
  <2>8. ASSUME NEW n \in 1..Len(data), sent' = sent \o SubSeq(data, 1, n), lossy' = (lossy \/ n < Len(data)),
               UNCHANGED <<stray, aborted>>
        PROVE  OSLTypeOK' /\ StreamOK'
    <3> DEFINE e == SubSeq(data, 1, n)
    <3>1. /\ e \in Seq(Nat) /\ Len(e) = n /\ n <= Len(data) /\ Len(data) \in Nat
          /\ \A k \in 1..n : e[k] = data[k]
          /\ n = Len(data) => e = data
      BY <1>1
    <3> HIDE DEF e
    <3>2. Rising(sent \o e \o buffer, written)
      BY <1>1, <1>4, <2>4, <3>1, RisingPart
    <3>3. sent' = sent \o e /\ sent' \in Seq(Nat)
      BY <1>4, <2>8, <3>1 DEF e
    <3>4. ASSUME ~lossy' PROVE ~lossy /\ e = data
      <4>1. ~lossy /\ ~(n < Len(data))
        BY <2>8, <3>4
      <4> QED BY <3>1, <4>1
    <3>5. Ordered(sent \o buffer)'
      BY <1>4, <2>4, <2>8, <3>2, <3>3, <3>4 DEF Ordered, Rising
    <3> QED BY <2>3, <2>8, <3>3, <3>5 DEF OSLTypeOK
  <2> QED BY <2>6, <2>7, <2>8 DEF Send, data
<1> QED BY <1>5 DEF Send
-----------------------------------------------------------------------------
(* The theorems.                                                           *)
LEMMA InitInv == ASSUME OSLAssumption, Init PROVE OSLInv
<1>1. /\ platform \in Platforms /\ refs = [o \in Counted \cup {"shared"} |-> 0]
      /\ made = {} /\ freed = [x \in Things |-> 0] /\ holds = [t \in Threads |-> {}]
      /\ todo = [t \in Threads |-> << >>]
      /\ run = "none" /\ detached = FALSE /\ aborted = FALSE /\ mutex = Nobody
      /\ buffer = << >> /\ wrapped = FALSE /\ maxsize = 0 /\ closed = {}
      /\ fd = "nothing" /\ shut = {}
      /\ written = 0 /\ sent = << >> /\ stray = FALSE /\ lossy = FALSE
  BY DEF Init
<1>2. /\ \A t \in Threads : Pending(t) = {} /\ todo[t] = << >>
      /\ \A t \in Threads : \A n, a : ~Will(t, n, a)
      /\ \A t \in Threads : \A n : ~WillDo(t, n)
  BY <1>1 DEF Pending, Will, WillDo
<1>3. \A x : ~Whole(x) /\ ~Freeing(x)
  BY <1>1, <1>2 DEF Whole, Freeing
<1>4. OSLTypeOK
  <2>1. refs \in [Counted \cup {"shared"} -> Int] /\ freed \in [Things -> Nat]
    BY <1>1
  <2>2. holds \in [Threads -> SUBSET {"sock", "buf", "safe", "pointer", "thread"}]
    BY <1>1
  <2>3. todo \in [Threads -> Seq(Ops)]
    BY <1>1
  <2>4. buffer \in Seq(Nat) /\ sent \in Seq(Nat) /\ Len(buffer) <= maxsize
    BY <1>1
  <2> QED BY <1>1, <2>1, <2>2, <2>3, <2>4 DEF OSLTypeOK
<1>5. StreamOK
  BY <1>1, <1>2 DEF StreamOK, Ordered
<1>6. RefsCounted
  BY <1>1, <1>2, <1>3 DEF RefsCounted, Holders, Unrefs, Derefs, Count, Wrapping, Counted, Threads
<1>7. WholeWhenReferred
  BY <1>1, <1>3 DEF WholeWhenReferred, Threads
<1>8. FreedOnce
  BY <1>1, <1>2, <1>3 DEF FreedOnce
<1>9. ThreadOK /\ BufferOK
  BY <1>1, <1>2 DEF ThreadOK, BufferOK, Threads
<1>10. \A t \in Threads : InOrder(todo[t]) /\ CallsOK(t) /\ ClosingOK(t)
  BY <1>1, <1>2, InOrderLists DEF CallsOK, ClosingOK, Calling, OSLAssumption, Threads
<1> QED BY <1>1, <1>4, <1>5, <1>6, <1>7, <1>8, <1>9, <1>10 DEF OSLInv, Alive

(* Everything stops after a violation of throw().                          *)
LEMMA AbortedStays == ASSUME aborted, [Next]_vars PROVE UNCHANGED vars
<1>1. \A t : ~Idle(t) /\ \A n : ~Doing(t, n)
  BY DEF Idle, Doing
<1>2. \A t : ~Step(t)
  BY <1>1 DEF Step, Unref, Dereference, Free, Lock, Unlock, BufferedWrite, BufferedFlush, BufferedClose,
              Unwrap, CloseStream, Send, CloseDescriptor
<1>3. \A t, op : ~Call(t, op)
  BY <1>1 DEF Call, CanUse
<1>4. \A things, taken, kept : ~Make(things, taken, kept)
  BY <1>1 DEF Make
<1>5. /\ ~Connect /\ ~MakeBuffered /\ ~CreateThreadSafe /\ ~CreateForObject /\ ~MakeThread
      /\ ~Start /\ ~EndRun /\ ~Exit /\ ~Join /\ ~DeleteThread /\ ~ReuseDescriptor
      /\ \A x : ~LetGo(x)
  BY <1>1, <1>4 DEF Connect, MakeBuffered, CreateThreadSafe, CreateForObject, MakeThread, Start, EndRun,
                    Exit, Join, DeleteThread, ReuseDescriptor, LetGo
<1> QED BY <1>2, <1>3, <1>5 DEF Next, Write, Flush, CloseOut, Finished

LEMMA SameInv == ASSUME OSLInv, UNCHANGED vars PROVE OSLInv'
<1>1. UNCHANGED <<platform, refs, made, freed, holds, todo, run, detached, aborted, mutex, buffer, wrapped,
                  maxsize, closed, fd, shut, written, sent, stray, lossy>>
  BY DEF vars, objectVars, streamVars
<1>2. OSLTypeOK'
  BY <1>1 DEF OSLInv, OSLTypeOK
<1>3. StreamOK'
  <2>1. todo' \in [Threads -> Seq(Ops)] /\ SameSends
    BY <1>1, UnchangedQuiet DEF OSLInv
  <2> QED BY <1>1, <2>1, StreamSame DEF OSLInv
<1>4. UsedAreAlive => UsedAreAlive'
  BY <1>1 DEF UsedAreAlive
<1>5. Alive => Alive'
  BY <1>1, AliveSame
<1> QED BY <1>1, <1>2, <1>3, <1>4, <1>5 DEF OSLInv

(* A step of the stream may be the last of the program.                    *)
LEMMA StreamStepInv ==
  ASSUME OSLAssumption, OSLTypeOK, Alive, StreamOK, ~aborted, NEW t \in Threads,
         BufferedWrite(t) \/ BufferedFlush(t) \/ Send(t)
  PROVE  OSLInv'
<1>1. OSLTypeOK' /\ StreamOK'
  BY BufferedWriteStream, BufferedFlushStream, SendStream
<1>2. aborted' \/ Alive'
  BY BufferedWriteStep, BufferedFlushStep, SendStep
<1>3. aborted' => UsedAreAlive'
  <2>1. aborted' => Throw(t)
    BY DEF BufferedWrite, BufferedFlush, Send
  <2>2. UNCHANGED <<freed, run>>
    BY DEF BufferedWrite, BufferedFlush, Send, objectVars
  <2> QED BY <2>1, <2>2, AliveUsed, ThrowUsed
<1> QED BY <1>1, <1>2, <1>3 DEF OSLInv

LEMMA QuietInv ==
  ASSUME OSLTypeOK, StreamOK, Quiet, OSLTypeOK', Alive', aborted' = aborted, ~aborted PROVE OSLInv'
  BY StreamSame DEF OSLInv, Quiet

LEMMA StepInv ==
  ASSUME OSLAssumption, OSLTypeOK, Alive, StreamOK, ~aborted, NEW t \in Threads, Step(t)
  PROVE  OSLInv'
<1>1. CASE Unref(t)
  <2>1. aborted' = aborted
    BY <1>1 DEF Unref
  <2> QED BY <1>1, <2>1, UnrefStep, UnrefType, QuietInv
<1>2. CASE Dereference(t)
  <2>1. aborted' = aborted
    BY <1>2 DEF Dereference
  <2> QED BY <1>2, <2>1, DereferenceStepNotLast, DereferenceStepLast, DereferenceType, QuietInv
<1>3. CASE Free(t)
  <2>1. aborted' = aborted
    BY <1>3 DEF Free
  <2>2. Arg(t) \in Things
    BY <1>3, DoingHead DEF Free, Formed
  <2> QED BY <1>3, <2>1, <2>2, FreeStep, FreeType, QuietInv
<1>4. CASE Lock(t) \/ Unlock(t)
  <2>1. aborted' = aborted
    BY <1>4 DEF Lock, Unlock
  <2> QED BY <1>4, <2>1, LockStep, UnlockStep, LockType, QuietInv
<1>5. CASE BufferedClose(t)
  <2>1. aborted' = aborted
    BY <1>5 DEF BufferedClose
  <2> QED BY <1>5, <2>1, BufferedCloseStepClosed, BufferedCloseStepOpen, BufferedCloseType, QuietInv
<1>6. CASE CloseStream(t) \/ CloseDescriptor(t) \/ Unwrap(t)
  <2>1. aborted' = aborted
    BY <1>6 DEF CloseStream, CloseDescriptor, Unwrap
  <2> QED BY <1>6, <2>1, CloseStreamStep, CloseDescriptorStep, UnwrapStep, CloseType, QuietInv
<1>7. CASE BufferedWrite(t) \/ BufferedFlush(t) \/ Send(t)
  BY <1>7, StreamStepInv
<1> QED BY <1>1, <1>2, <1>3, <1>4, <1>5, <1>6, <1>7 DEF Step

LEMMA ProgramInv ==
  ASSUME OSLAssumption, OSLTypeOK, Alive, StreamOK, ~aborted,
         \/ Connect \/ MakeBuffered \/ CreateThreadSafe \/ CreateForObject \/ MakeThread
         \/ Start \/ EndRun \/ Exit \/ Join \/ DeleteThread \/ ReuseDescriptor
         \/ \E x \in {"sock", "buf", "safe", "pointer"} : LetGo(x)
  PROVE  OSLInv'
<1>1. CASE Connect \/ MakeBuffered \/ CreateThreadSafe \/ CreateForObject \/ MakeThread
  <2>1. aborted' = aborted
    BY <1>1 DEF Connect, MakeBuffered, CreateThreadSafe, CreateForObject, MakeThread, Make
  <2>2. Alive'
    BY <1>1, ConnectStep, MakeBufferedStep, CreateThreadSafeStep, CreateForObjectStep, MakeThreadStep
  <2> QED BY <1>1, <2>1, <2>2, MakersType, QuietInv
<1>2. CASE Start \/ Exit \/ Join \/ ReuseDescriptor
  <2>1. aborted' = aborted
    BY <1>2 DEF Start, Exit, Join, ReuseDescriptor
  <2>2. CASE ReuseDescriptor
    <3>1. UNCHANGED <<refs, made, freed, holds, todo, run, detached, mutex, wrapped, buffer>>
      BY <2>2 DEF ReuseDescriptor, objectVars
    <3> QED BY <1>2, <2>1, <3>1, AliveSame, ThreadType, QuietInv
  <2> QED BY <1>2, <2>1, <2>2, StartStep, OverStep, ThreadType, QuietInv
<1>3. CASE EndRun
  <2>1. aborted' = aborted
    BY <1>3 DEF EndRun
  <2> QED BY <1>3, <2>1, EndRunStep, EndRunType, QuietInv
<1>4. CASE DeleteThread
  <2>1. aborted' = aborted
    BY <1>4 DEF DeleteThread
  <2> QED BY <1>4, <2>1, DeleteThreadStep, DeleteThreadType, QuietInv
<1>5. ASSUME NEW x \in {"sock", "buf", "safe", "pointer"}, LetGo(x) PROVE OSLInv'
  <2>1. aborted' = aborted
    BY <1>5 DEF LetGo
  <2> QED BY <1>5, <2>1, LetGoObjectStep, LetGoPointerStep, LetGoType, QuietInv
<1> QED BY <1>1, <1>2, <1>3, <1>4, <1>5

LEMMA NextInv == ASSUME OSLAssumption, OSLInv, [Next]_vars PROVE OSLInv'
<1>1. CASE UNCHANGED vars
  BY <1>1, SameInv
<1>2. CASE aborted
  BY <1>2, AbortedStays, SameInv
<1>3. CASE Next /\ ~aborted
  <2>1. OSLTypeOK /\ Alive /\ StreamOK
    BY <1>3 DEF OSLInv
  <2>2. ASSUME NEW t \in Threads, Step(t) PROVE OSLInv'
    BY <1>3, <2>1, <2>2, StepInv
  <2>3. ASSUME NEW t \in Threads, (\E n \in 1..MaxBytes : Write(t, n)) \/ Flush(t) \/ CloseOut(t) PROVE OSLInv'
    <3>1. PICK op \in Ops : Call(t, op) /\ op.op \in {"bufwrite", "bufflush", "bufclose"}
      BY <2>3, CallOpsOf
    <3>2. aborted' = aborted
      BY <3>1 DEF Call
    <3> QED BY <1>3, <2>1, <3>1, <3>2, CallStep, CallType, QuietInv
  <2>4. CASE Finished
    BY <2>4, SameInv DEF Finished
  <2>5. CASE \/ Connect \/ MakeBuffered \/ CreateThreadSafe \/ CreateForObject \/ MakeThread
             \/ Start \/ EndRun \/ Exit \/ Join \/ DeleteThread \/ ReuseDescriptor
             \/ \E x \in {"sock", "buf", "safe", "pointer"} : LetGo(x)
    BY <1>3, <2>1, <2>5, ProgramInv
  <2> QED BY <1>3, <2>2, <2>3, <2>4, <2>5 DEF Next
<1> QED BY <1>1, <1>2, <1>3

(* The invariant: the references that are counted are those somebody has   *)
(* or is about to give up, what has references is whole, and the bytes     *)
(* sent, being sent and in the buffer are those written, in order.         *)
THEOREM Invariance == Spec => []OSLInv
<1>1. Init => OSLInv
  BY InitInv, OSLAssumption
<1>2. OSLInv /\ [Next]_vars => OSLInv'
  BY NextInv, OSLAssumption
<1> QED BY <1>1, <1>2, PTL DEF Spec

(* Types.                                                                  *)
THEOREM OSLTypes == Spec => []OSLTypeOK
<1>1. OSLInv => OSLTypeOK
  BY DEF OSLInv
<1> QED BY <1>1, Invariance, PTL

(* Object::unref, Pointer and Thread: whatever a thread is about to use is *)
(* there, and nothing is deleted twice.                                    *)
THEOREM NothingUsedAfterFree == Spec => []UsedAreAlive
<1>1. OSLInv => UsedAreAlive
  BY AliveUsed, OSLAssumption DEF OSLInv
<1> QED BY <1>1, Invariance, PTL

(* When everybody has let go all that was made has been deleted, but for   *)
(* the Runnable of a detached Thread that never ran.                       *)
THEOREM EverythingIsDeleted == Spec => []NothingLeaks
<1>1. OSLInv => NothingLeaks
  <2> SUFFICES ASSUME OSLInv, AtRest, ~aborted, ~(detached /\ run \in {"none", "failed"}),
                      NEW x \in made, freed[x] # 1
               PROVE  FALSE
    BY DEF NothingLeaks
  <2>1. OSLTypeOK /\ Alive
    BY DEF OSLInv
  <2>2. /\ \A t \in Threads : Pending(t) = {}
        /\ holds[main] = {} /\ run \in {"none", "failed", "ended", "joined"}
    BY NothingToDo DEF AtRest
  <2>3. \A t \in Threads : \A n, a : ~Will(t, n, a)
    BY <2>2 DEF Will
  <2>4. (\A o : Unrefs(o) = 0) /\ Derefs = 0 /\ \A y : ~Freeing(y)
    BY <2>3 DEF Unrefs, Derefs, Freeing, Count, Threads
  <2>5. \A o \in Counted \cup {"shared"} : refs[o] = Holders(o) /\ (Whole(o) <=> refs[o] # 0)
    <3>1. \A o \in Counted : refs[o] = Holders(o)
      BY <2>1, <2>4 DEF Alive, RefsCounted, Holders, Count
    <3>2. refs["shared"] = Holders("shared")
      BY <2>1, <2>4 DEF Alive, RefsCounted, Holders, Count
    <3> QED BY <2>1, <3>1, <3>2 DEF Alive, WholeWhenReferred
  <2>6. ~Whole("thread") /\ ~Whole("runnable")
    BY <2>1, <2>2 DEF Alive, WholeWhenReferred, OSLTypeOK
  <2>7. ~Whole("shared")
    BY <2>2, <2>5, <2>6 DEF Holders, Count
  <2>8. ~Whole("safe")
    BY <2>2, <2>5, <2>7 DEF Holders, Count, Counted
  <2>9. ~Whole("buf")
    BY <2>2, <2>5, <2>8 DEF Holders, Count, Counted
  <2>10. ~Whole("sock") /\ ~Whole("impl")
    BY <2>2, <2>5 DEF Holders, Count, Counted
  <2>11. ~Wrapping
    BY <2>1, <2>3, <2>9 DEF Wrapping, Alive, BufferOK
  <2>12. ~Whole("in") /\ ~Whole("out")
    BY <2>5, <2>10, <2>11 DEF Holders, Count, Counted
  <2>13. ~Whole(x)
    <3>1. x \in Things
      BY <2>1 DEF OSLTypeOK
    <3> QED BY <2>6, <2>7, <2>8, <2>9, <2>10, <2>12, <3>1 DEF Things, Counted
  <2>14. freed[x] \in Nat /\ freed[x] <= 1 /\ freed[x] # 0
    BY <2>1, <2>4, <2>13 DEF Alive, FreedOnce, Whole, OSLTypeOK
  <2> QED BY <2>14
<1> QED BY <1>1, Invariance, PTL

(* The thread-safe stream: the bytes of both threads stay in order.        *)
THEOREM BytesStayInOrder == Spec => []BytesInOrder
<1>1. OSLInv => BytesInOrder
  <2> SUFFICES ASSUME OSLInv PROVE BytesInOrder
    OBVIOUS
  <2>1. OSLTypeOK /\ StreamOK /\ sent \in Seq(Nat) /\ buffer \in Seq(Nat) /\ written \in Nat
    BY DEF OSLInv, OSLTypeOK
  <2>2. \A t \in Threads : Has(t, "send") <=> WillDo(t, "send")
    BY DEF Has, WillDo, Pending
  <2>3. Rising(sent, written)
    <3>1. CASE \A t \in Threads : ~WillDo(t, "send")
      <4>1. Rising(sent \o buffer, written)
        BY <2>1, <3>1, OrderedIs DEF StreamOK
      <4> QED BY <2>1, <4>1, RisingPrefix
    <3>2. ASSUME NEW t \in Threads, NEW o \in Pending(t), o.op = "send" PROVE Rising(sent, written)
      <4>1. o \in Ops
        BY <2>1 DEF OSLTypeOK, Pending
      <4>2. o.arg \in Seq(Nat) /\ Will(t, "send", o.arg)
        BY <3>2, <4>1, OpForms DEF Formed, Will
      <4>3. Rising(sent \o o.arg \o buffer, written)
        BY <2>1, <4>2, OrderedIs DEF StreamOK
      <4>4. Rising(sent \o o.arg, written)
        BY <2>1, <4>2, <4>3, JoinedBytes, RisingPrefix
      <4> QED BY <2>1, <4>2, <4>4, RisingPrefix
    <3> QED BY <3>1, <3>2 DEF WillDo
  <2>4. ASSUME ~lossy, ~stray, \A t \in Threads : ~Has(t, "send")
        PROVE  sent \o buffer = [k \in 1..written |-> k]
    <3>1. Ordered(sent \o buffer)
      BY <2>1, <2>2, <2>4 DEF StreamOK
    <3> QED BY <2>4, <3>1, OrderedIs
  <2> QED BY <2>3, <2>4 DEF BytesInOrder, Rising
<1> QED BY <1>1, Invariance, PTL
=============================================================================
