-------------------------- MODULE ChatStreamProofs --------------------------
(* What the browser does with a chat, proved for every number of clients,      *)
(* runs, sessions and actions: a reader is given the log, the runner carries   *)
(* an action out once, and the page shows of a turn what its log says.         *)
EXTENDS MCChatStream, ChatRunsProofs, SequenceTheorems, FiniteSetTheorems, WellFoundedInduction

-----------------------------------------------------------------------------
(* The readers of ChatStream.                                                  *)

Upto(n) == [i \in 1 .. n |-> i]
After(k, n) == [i \in 1 .. n |-> k + i]
DoneLate(n, x) == \A i \in 1 .. n : x.log[i].kind = "done" => x.status # "running"

(* What a reader s has consumed and fetched are the first events of the row x, *)
(* of which a done event is handed out only when the run is over; the end that *)
(* a poll saw is the end of the log for good.                                  *)
Reader(s, x) ==
    /\ x.status # "absent"
    /\ s.got = Upto(Len(s.got))
    /\ s.on # "off" => s.cursor = Len(s.got)
    /\ s.on = "off" => s.fetched = <<>> /\ ~s.ended
    /\ s.fetched = After(s.cursor, Len(s.fetched))
    /\ Len(s.got) + Len(s.fetched) <= Len(x.log)
    /\ DoneLate(Len(s.got) + Len(s.fetched), x)
    /\ s.ended => x.status # "running" /\ s.last = Len(x.log)
    /\ s.on = "closed" => s.ended /\ s.fetched = <<>> /\ s.cursor >= s.last

ReadersInv ==
    /\ sub \in [Client -> Sub]
    /\ \A c \in Client : IF sub[c].run = 0 THEN sub[c] = NoSub ELSE Reader(sub[c], row[sub[c].run])

(* A row that goes on, or has ended and stays as it is.                        *)
Later(x, y) ==
    /\ y.status # "absent" /\ Len(x.log) <= Len(y.log)
    /\ \A i \in 1 .. Len(x.log) : y.log[i] = x.log[i]
    /\ x.status # "running" => y.status = x.status /\ y.log = x.log

LEMMA Adds == \A a, b \in Nat : a + b \in Nat /\ a <= a + b
OBVIOUS

LEMMA UptoIs ==
  ASSUME NEW n \in Nat
  PROVE  /\ Upto(n) \in Seq(Nat) /\ Len(Upto(n)) = n
         /\ Append(Upto(n), n + 1) = Upto(n + 1)
<1>1. Upto(n) \in Seq(Nat) /\ Len(Upto(n)) = n
  BY DEF Upto
<1>2. /\ Append(Upto(n), n + 1) \in Seq(Nat) /\ Len(Append(Upto(n), n + 1)) = n + 1
      /\ Upto(n + 1) \in Seq(Nat) /\ Len(Upto(n + 1)) = n + 1
  <2>1. n + 1 \in Nat
    OBVIOUS
  <2> QED
    BY <1>1, <2>1, AppendProperties DEF Upto
<1>3. ASSUME NEW i \in 1 .. n + 1 PROVE Append(Upto(n), n + 1)[i] = Upto(n + 1)[i]
  <2>1. CASE i \in 1 .. n
    <3>1. Append(Upto(n), n + 1)[i] = Upto(n)[i]
      BY <1>1, <2>1
    <3> QED
      BY <1>3, <2>1, <3>1 DEF Upto
  <2>2. CASE i = n + 1
    <3>1. Append(Upto(n), n + 1)[n + 1] = n + 1
      BY <1>1
    <3> QED
      BY <1>3, <2>2, <3>1 DEF Upto
  <2>3. i \in 1 .. n \/ i = n + 1
    BY <1>3
  <2> QED
    BY <2>1, <2>2, <2>3
<1> QED
  BY <1>1, <1>2, <1>3, SeqEqual

LEMMA AfterIs ==
  ASSUME NEW k \in Nat, NEW n \in Nat
  PROVE  /\ After(k, n) \in Seq(Nat) /\ Len(After(k, n)) = n
         /\ n # 0 => /\ After(k, n) # <<>> /\ Head(After(k, n)) = k + 1
                     /\ Tail(After(k, n)) = After(k + 1, n - 1)
<1>1. After(k, n) \in Seq(Nat) /\ Len(After(k, n)) = n
  BY DEF After
<1>2. ASSUME n # 0 PROVE After(k, n) # <<>> /\ Head(After(k, n)) = k + 1
  BY <1>1, <1>2 DEF After
<1>3. ASSUME n # 0 PROVE Tail(After(k, n)) = After(k + 1, n - 1)
  <2>1. n - 1 \in Nat /\ k + 1 \in Nat /\ After(k, n) # <<>>
    BY <1>2, <1>3
  <2>2. After(k + 1, n - 1) \in Seq(Nat) /\ Len(After(k + 1, n - 1)) = n - 1
    BY <2>1 DEF After
  <2>3. Tail(After(k, n)) \in Seq(Nat) /\ Len(Tail(After(k, n))) = n - 1
    BY <1>1, <2>1
  <2>4. ASSUME NEW i \in 1 .. n - 1 PROVE Tail(After(k, n))[i] = After(k + 1, n - 1)[i]
    <3>1. Tail(After(k, n))[i] = After(k, n)[i + 1]
      BY <1>1, <2>1, <2>4
    <3>2. i + 1 \in 1 .. n /\ k + (i + 1) = (k + 1) + i
      BY <2>4
    <3> QED
      BY <2>4, <3>1, <3>2 DEF After
  <2> QED
    BY <2>2, <2>3, <2>4, SeqEqual
<1> QED
  BY <1>1, <1>2, <1>3

LEMMA RowTypes ==
  ASSUME TypeOK, NEW r \in Run
  PROVE  /\ row[r] \in Row /\ row[r].log \in Seq(Event) /\ Len(row[r].log) \in Nat
         /\ row[r].status \in Status
BY DEF TypeOK, Row

LEMMA SubTypes ==
  ASSUME NEW s \in Sub
  PROVE  /\ s.got \in Seq(Nat) /\ s.fetched \in Seq(Nat) /\ Len(s.got) \in Nat /\ Len(s.fetched) \in Nat
         /\ s.run \in Run \cup {0} /\ s.cursor \in Nat /\ s.last \in Nat /\ s.ended \in BOOLEAN
         /\ s.on \in {"off", "open", "closed"}
<1>1. /\ s.got \in Seq(Nat) /\ s.fetched \in Seq(Nat) /\ s.run \in Run \cup {0} /\ s.cursor \in Nat
      /\ s.last \in Nat /\ s.ended \in BOOLEAN /\ s.on \in {"off", "open", "closed"}
  BY DEF Sub
<1> QED
  BY <1>1, LenProperties

LEMMA KeptIsLater ==
  ASSUME NEW x \in Row, NEW y \in Row, NEW p \in Seq(Event), x.status # "absent", Kept(x, y, p)
  PROVE  Later(x, y)
<1>1. x.log \in Seq(Event) /\ Len(x.log) \in Nat
  BY DEF Row
<1>2. CASE y.log = x.log
  BY <1>1, <1>2 DEF Kept, Later, Terminal
<1>3. CASE x.status = "running" /\ y.status = "running" /\ y.log = x.log \o p
  <2>1. /\ Len(p) \in Nat /\ \A i \in 1 .. Len(x.log) : (x.log \o p)[i] = x.log[i]
        /\ Len(x.log \o p) = Len(x.log) + Len(p)
    BY <1>1, ConcatIndex, ConcatProperties
  <2> QED
    BY <1>1, <1>3, <2>1 DEF Later
<1> QED
  BY <1>2, <1>3 DEF Kept

LEMMA RowsGoOn ==
  ASSUME Inv, [Next]_vars, NEW r \in Run, row[r].status # "absent"
  PROVE  Later(row[r], row'[r])
<1>1. TypeOK /\ TypeOK' /\ row[r] \in Row /\ row'[r] \in Row /\ wk[r].pending \in Seq(Event)
  BY TypeStep DEF Inv, TypeOK, Worker
<1>2. ASSUME NEW p \in Proc, NEW s \in Session, NEW from \in {0} \cup Run, Reserve(p, s, from)
      PROVE  Later(row[r], row'[r])
  <2>1. r # created + 1
    <3>1. created + 1 \in Run => row[created + 1] = NoRow
      BY <1>1 DEF Inv, PresenceInv, TypeOK, Run
    <3> QED
      BY <3>1 DEF NoRow
  <2>2. row'[r] = row[r] \/ row'[r] = Expire(row[r])
    BY <1>2, <2>1 DEF Reserve
  <2>3. Kept(row[r], row'[r], <<>>)
    BY <1>1, <2>2, ClosedKept, Unmoved DEF Terminal
  <2>4. <<>> \in Seq(Event)
    OBVIOUS
  <2> QED
    BY <1>1, <2>3, <2>4, KeptIsLater
<1>3. CASE \/ UNCHANGED vars
           \/ \E q \in Run : RunStep(q)
           \/ \E p \in Proc : Shutdown(p) \/ ShutdownEnd(p) \/ Crash(p)
  <2>1. Kept(row[r], row'[r], wk[r].pending)
    BY <1>1, <1>3, StepKeeps DEF RunKept
  <2> QED
    BY <1>1, <2>1, KeptIsLater
<1> QED
  BY <1>2, <1>3 DEF Next

LEMMA ReaderKept ==
  ASSUME NEW s \in Sub, NEW x \in Row, NEW y \in Row, Reader(s, x), Later(x, y)
  PROVE  Reader(s, y)
<1> DEFINE n == Len(s.got) + Len(s.fetched)
<1>1. n \in Nat /\ Len(x.log) \in Nat /\ Len(y.log) \in Nat
  <2>1. x.log \in Seq(Event) /\ y.log \in Seq(Event)
    BY DEF Row
  <2>2. Len(s.got) \in Nat /\ Len(s.fetched) \in Nat
    BY SubTypes
  <2>3. Len(x.log) \in Nat /\ Len(y.log) \in Nat
    BY <2>1, LenProperties
  <2>4. n \in Nat
    BY <2>2, Adds
  <2> QED
    BY <2>3, <2>4
<1>2. n <= Len(x.log) /\ DoneLate(n, x)
  BY DEF Reader
<1>3. Len(x.log) <= Len(y.log) /\ y.status # "absent"
  BY DEF Later
<1> HIDE DEF n
<1>4. ASSUME NEW i \in 1 .. n, y.log[i].kind = "done" PROVE y.status # "running"
  <2>1. i \in 1 .. Len(x.log)
    BY <1>1, <1>2, <1>4
  <2>2. y.log[i] = x.log[i]
    BY <2>1 DEF Later
  <2>3. x.status # "running"
    BY <1>2, <1>4, <2>2 DEF DoneLate
  <2> QED
    BY <2>3 DEF Later
<1>5. DoneLate(n, y) /\ n <= Len(y.log)
  BY <1>1, <1>2, <1>3, <1>4 DEF DoneLate
<1>6. s.ended => y.status # "running" /\ s.last = Len(y.log)
  BY DEF Reader, Later
<1> QED
  BY <1>3, <1>5, <1>6 DEF Reader, n

(* What a poll fetches follows the cursor without a gap.                       *)
LEMMA RowsInLine ==
  ASSUME NEW x \in Row, NEW k \in Nat
  PROVE  /\ Cardinality(Rows(x, k)) \in Nat
         /\ Rows(x, k) = k + 1 .. k + Cardinality(Rows(x, k))
<1> DEFINE R == Rows(x, k)
           n == Cardinality(R)
<1>1. /\ x.log \in Seq(Event) /\ Len(x.log) \in Nat /\ DOMAIN x.log = 1 .. Len(x.log)
      /\ Limit \in Nat
  BY LimitAssumption DEF Row
<1>2. /\ R \subseteq 1 .. Len(x.log) /\ \A i \in R : i > k
      /\ \A i \in R : \A j \in k + 1 .. i : j \in R
  BY <1>1 DEF Rows
<1>3. IsFiniteSet(R)
  <2>1. IsFiniteSet(1 .. Len(x.log))
    BY <1>1, FS_Interval
  <2>2. R \in SUBSET (1 .. Len(x.log))
    BY <1>2
  <2> QED
    BY <2>1, <2>2, FS_Subset
<1>4. n \in Nat
  BY <1>3, FS_CardinalityType
<1> HIDE DEF R
<1>5. \A i \in R : i \in k + 1 .. k + n
  <2> SUFFICES ASSUME NEW i \in R PROVE i \in k + 1 .. k + n
    OBVIOUS
  <2>1. i \in Nat /\ i > k
    BY <1>1, <1>2
  <2>2. k + 1 .. i \in SUBSET R
    BY <1>2
  <2>3. Cardinality(k + 1 .. i) <= n
    BY <1>3, <2>2, FS_Subset
  <2>4. Cardinality(k + 1 .. i) = i - k
    <3>1. k + 1 \in Int /\ i \in Int /\ ~(k + 1 > i) /\ i - (k + 1) + 1 = i - k
      BY <2>1
    <3> QED
      BY <3>1, FS_Interval
  <2> QED
    BY <1>4, <2>1, <2>3, <2>4
<1>6. R = k + 1 .. k + n
  <2>1. IsFiniteSet(k + 1 .. k + n) /\ Cardinality(k + 1 .. k + n) = n
    <3>1. k + 1 \in Int /\ k + n \in Int
          /\ (IF k + 1 > k + n THEN 0 ELSE (k + n) - (k + 1) + 1) = n
      BY <1>4
    <3> QED
      BY <3>1, FS_Interval
  <2>2. R \in SUBSET (k + 1 .. k + n)
    BY <1>5
  <2> QED
    BY <2>1, <2>2, FS_Subset
<1> QED
  BY <1>4, <1>6 DEF R

-----------------------------------------------------------------------------
LEMMA ReadersStep ==
  ASSUME Inv, ReadersInv, [SNext]_svars
  PROVE  [Next]_vars /\ ReadersInv'
<1>0. /\ TypeOK /\ sub \in [Client -> Sub] /\ 0 \notin Run
      /\ \A c \in Client : sub[c].run # 0 => sub[c].run \in Run /\ Reader(sub[c], row[sub[c].run])
  BY SubTypes DEF Inv, ReadersInv, Run
<1>t. ASSUME NEW c \in Client
      PROVE  /\ sub[c] \in Sub /\ sub[c].got \in Seq(Nat) /\ sub[c].fetched \in Seq(Nat)
             /\ Len(sub[c].got) \in Nat /\ Len(sub[c].fetched) \in Nat
             /\ sub[c].run \in Run \cup {0} /\ sub[c].cursor \in Nat /\ sub[c].last \in Nat
             /\ sub[c].ended \in BOOLEAN /\ sub[c].on \in {"off", "open", "closed"}
  BY <1>0, SubTypes
<1>g. ASSUME NEW c \in Client, sub[c].run # 0, [Next]_vars
      PROVE  Reader(sub[c], row'[sub[c].run])
  <2>1. sub[c].run \in Run /\ Reader(sub[c], row[sub[c].run]) /\ TypeOK'
    BY <1>0, <1>g, TypeStep DEF Inv
  <2>2. row[sub[c].run] \in Row /\ row'[sub[c].run] \in Row /\ row[sub[c].run].status # "absent"
    BY <1>0, <2>1 DEF Reader, TypeOK
  <2>3. Later(row[sub[c].run], row'[sub[c].run])
    BY <1>g, <2>1, <2>2, RowsGoOn
  <2> QED
    BY <1>t, <2>1, <2>2, <2>3, ReaderKept
<1>1. ASSUME UNCHANGED sub, [Next]_vars
      PROVE  ReadersInv'
  BY <1>0, <1>1, <1>g DEF ReadersInv
<1>2. ASSUME NEW c \in Client, Poll(c)
      PROVE  [Next]_vars /\ ReadersInv'
  <2> DEFINE r == sub[c].run
             x == Expire(row[r])
             n == Cardinality(Rows(x, sub[c].cursor))
             s == [sub[c] EXCEPT !.fetched = After(sub[c].cursor, n),
                                 !.ended = x.status # "running", !.last = Len(x.log)]
  <2>0. sub[c].on = "open" /\ sub[c].fetched = <<>>
    BY <1>2 DEF Poll
  <2>1. r # 0 /\ r \in Run /\ Reader(sub[c], row[r]) /\ row[r] \in Row
    <3>1. r # 0
      BY <2>0 DEF ReadersInv, NoSub
    <3> QED
      BY <1>0, <3>1, RowTypes
  <2>2. [Next]_vars /\ row' = [row EXCEPT ![r] = x]
    <3>1. row' = [row EXCEPT ![r] = x] /\ UNCHANGED <<created, wk, proc>>
      BY <1>2 DEF Poll
    <3>2. CASE Lapsed(row[r])
      BY <2>1, <3>1, <3>2 DEF Observe, Requests, RunStep, Next
    <3>3. CASE ~Lapsed(row[r])
      BY <1>0, <2>1, <3>1, <3>3 DEF Expire, vars, TypeOK
    <3> QED
      BY <3>2, <3>3, <3>1
  <2>3. TypeOK' /\ row'[r] = x /\ x \in Row
    BY <1>0, <2>1, <2>2, TypeStep, RowTypes DEF TypeOK
  <2>4. Reader(sub[c], x)
    BY <1>g, <2>1, <2>2, <2>3
  <2>5. sub' = [sub EXCEPT ![c] = s]
    BY <1>2 DEF Poll, After
  <2>6. n \in Nat /\ Rows(x, sub[c].cursor) = sub[c].cursor + 1 .. sub[c].cursor + n
    BY <1>t, <2>3, RowsInLine
  <2>7. x.log \in Seq(Event) /\ Len(x.log) \in Nat
    BY <2>3 DEF Row
  <2> HIDE DEF x, n
  <2>a. /\ After(sub[c].cursor, n) \in Seq(Nat) /\ Len(After(sub[c].cursor, n)) = n
        /\ (x.status # "running") \in BOOLEAN
    BY <1>t, <2>6, AfterIs
  <2>8. /\ s \in Sub /\ s.got = sub[c].got /\ s.on = "open" /\ s.cursor = sub[c].cursor /\ s.run = r
        /\ s.fetched = After(sub[c].cursor, n) /\ s.ended = (x.status # "running") /\ s.last = Len(x.log)
    <3> DEFINE f == After(sub[c].cursor, n)
               over == x.status # "running"
               m == Len(x.log)
    <3>1. f \in Seq(Nat) /\ over \in BOOLEAN /\ m \in Nat
      BY <2>7, <2>a
    <3>2. s = [sub[c] EXCEPT !.fetched = f, !.ended = over, !.last = m]
      OBVIOUS
    <3> HIDE DEF f, over, m, s
    <3>3. s \in Sub /\ s.got = sub[c].got /\ s.on = sub[c].on /\ s.cursor = sub[c].cursor /\ s.run = sub[c].run
      BY <1>t, <3>1, <3>2 DEF Sub
    <3>4. s.fetched = f /\ s.ended = over /\ s.last = m
      BY <1>t, <3>2 DEF Sub
    <3> QED
      BY <2>0, <3>3, <3>4 DEF f, over, m
  <2> HIDE DEF s, r
  <2>9. Reader(s, x)
    <3> DEFINE g == Len(sub[c].got)
    <3>1. /\ g \in Nat /\ sub[c].cursor = g /\ sub[c].got = Upto(g) /\ g <= Len(x.log)
          /\ DoneLate(g, x) /\ x.status # "absent"
      <4>1. Len(sub[c].fetched) = 0 /\ g + 0 = g /\ g \in Nat
        BY <1>t, <2>0
      <4> QED
        BY <2>0, <2>4, <4>1 DEF Reader
    <3> HIDE DEF g
    <3>2. g + n <= Len(x.log)
      <4>1. CASE n = 0
        BY <2>7, <3>1, <4>1
      <4>2. CASE n # 0
        <5>1. g + n \in Rows(x, sub[c].cursor)
          BY <2>6, <3>1, <4>2
        <5>2. g + n \in DOMAIN x.log
          BY <5>1 DEF Rows
        <5> QED
          BY <2>7, <5>2
      <4> QED
        BY <4>1, <4>2
    <3>3. ASSUME NEW i \in 1 .. g + n, x.log[i].kind = "done" PROVE x.status # "running"
      <4>1. CASE i \in 1 .. g
        BY <3>1, <3>3, <4>1 DEF DoneLate
      <4>2. CASE i \in g + 1 .. g + n
        <5>1. i \in Rows(x, g) /\ i \in g + 1 .. i
          BY <2>6, <3>1, <4>2
        <5>2. x.status = "running" => \A j \in g + 1 .. i : KindAt(x, j) # "done"
          BY <5>1 DEF Rows
        <5> QED
          BY <3>3, <5>1, <5>2 DEF KindAt
      <4> QED
        BY <2>6, <3>1, <3>3, <4>1, <4>2
    <3>4. DoneLate(g + n, x)
      BY <3>3 DEF DoneLate
    <3>5. Len(s.got) = g /\ Len(s.fetched) = n
      BY <2>8, <2>a DEF g
    <3> QED
      BY <2>8, <3>1, <3>2, <3>4, <3>5 DEF Reader
  <2>10. ReadersInv'
    <3>1. sub' \in [Client -> Sub]
      BY <2>5, <2>8 DEF ReadersInv
    <3>2. sub'[c] = s /\ row'[r] = x /\ \A d \in Client : d # c => sub'[d] = sub[d]
      BY <1>0, <2>3, <2>5
    <3>3. IF sub'[c].run = 0 THEN sub'[c] = NoSub ELSE Reader(sub'[c], row'[sub'[c].run])
      BY <2>1, <2>8, <2>9, <3>2
    <3>4. ASSUME NEW d \in Client, d # c
          PROVE  IF sub'[d].run = 0 THEN sub'[d] = NoSub ELSE Reader(sub'[d], row'[sub'[d].run])
      BY <1>g, <2>2, <3>2, <3>4 DEF ReadersInv
    <3> QED
      BY <3>1, <3>3, <3>4 DEF ReadersInv
  <2> QED
    BY <2>2, <2>10
<1>3. ASSUME NEW c \in Client, NEW s \in Sub, s.run # 0, Reader(s, row[s.run]), UNCHANGED vars,
             sub' = [sub EXCEPT ![c] = s]
      PROVE  [Next]_vars /\ ReadersInv'
  <2>1. row' = row
    BY <1>3 DEF vars
  <2>2. sub' \in [Client -> Sub] /\ sub'[c] = s /\ \A d \in Client : d # c => sub'[d] = sub[d]
    BY <1>3 DEF ReadersInv
  <2> QED
    BY <1>3, <2>1, <2>2 DEF ReadersInv
<1>4. ASSUME NEW c \in Client, Yield(c)
      PROVE  [Next]_vars /\ ReadersInv'
  <2> DEFINE x == row[sub[c].run]
             f == sub[c].fetched
             g == sub[c].got
             s == [sub[c] EXCEPT !.fetched = Tail(f), !.cursor = Head(f), !.got = Append(g, Head(f))]
  <2>1. sub[c].on = "open" /\ f # <<>> /\ sub' = [sub EXCEPT ![c] = s] /\ UNCHANGED vars
    BY <1>4 DEF Yield
  <2>2. sub[c].run # 0 /\ Reader(sub[c], x)
    <3>1. sub[c].run # 0
      BY <2>1 DEF ReadersInv, NoSub
    <3> QED
      BY <1>0, <3>1
  <2> DEFINE n == Len(g)
             m == Len(f)
  <2>3. /\ n \in Nat /\ m \in Nat /\ m # 0 /\ g = Upto(n) /\ f = After(n, m) /\ sub[c].cursor = n
        /\ g \in Seq(Nat) /\ f \in Seq(Nat)
    <3>1. m # 0
      BY <1>t, <2>1
    <3> QED
      BY <1>t, <2>1, <2>2, <3>1 DEF Reader
  <2>4. /\ Head(f) = n + 1 /\ Tail(f) = After(n + 1, m - 1) /\ Append(g, Head(f)) = Upto(n + 1)
        /\ m - 1 \in Nat /\ n + 1 \in Nat
    <3> HIDE DEF f, g, n, m
    <3>1. Head(After(n, m)) = n + 1 /\ Tail(After(n, m)) = After(n + 1, m - 1)
      BY <2>3, AfterIs
    <3>2. Append(Upto(n), n + 1) = Upto(n + 1)
      BY <2>3, UptoIs
    <3>3. m - 1 \in Nat /\ n + 1 \in Nat
      BY <2>3
    <3> QED
      BY <2>3, <3>1, <3>2, <3>3
  <2>5. /\ Tail(f) \in Seq(Nat) /\ Len(Tail(f)) = m - 1
        /\ Append(g, Head(f)) \in Seq(Nat) /\ Len(Append(g, Head(f))) = n + 1
    <3> HIDE DEF f, g, n, m
    <3>1. After(n + 1, m - 1) \in Seq(Nat) /\ Len(After(n + 1, m - 1)) = m - 1
      BY <2>4, AfterIs
    <3>2. Upto(n + 1) \in Seq(Nat) /\ Len(Upto(n + 1)) = n + 1
      BY <2>4, UptoIs
    <3> QED
      BY <2>4, <3>1, <3>2
  <2>7. /\ s \in Sub /\ s.fetched = Tail(f) /\ s.cursor = n + 1 /\ s.got = Append(g, Head(f)) /\ s.on = "open"
        /\ s.ended = sub[c].ended /\ s.last = sub[c].last /\ s.run = sub[c].run
    <3> HIDE DEF f, g, n
    <3> QED
      BY <1>t, <2>1, <2>4, <2>5 DEF Sub
  <2> HIDE DEF s
  <2>8. Reader(s, x)
    <3>1. Len(s.got) = n + 1 /\ Len(s.fetched) = m - 1 /\ Len(s.got) + Len(s.fetched) = n + m
      <4> HIDE DEF f, g, n, m
      <4>1. (n + 1) + (m - 1) = n + m
        BY <2>3
      <4> QED
        BY <2>5, <2>7, <4>1
    <3>2. s.fetched = After(s.cursor, Len(s.fetched)) /\ s.got = Upto(Len(s.got))
      BY <2>4, <2>7, <3>1
    <3>3. /\ x.status # "absent" /\ n + m <= Len(x.log) /\ DoneLate(n + m, x)
          /\ sub[c].ended => x.status # "running" /\ sub[c].last = Len(x.log)
      BY <2>2 DEF Reader
    <3> HIDE DEF n, m
    <3> QED
      BY <2>7, <3>1, <3>2, <3>3 DEF Reader
  <2> QED
    BY <1>3, <2>1, <2>2, <2>7, <2>8
<1>5. ASSUME NEW c \in Client, EndStream(c)
      PROVE  [Next]_vars /\ ReadersInv'
  <2> DEFINE s == [sub[c] EXCEPT !.on = "closed"]
  <2>1. sub[c].on = "open" /\ sub' = [sub EXCEPT ![c] = s] /\ UNCHANGED vars
    BY <1>5 DEF EndStream
  <2>2. sub[c].run # 0 /\ Reader(sub[c], row[sub[c].run])
    <3>1. sub[c].run # 0
      BY <2>1 DEF ReadersInv, NoSub
    <3> QED
      BY <1>0, <3>1
  <2>3. /\ s \in Sub /\ s.run = sub[c].run /\ s.got = sub[c].got /\ s.fetched = sub[c].fetched
        /\ s.cursor = sub[c].cursor /\ s.ended = sub[c].ended /\ s.last = sub[c].last /\ s.on = "closed"
    BY <1>t DEF Sub
  <2>4. sub[c].ended /\ sub[c].fetched = <<>> /\ sub[c].cursor >= sub[c].last
    BY <1>5 DEF EndStream
  <2> HIDE DEF s
  <2>5. Reader(s, row[s.run])
    BY <2>1, <2>2, <2>3, <2>4 DEF Reader
  <2> QED
    BY <1>3, <2>1, <2>2, <2>3, <2>5
<1>6. ASSUME NEW c \in Client, Disconnect(c)
      PROVE  [Next]_vars /\ ReadersInv'
  <2> DEFINE s == [NoSub EXCEPT !.run = sub[c].run, !.got = sub[c].got]
  <2>1. sub[c].on = "open" /\ sub' = [sub EXCEPT ![c] = s] /\ UNCHANGED vars
    BY <1>6 DEF Disconnect
  <2>2. sub[c].run # 0 /\ sub[c].run \in Run /\ Reader(sub[c], row[sub[c].run])
    <3>1. sub[c].run # 0
      BY <2>1 DEF ReadersInv, NoSub
    <3> QED
      BY <1>0, <3>1
  <2>3. /\ s.run = sub[c].run /\ s.got = sub[c].got /\ s.on = "off" /\ s.fetched = <<>> /\ s.ended = FALSE
        /\ s.cursor = 0 /\ s.last = 0
    BY DEF NoSub
  <2>4. <<>> \in Seq(Nat) /\ Len(<<>>) = 0 /\ <<>> = After(0, 0)
    BY DEF After
  <2>5. s \in Sub
    BY <1>t, <2>4 DEF Sub, NoSub
  <2> HIDE DEF s
  <2>6. Reader(s, row[s.run])
    <3> DEFINE g == Len(sub[c].got)
               n == g + Len(sub[c].fetched)
               x == row[sub[c].run]
    <3>1. g \in Nat /\ n \in Nat /\ g <= n /\ Len(x.log) \in Nat
      <4>1. Len(row[sub[c].run].log) \in Nat
        BY <1>0, <2>2, RowTypes
      <4>2. Len(sub[c].got) \in Nat /\ Len(sub[c].fetched) \in Nat
        BY <1>t
      <4>3. g \in Nat /\ n \in Nat /\ g <= n
        BY <4>2, Adds
      <4> QED
        BY <4>1, <4>3
    <3>2. x.status # "absent" /\ sub[c].got = Upto(g) /\ n <= Len(x.log) /\ DoneLate(n, x)
      BY <2>2 DEF Reader
    <3> HIDE DEF n, g, x
    <3>3. g <= Len(x.log) /\ DoneLate(g, x)
      BY <3>1, <3>2 DEF DoneLate
    <3>4. Len(s.got) = g /\ Len(s.fetched) = 0 /\ g + 0 = g
      BY <2>3, <2>4, <3>1 DEF g
    <3> QED
      BY <2>3, <2>4, <3>2, <3>3, <3>4 DEF Reader, x
  <2> QED
    BY <1>3, <2>1, <2>2, <2>3, <2>5, <2>6
<1>7. ASSUME NEW c \in Client, NEW r \in Run, Connect(c, r)
      PROVE  [Next]_vars /\ ReadersInv'
  <2> DEFINE s == [NoSub EXCEPT !.on = "open", !.run = r, !.cursor = Len(sub[c].got), !.got = sub[c].got]
  <2>1. /\ sub[c].on = "off" /\ row[r].status # "absent" /\ sub[c].run \in {0, r}
        /\ sub' = [sub EXCEPT ![c] = s] /\ UNCHANGED vars
    BY <1>7 DEF Connect
  <2>2. /\ s.run = r /\ s.got = sub[c].got /\ s.on = "open" /\ s.fetched = <<>> /\ s.ended = FALSE
        /\ s.cursor = Len(sub[c].got) /\ s.last = 0
    BY DEF NoSub
  <2>3. <<>> \in Seq(Nat) /\ Len(<<>>) = 0 /\ <<>> = After(Len(sub[c].got), 0)
    BY DEF After
  <2>4. s \in Sub /\ s.run # 0
    BY <1>0, <1>t, <2>3 DEF Sub, NoSub
  <2> HIDE DEF s
  <2> DEFINE g == Len(sub[c].got)
  <2>5. g \in Nat /\ sub[c].got = Upto(g) /\ g <= Len(row[r].log) /\ DoneLate(g, row[r])
    <3>1. CASE sub[c].run = 0
      <4>1. sub[c].got = <<>>
        BY <3>1 DEF ReadersInv, NoSub
      <4>2. g = 0 /\ Upto(0) = <<>>
        BY <4>1 DEF Upto
      <4>3. DoneLate(0, row[r]) /\ Len(row[r].log) \in Nat
        BY <1>0, RowTypes DEF DoneLate
      <4> QED
        BY <4>1, <4>2, <4>3
    <3>2. CASE sub[c].run # 0
      <4>1. Reader(sub[c], row[r]) /\ sub[c].fetched = <<>>
        <5>1. Reader(sub[c], row[r])
          BY <1>0, <2>1, <3>2
        <5> QED
          BY <2>1, <5>1 DEF Reader
      <4>2. Len(sub[c].fetched) = 0 /\ g \in Nat /\ g + 0 = g
        BY <1>t, <4>1
      <4> QED
        BY <4>1, <4>2 DEF Reader
    <3> QED
      BY <3>1, <3>2
  <2> HIDE DEF g
  <2>6. Reader(s, row[s.run])
    <3>1. Len(s.got) = g /\ Len(s.fetched) = 0 /\ g + 0 = g /\ s.cursor = g
      BY <2>2, <2>3, <2>5 DEF g
    <3>2. s.got = Upto(Len(s.got)) /\ s.fetched = After(s.cursor, Len(s.fetched))
      BY <2>2, <2>3, <2>5, <3>1 DEF g
    <3> QED
      BY <2>1, <2>2, <2>5, <3>1, <3>2 DEF Reader
  <2> QED
    BY <1>3, <2>1, <2>4, <2>6
<1> QED
  <2>1. CASE (Next \/ UNCHANGED vars) /\ UNCHANGED sub
    BY <1>1, <2>1
  <2>2. CASE UNCHANGED svars
    BY <1>1, <2>2 DEF svars, vars
  <2> QED
    BY <1>2, <1>4, <1>5, <1>6, <1>7, <2>1, <2>2 DEF SNext, Reading

LEMMA ReadersInit == SInit => Inv /\ ReadersInv
<1> SUFFICES ASSUME SInit PROVE Inv /\ ReadersInv
  OBVIOUS
<1>1. NoSub \in Sub /\ NoSub.run = 0
  BY DEF NoSub, Sub
<1> QED
  BY <1>1, InvInit DEF SInit, ReadersInv

LEMMA ReadersImply == Inv /\ ReadersInv => ReadsTheLog
<1> SUFFICES ASSUME Inv, ReadersInv, NEW c \in Client
             PROVE  /\ sub[c].got = [i \in 1 .. Len(sub[c].got) |-> i]
                    /\ sub[c].on = "closed" => Len(sub[c].got) = Len(row[sub[c].run].log)
                    /\ \A i \in DOMAIN sub[c].got :
                          KindAt(row[sub[c].run], sub[c].got[i]) = "done"
                          => row[sub[c].run].status # "running"
  BY DEF ReadsTheLog, InOrderOnce, ClosedSawAll, DoneMeansFree
<1>1. CASE sub[c].run = 0
  <2>1. sub[c].got = <<>> /\ sub[c].on = "off"
    BY <1>1 DEF ReadersInv, NoSub
  <2> QED
    BY <2>1
<1>2. CASE sub[c].run # 0
  <2> DEFINE x == row[sub[c].run]
             n == Len(sub[c].got)
             m == Len(sub[c].fetched)
  <2>1. sub[c] \in Sub /\ sub[c].run \in Run /\ Reader(sub[c], x) /\ TypeOK
    BY <1>2, SubTypes DEF ReadersInv, Inv
  <2>2. Len(x.log) \in Nat /\ n \in Nat /\ m \in Nat /\ DOMAIN sub[c].got = 1 .. n
    BY <2>1, RowTypes, SubTypes
  <2>3. sub[c].got = Upto(n) /\ n + m <= Len(x.log) /\ DoneLate(n + m, x)
    BY <2>1 DEF Reader
  <2>4. sub[c].on = "closed" => m = 0 /\ n >= Len(x.log)
    BY <2>1 DEF Reader
  <2> HIDE DEF x, n, m
  <2>5. sub[c].got = [i \in 1 .. n |-> i] /\ \A i \in 1 .. n : sub[c].got[i] = i
    BY <2>2, <2>3 DEF Upto
  <2>6. \A i \in 1 .. n : KindAt(x, i) = "done" => x.status # "running"
    BY <2>2, <2>3 DEF DoneLate, KindAt
  <2>7. sub[c].on = "closed" => n = Len(x.log)
    BY <2>2, <2>3, <2>4
  <2> QED
    BY <2>2, <2>5, <2>6, <2>7 DEF x, n
<1> QED
  BY <1>1, <1>2

(* However often a connection drops and whatever happens to the run, a client  *)
(* is given the log, each event once and in order, and the end only with all   *)
(* of it and when the next turn may come (subscribe).                          *)
THEOREM ReadersServed == SSpec => []ReadsTheLog
<1>1. Inv /\ ReadersInv /\ [SNext]_svars => (Inv /\ ReadersInv)'
  BY ReadersStep, InvStep
<1> QED
  BY <1>1, ReadersInit, ReadersImply, PTL DEF SSpec

-----------------------------------------------------------------------------
(* The runner of UiRunner.                                                     *)

Current(r) == r \in runs /\ r.gen = gen
Taken == {a \in Action : performed[a] = 1 \/ \E r \in runs : Current(r) /\ r.act = a}

(* A queue of different members of S.                                          *)
Fit(q, S) == /\ q \in Seq(Action)
             /\ \A i, j \in 1 .. Len(q) : q[i] = q[j] => i = j
             /\ \A i \in 1 .. Len(q) : q[i] \in S

(* What waits was delivered and is neither under way nor done; an action is    *)
(* under way once, and is no longer about to be done when it has been.         *)
RunnerInv ==
    /\ useen \in SUBSET Action /\ gen \in Nat /\ runs \in SUBSET Execution /\ performed \in [Action -> Nat]
    /\ foreign = FALSE
    /\ Fit(uqueue, useen \ Taken) /\ Taken \subseteq useen
    /\ \A a \in Action : performed[a] \in {0, 1}
    /\ \A r \in runs : r.gen <= gen
    /\ \A r, q \in runs : r.gen = gen /\ q.gen = gen /\ r.act = q.act => r = q
    /\ \A r \in runs : r.gen = gen /\ r.pc = "move" => performed[r.act] = 0

Store(s) == s = [queue |-> s.queue, active |-> s.active, holder |-> s.holder, pumps |-> s.pumps]

LEMMA FitTail ==
  ASSUME NEW S, NEW q, Fit(q, S), q # <<>>
  PROVE  /\ Head(q) \in S \cap Action /\ Fit(Tail(q), S \ {Head(q)}) /\ Fit(Tail(q), S)
<1>1. /\ q \in Seq(Action) /\ Len(q) \in Nat \ {0} /\ Tail(q) \in Seq(Action) /\ Len(Tail(q)) = Len(q) - 1
      /\ Head(q) = q[1] /\ 1 \in 1 .. Len(q) /\ q[1] \in Action
  BY DEF Fit
<1>2. \A i \in 1 .. Len(q) - 1 : Tail(q)[i] = q[i + 1] /\ i + 1 \in 1 .. Len(q) /\ i + 1 # 1
  BY <1>1
<1>3. \A i \in 1 .. Len(q) : q[i] \in S
  BY DEF Fit
<1>4. \A i, j \in 1 .. Len(q) : q[i] = q[j] => i = j
  BY DEF Fit
<1>5. \A i, j \in 1 .. Len(q) - 1 : Tail(q)[i] = Tail(q)[j] => i = j
  <2> SUFFICES ASSUME NEW i \in 1 .. Len(q) - 1, NEW j \in 1 .. Len(q) - 1, q[i + 1] = q[j + 1]
               PROVE  i = j
    BY <1>2
  <2>1. i + 1 = j + 1
    BY <1>2, <1>4
  <2> QED
    BY <2>1
<1>6. \A i \in 1 .. Len(q) - 1 : Tail(q)[i] \in S /\ Tail(q)[i] # Head(q)
  BY <1>1, <1>2, <1>3, <1>4
<1> QED
  BY <1>1, <1>3, <1>5, <1>6 DEF Fit

LEMMA FitAppend ==
  ASSUME NEW S, NEW q, Fit(q, S), NEW a \in Action, a \notin S
  PROVE  Fit(Append(q, a), S \cup {a})
<1>1. /\ q \in Seq(Action) /\ Len(q) \in Nat /\ Append(q, a) \in Seq(Action)
      /\ Len(Append(q, a)) = Len(q) + 1
  BY DEF Fit
<1>2. \A i \in 1 .. Len(q) + 1 : Append(q, a)[i] = IF i = Len(q) + 1 THEN a ELSE q[i]
  BY <1>1
<1> QED
  BY <1>1, <1>2 DEF Fit

LEMMA FitMore ==
  ASSUME NEW S, NEW T, S \subseteq T, NEW q, Fit(q, S)
  PROVE  Fit(q, T)
BY DEF Fit

(* A pump only takes from the queue.                                           *)
LEMMA PumpFits ==
  ASSUME NEW S, NEW s, Store(s), Fit(s.queue, S)
  PROVE  /\ Store(Pumped(s)) /\ Fit(Pumped(s).queue, S)
         /\ Store(Changed(s)) /\ Fit(Changed(s).queue, S)
         /\ Store(ActiveDone(s)) /\ Fit(ActiveDone(s).queue, S)
         /\ Store(Resumed(s)) /\ Fit(Resumed(s).queue, S)
<1>1. ASSUME NEW t, Store(t), Fit(t.queue, S)
      PROVE  Store(Pumped(t)) /\ Fit(Pumped(t).queue, S)
  <2>1. CASE t.queue = <<>>
    BY <1>1, <2>1 DEF Pumped
  <2>2. CASE t.queue # <<>> /\ t.holder # NoAction /\ SessionOf[Head(t.queue)] # t.holder
    <3>1. Fit(Tail(t.queue), S)
      BY <1>1, <2>2, FitTail
    <3>2. Store(Pumped(t)) /\ Pumped(t).queue = Tail(t.queue)
      BY <1>1, <2>2 DEF Pumped, Suspended, Activated, Store
    <3> QED
      BY <3>1, <3>2
  <2>3. CASE t.queue # <<>> /\ ~(t.holder # NoAction /\ SessionOf[Head(t.queue)] # t.holder)
    BY <1>1, <2>3 DEF Pumped, Suspended, Store
  <2> QED
    BY <2>1, <2>2, <2>3
<1>2. ASSUME NEW t, Store(t), Fit(t.queue, S)
      PROVE  Store(Changed(t)) /\ Fit(Changed(t).queue, S)
  BY <1>1, <1>2 DEF Changed
<1>3. ASSUME NEW t, Store(t), Fit(t.queue, S)
      PROVE  Store(ActiveDone(t)) /\ Fit(ActiveDone(t).queue, S)
  <2> DEFINE u == [t EXCEPT !.active = NoAction]
  <2>1. Store(u) /\ u.queue = t.queue
    BY <1>3 DEF Store
  <2> QED
    BY <1>2, <1>3, <2>1 DEF ActiveDone
<1>4. Store(Resumed(s)) /\ Fit(Resumed(s).queue, S)
  <2> DEFINE u == [s EXCEPT !.holder = NoAction]
  <2>1. Store(u) /\ u.queue = s.queue
    BY DEF Store
  <2>2. Store(ActiveDone(u)) /\ Fit(ActiveDone(u).queue, S)
    BY <1>3, <2>1
  <2> QED
    BY <1>1, <2>2 DEF Resumed
<1> QED
  BY <1>1, <1>2, <1>3, <1>4

LEMMA NowFits ==
  ASSUME NEW S, Fit(uqueue, S), NEW p
  PROVE  /\ Store(Now) /\ Now.queue = uqueue
         /\ Store(Without(p)) /\ Without(p).queue = uqueue
BY DEF Now, Without, Store

-----------------------------------------------------------------------------
(* A step that leaves the executions under way as they are, but for their      *)
(* progress, or ends some.                                                     *)
LEMMA FewerRuns ==
  ASSUME RunnerInv, NEW q, Fit(q, useen \ Taken), uqueue' = q, UNCHANGED <<useen, gen, performed, foreign>>,
         NEW r \in runs, NEW x \in {{}} \cup {{[r EXCEPT !.pc = pc]} : pc \in {"reply", "refuse", "over"}}
                                 \cup {{[r EXCEPT !.late = TRUE]}},
         runs' = (runs \ {r}) \cup x
  PROVE  RunnerInv'
<1>1. /\ runs' \in SUBSET Execution
      /\ \A y \in x : y.act = r.act /\ y.gen = r.gen /\ (y.pc = "move" => r.pc = "move")
      /\ \A y, z \in x : y = z
  <2>1. r \in Execution /\ runs \in SUBSET Execution
    BY DEF RunnerInv
  <2>2. CASE x = {}
    BY <2>1, <2>2
  <2>3. CASE x = {[r EXCEPT !.late = TRUE]}
    BY <2>1, <2>3 DEF Execution
  <2>4. ASSUME NEW pc \in {"reply", "refuse", "over"}, x = {[r EXCEPT !.pc = pc]}
        PROVE  /\ x \in SUBSET Execution
               /\ \A y \in x : y.act = r.act /\ y.gen = r.gen /\ (y.pc = "move" => r.pc = "move")
               /\ \A y, z \in x : y = z
    BY <2>1, <2>4 DEF Execution
  <2> QED
    BY <2>1, <2>2, <2>3, <2>4
<1>2. Taken' \subseteq Taken
  BY <1>1 DEF Taken, Current, RunnerInv
<1>3. Fit(uqueue', useen' \ Taken') /\ Taken' \subseteq useen'
  <2>1. useen \ Taken \subseteq useen' \ Taken'
    BY <1>2
  <2> QED
    BY <1>2, <2>1, FitMore DEF RunnerInv
<1>4. \A y \in runs' : y.gen <= gen'
  BY <1>1 DEF RunnerInv
<1>5. \A y, z \in runs' : y.gen = gen' /\ z.gen = gen' /\ y.act = z.act => y = z
  BY <1>1 DEF RunnerInv
<1>6. \A y \in runs' : y.gen = gen' /\ y.pc = "move" => performed'[y.act] = 0
  BY <1>1 DEF RunnerInv
<1> QED
  BY <1>1, <1>3, <1>4, <1>5, <1>6 DEF RunnerInv

LEMMA SameRuns ==
  ASSUME RunnerInv, NEW q, Fit(q, useen \ Taken), uqueue' = q, UNCHANGED <<useen, gen, runs, performed, foreign>>
  PROVE  RunnerInv'
<1>1. Taken' = Taken
  BY DEF Taken, Current
<1> QED
  BY <1>1 DEF RunnerInv

LEMMA RunnerStep ==
  ASSUME RunnerInv, [RNext]_rvars
  PROVE  RunnerInv'
<1> DEFINE S == useen \ Taken
<1>0. Fit(uqueue, S) /\ uqueue \in Seq(Action)
  BY DEF RunnerInv, Fit
<1>1. ASSUME NEW a \in Action, Enqueue(a)
      PROVE  RunnerInv'
  <2>1. CASE Seen(a)
    <3>1. useen' = useen
      BY <1>1, <2>1 DEF Enqueue, Seen
    <3> QED
      BY <1>0, <1>1, <2>1, <3>1, SameRuns DEF Enqueue, history
  <2>2. CASE ~Seen(a)
    <3> DEFINE t == [Now EXCEPT !.queue = Append(@, a)]
    <3>1. Store(t) /\ t.queue = Append(uqueue, a)
      BY DEF Now, Store
    <3>2. Taken' = Taken /\ a \notin Taken /\ a \notin useen
      BY <1>1, <2>2 DEF Enqueue, Taken, Current, history, Seen, RunnerInv
    <3>3. Fit(t.queue, S \cup {a})
      <4>1. a \notin S
        BY <3>2
      <4> HIDE DEF S, t
      <4> QED
        BY <1>0, <3>1, <4>1, FitAppend
    <3>4. S \cup {a} = useen' \ Taken' /\ Taken' \subseteq useen' /\ useen' \in SUBSET Action
      BY <1>1, <3>2 DEF Enqueue, RunnerInv
    <3>5. Fit(Changed(t).queue, S \cup {a})
      BY <3>1, <3>3, PumpFits
    <3>6. uqueue' = Changed(t).queue
      BY <1>1, <2>2 DEF Enqueue, Becomes
    <3> HIDE DEF S
    <3>7. Fit(uqueue', useen' \ Taken')
      BY <3>4, <3>5, <3>6
    <3> QED
      BY <1>1, <3>4, <3>7 DEF Enqueue, history, RunnerInv
  <2> QED
    BY <2>1, <2>2
<1>2. ASSUME NEW p, LockAwaited(p)
      PROVE  RunnerInv'
  <2> DEFINE s == Without(p)
  <2>1. Store(s) /\ s.queue = uqueue /\ Fit(s.queue, S)
    BY <1>0, NowFits
  <2> HIDE DEF s
  <2>2. CASE ~AtHead(p) /\ Becomes(Pumped(s)) /\ runs' = runs
    <3>1. Fit(Pumped(s).queue, S)
      BY <2>1, PumpFits
    <3>2. uqueue' = Pumped(s).queue /\ UNCHANGED <<useen, gen, runs, performed, foreign>>
      BY <1>2, <2>2 DEF LockAwaited, Becomes, history
    <3> QED
      BY <3>1, <3>2, SameRuns
  <2>3. CASE AtHead(p) /\ Becomes(Suspended(Activated(s), "busy", p.next)) /\ runs' = runs
    <3>1. uqueue # <<>> /\ Fit(Tail(uqueue), S)
      BY <1>0, <2>3, FitTail DEF AtHead
    <3>2. Suspended(Activated(s), "busy", p.next).queue = Tail(uqueue)
      BY <2>1 DEF Suspended, Activated, Store
    <3>3. uqueue' = Tail(uqueue) /\ UNCHANGED <<useen, gen, runs, performed, foreign>>
      BY <1>2, <2>3, <3>2 DEF LockAwaited, Becomes, history
    <3> QED
      BY <3>1, <3>3, SameRuns
  <2>4. CASE /\ AtHead(p)
             /\ Becomes(Suspended([Activated(s) EXCEPT !.holder = SessionOf[p.next]], "run", p.next))
             /\ runs' = runs \cup {[act |-> p.next, gen |-> gen, pc |-> "move", late |-> FALSE]}
    <3> DEFINE a == p.next
               r == [act |-> a, gen |-> gen, pc |-> "move", late |-> FALSE]
    <3>1. uqueue # <<>> /\ a = Head(uqueue)
      BY <2>4 DEF AtHead
    <3>2. a \in S /\ a \in Action /\ Fit(Tail(uqueue), S \ {a})
      BY <1>0, <3>1, FitTail
    <3>3. Suspended([Activated(s) EXCEPT !.holder = SessionOf[p.next]], "run", p.next).queue = Tail(uqueue)
      BY <2>1 DEF Suspended, Activated, Store
    <3>4. uqueue' = Tail(uqueue) /\ UNCHANGED <<useen, gen, performed, foreign>>
      BY <1>2, <2>4, <3>3 DEF LockAwaited, Becomes, history
    <3>5. r \in Execution /\ r.act = a /\ r.gen = gen
      BY <3>2 DEF Execution, RunnerInv
    <3> HIDE DEF a, r
    <3>6. Taken' = Taken \cup {a} /\ runs' = runs \cup {r}
      <4>1. runs' = runs \cup {r}
        BY <2>4 DEF r, a
      <4> QED
        BY <3>2, <3>4, <3>5, <4>1 DEF Taken, Current
    <3>7. Fit(uqueue', useen' \ Taken') /\ Taken' \subseteq useen'
      <4>1. S \ {a} = useen' \ Taken'
        BY <3>4, <3>6
      <4> QED
        BY <3>2, <3>4, <3>6, <4>1 DEF RunnerInv
    <3>8. performed[a] = 0 /\ \A q \in runs : q.gen = gen => q.act # a
      BY <3>2 DEF Taken, Current, RunnerInv
    <3>9. \A y, z \in runs' : y.gen = gen' /\ z.gen = gen' /\ y.act = z.act => y = z
      BY <3>4, <3>5, <3>6, <3>8 DEF RunnerInv
    <3> QED
      BY <3>4, <3>5, <3>6, <3>7, <3>8, <3>9 DEF RunnerInv
  <2> QED
    BY <1>2, <2>2, <2>3, <2>4 DEF LockAwaited, s
<1>3. ASSUME NEW p, BusyAnswered(p)
      PROVE  RunnerInv'
  <2> DEFINE s == Without(p)
  <2>1. Store(s) /\ Fit(s.queue, S)
    BY <1>0, NowFits
  <2>2. Store(Changed(s)) /\ Fit(Changed(s).queue, S)
    BY <2>1, PumpFits
  <2>3. Store(ActiveDone(Changed(s))) /\ Fit(ActiveDone(Changed(s)).queue, S)
    BY <2>2, PumpFits
  <2>4. Fit(Pumped(ActiveDone(Changed(s))).queue, S)
    BY <2>3, PumpFits
  <2>5. /\ uqueue' = Pumped(ActiveDone(Changed(s))).queue
        /\ UNCHANGED <<useen, gen, runs, performed, foreign>>
    BY <1>3 DEF BusyAnswered, Becomes, history
  <2> QED
    BY <2>4, <2>5, SameRuns
<1>4. ASSUME NEW r \in runs, Perform(r)
      PROVE  RunnerInv'
  <2>1. r \in Execution /\ r.gen = gen /\ r.pc = "move" /\ performed[r.act] = 0 /\ r.act \in Action
    BY <1>4 DEF Perform, MayAct, Stale, RunnerInv, Execution
  <2> DEFINE y == [r EXCEPT !.pc = "reply"]
  <2>2. y \in Execution /\ y.act = r.act /\ y.gen = gen /\ y.pc = "reply"
    BY <2>1 DEF Execution
  <2>3. /\ runs' = (runs \ {r}) \cup {y} /\ UNCHANGED <<uqueue, useen, gen>>
        /\ performed' = [performed EXCEPT ![r.act] = @ + 1]
    BY <1>4 DEF Perform, Moves
  <2> HIDE DEF y
  <2>4. /\ performed' \in [Action -> Nat] /\ performed'[r.act] = 1
        /\ \A a \in Action : a # r.act => performed'[a] = performed[a]
    BY <2>1, <2>3 DEF RunnerInv
  <2>5. Taken' = Taken
    BY <1>4, <2>1, <2>2, <2>3, <2>4 DEF Taken, Current
  <2>6. foreign' = FALSE
    <3>1. foreign' = (foreign \/ Stale(r)) /\ ~Stale(r) /\ foreign = FALSE
      BY <1>4 DEF Perform, MayAct, RunnerInv
    <3> QED
      BY <3>1
  <2>7. \A q \in runs : q.gen = gen /\ q.act = r.act => q = r
    BY <2>1 DEF RunnerInv
  <2>8. \A q \in runs' : q.gen = gen' /\ q.pc = "move" => performed'[q.act] = 0
    <3> SUFFICES ASSUME NEW q \in runs', q.gen = gen, q.pc = "move" PROVE performed'[q.act] = 0
      BY <2>3
    <3>1. q \in runs /\ q # r /\ q.act \in Action
      BY <2>2, <2>3 DEF RunnerInv, Execution
    <3> QED
      BY <2>4, <2>7, <3>1 DEF RunnerInv
  <2>9. \A q, z \in runs' : q.gen = gen' /\ z.gen = gen' /\ q.act = z.act => q = z
    BY <2>2, <2>3, <2>7 DEF RunnerInv
  <2>10. \A a \in Action : performed'[a] \in {0, 1}
    BY <2>4 DEF RunnerInv
  <2> QED
    BY <2>1, <2>2, <2>3, <2>4, <2>5, <2>6, <2>8, <2>9, <2>10 DEF RunnerInv
<1>5. ASSUME NEW r \in runs, CannotPerform(r)
      PROVE  RunnerInv'
  <2>1. /\ \E pc \in {"refuse", "over"} : runs' = (runs \ {r}) \cup {[r EXCEPT !.pc = pc]}
        /\ UNCHANGED <<uqueue, useen, gen, performed, foreign>>
    BY <1>5 DEF CannotPerform, Moves, history
  <2> QED
    BY <1>0, <2>1, FewerRuns
<1>6. ASSUME NEW r \in runs, Reply(r)
      PROVE  RunnerInv'
  <2>1. foreign' = foreign
    <3>1. foreign' = (foreign \/ (MayAct(r) /\ Stale(r))) /\ foreign = FALSE
      BY <1>6 DEF Reply, RunnerInv
    <3>2. ~(MayAct(r) /\ Stale(r))
      BY DEF MayAct
    <3> QED
      BY <3>1, <3>2
  <2>2. Fit(Changed(Now).queue, S)
    BY <1>0, NowFits, PumpFits
  <2>3. uqueue' = uqueue \/ uqueue' = Changed(Now).queue
    BY <1>6 DEF Reply, Becomes
  <2>4. runs' = (runs \ {r}) \cup {[r EXCEPT !.pc = "over"]} /\ UNCHANGED <<useen, gen, performed>>
    BY <1>6 DEF Reply, Moves
  <2> QED
    BY <1>0, <2>1, <2>2, <2>3, <2>4, FewerRuns
<1>7. ASSUME NEW r \in runs, ExecutionOver(r)
      PROVE  RunnerInv'
  <2>1. uqueue' = uqueue \/ \E p : uqueue' = Resumed(Without(p)).queue
    BY <1>7 DEF ExecutionOver, Becomes
  <2>2. \A p : Fit(Resumed(Without(p)).queue, S)
    BY <1>0, NowFits, PumpFits
  <2>3. runs' = (runs \ {r}) \cup {} /\ UNCHANGED <<useen, gen, performed, foreign>>
    BY <1>7 DEF ExecutionOver, history
  <2> QED
    BY <1>0, <2>1, <2>2, <2>3, FewerRuns
<1>8. ASSUME NEW r \in runs, Watchdog(r)
      PROVE  RunnerInv'
  <2>1. \E p : uqueue' = Resumed(Changed(Without(p))).queue
    BY <1>8 DEF Watchdog, Becomes
  <2>2. ASSUME NEW p PROVE Fit(Resumed(Changed(Without(p))).queue, S)
    <3>1. Store(Changed(Without(p))) /\ Fit(Changed(Without(p)).queue, S)
      BY <1>0, NowFits, PumpFits
    <3> QED
      BY <3>1, PumpFits
  <2>3. runs' = (runs \ {r}) \cup {[r EXCEPT !.late = TRUE]} /\ UNCHANGED <<useen, gen, performed, foreign>>
    BY <1>8 DEF Watchdog, history
  <2> QED
    BY <2>1, <2>2, <2>3, FewerRuns
<1>9. CASE AuthChanges
  <2>1. /\ gen' = gen + 1 /\ uqueue' = <<>> /\ useen' = {} /\ runs' \subseteq runs /\ foreign' = foreign
        /\ performed' = [a \in Action |-> 0] /\ gen \in Nat
    BY <1>9 DEF AuthChanges, RunnerInv
  <2>2. \A r \in runs' : r.gen < gen' /\ r.gen \in Nat
    BY <2>1 DEF RunnerInv, Execution
  <2>3. Taken' = {}
    BY <2>1, <2>2 DEF Taken, Current
  <2>4. Fit(uqueue', {})
    BY <2>1 DEF Fit
  <2> QED
    BY <2>1, <2>2, <2>3, <2>4 DEF RunnerInv
<1>10. CASE Escape \/ TabLock \/ UNCHANGED rvars
  <2>1. UNCHANGED <<uqueue, useen, gen, runs, performed, foreign>>
    BY <1>10 DEF Escape, TabLock, rvars, history
  <2> QED
    BY <1>0, <2>1, SameRuns
<1> QED
  BY <1>1, <1>2, <1>3, <1>4, <1>5, <1>6, <1>7, <1>8, <1>9, <1>10 DEF RNext, Goes

LEMMA RunnerInit == RInit => RunnerInv
<1> SUFFICES ASSUME RInit PROVE RunnerInv
  OBVIOUS
<1>1. Taken = {}
  BY DEF RInit, Taken, Current
<1>2. Fit(<<>>, {})
  BY DEF Fit
<1> QED
  BY <1>1, <1>2 DEF RInit, RunnerInv

LEMMA RunnerImply == RunnerInv => RunOnce
BY DEF RunnerInv, RunOnce

(* An action is carried out once, however often and by whichever pump it was    *)
(* taken up, and never for an identity that has gone (runner.ts).               *)
THEOREM CarriedOutOnce == RSpec => []RunOnce
BY RunnerInit, RunnerStep, RunnerImply, PTL DEF RSpec

-----------------------------------------------------------------------------
(* The page of ChatPage.                                                       *)

(* The tasks t: a done event is the last of its log.                           *)
TaskShape(x) == /\ x \in [chat : {x.chat}, text : {x.text}, log : {x.log}, status : {x.status}]
                /\ x.log \in Seq({"text", "ui", "done"})
                /\ \A i \in 1 .. Len(x.log) : x.log[i] = "done" => i = Len(x.log)
Tasks(t) == (\E S : t \in Seq(S)) /\ \A r \in 1 .. Len(t) : TaskShape(t[r])
OfChat(t, c, r) == r \in 1 .. Len(t) /\ t[r].chat = c
(* Later tasks: more of them, and longer logs.                                 *)
Grown(t, u) == /\ Len(t) <= Len(u)
               /\ \A r \in 1 .. Len(t) :
                     /\ u[r].chat = t[r].chat /\ Len(t[r].log) <= Len(u[r].log)
                     /\ \A i \in 1 .. Len(t[r].log) : u[r].log[i] = t[r].log[i]

StopShape(s) == s \in [pc : {s.pc}, chat : {s.chat}, current : {s.current}, task : {s.task}, next : {s.next}]
Shape(p) ==
    /\ p \in [chat : {p.chat}, run : {p.run}, conn : {p.conn}, flush : {p.flush}, shown : {p.shown},
              queue : {p.queue}, view : {p.view}, loads : {p.loads}, rec : {p.rec}, stops : {p.stops},
              stray : {p.stray}]
    /\ p.run \in [id : {p.run.id}, status : {p.run.status}]
    /\ p.conn \in [pc : {p.conn.pc}, text : {p.conn.text}, task : {p.conn.task},
                   cursor : {p.conn.cursor}, replay : {p.conn.replay}]
    /\ p.rec \in [pc : {p.rec.pc}, current : {p.rec.current}, info : {p.rec.info}]
    /\ p.rec.info \in [id : {p.rec.info.id}, status : {p.rec.info.status}]
    /\ \A s \in p.stops : StopShape(s)

(* What the page refers to is of the session it shows.                         *)
RefOf(t, c, ref) == ref = NoRef \/ OfChat(t, c, ref.id)
StopsOf(t, c, stops) == \A s \in stops : s.current =>
    s.chat = c /\ (s.pc = "stop" => OfChat(t, c, s.task))
RecOf(t, c, rec) == rec.pc # "idle" => OfChat(t, c, rec.info.id)
(* What is shown is the log of a task so far.                                  *)
ShownOf(t, c, shown) ==
    /\ shown.events \in Seq(Nat)
    /\ shown.task = 0 => shown.events = <<>>
    /\ shown.task # 0 => /\ OfChat(t, c, shown.task)
                         /\ \E n \in 0 .. Len(t[shown.task].log) : Gives(shown.events, t[shown.task].log, n)
(* Of an open connection it is the log up to the cursor; before there is one    *)
(* nothing is shown yet.                                                       *)
ConnOf(t, c, conn, run, shown) ==
    /\ conn.pc \in {"watch", "first", "open", "over"} => OfChat(t, c, conn.task)
    /\ conn.pc \in {"post", "resume", "watch", "first"} => shown.task = 0 /\ conn.cursor = 0
    /\ conn.pc = "open" =>
          /\ run.id = conn.task /\ conn.cursor \in 0 .. Len(t[conn.task].log)
          /\ \/ shown.task = 0 /\ (conn.cursor = 0 \/ t[conn.task].log[conn.cursor] = "done")
             \/ shown.task = conn.task /\ Gives(shown.events, t[conn.task].log, conn.cursor)

PageOf(t, p) == /\ Shape(p) /\ RefOf(t, p.chat, p.run) /\ StopsOf(t, p.chat, p.stops)
                /\ RecOf(t, p.chat, p.rec) /\ ShownOf(t, p.chat, p.shown)
                /\ ConnOf(t, p.chat, p.conn, p.run, p.shown)

(* Actions were handed out once, and those of the task that is connected do    *)
(* not come again.                                                             *)
ActedOf(t, conn, done) ==
    /\ done.twice = FALSE
    /\ \A x \in done.once : x[1] \in 1 .. Len(t) /\ x[2] \in 1 .. Len(t[x[1]].log)
    /\ conn.pc \in {"first", "open"} =>
          /\ conn.cursor \in Nat /\ conn.replay \in Nat
          /\ \A i \in Nat : <<conn.task, i>> \in done.once => i <= conn.cursor \/ i <= conn.replay

PageInv == Tasks(task) /\ PageOf(task, tab) /\ ActedOf(task, tab.conn, acted)

(* What a function of the page leaves of its connection.                       *)
Apart(p, q) == q.conn = p.conn \/ q.conn.pc \notin {"first", "open"}

LEMMA TasksAre ==
  ASSUME NEW t, Tasks(t)
  PROVE  /\ Len(t) \in Nat /\ DOMAIN t = 1 .. Len(t)
         /\ \A r \in 1 .. Len(t) : t[r].log \in Seq({"text", "ui", "done"}) /\ Len(t[r].log) \in Nat
<1>1. PICK S : t \in Seq(S)
  BY DEF Tasks
<1>2. Len(t) \in Nat /\ DOMAIN t = 1 .. Len(t)
  BY <1>1
<1>3. \A r \in 1 .. Len(t) : t[r].log \in Seq({"text", "ui", "done"})
  BY DEF Tasks, TaskShape
<1> QED
  BY <1>2, <1>3, LenProperties

-----------------------------------------------------------------------------
LEMMA GivesNext ==
  ASSUME NEW log, NEW e \in Seq(Nat), NEW n \in Nat, Gives(e, log, n)
  PROVE  /\ log[n + 1] = "text" => Gives(Append(e, n + 1), log, n + 1)
         /\ log[n + 1] # "text" => Gives(e, log, n + 1)
<1>1. Len(e) \in Nat /\ DOMAIN e = 1 .. Len(e) /\ \A i \in 1 .. Len(e) : e[i] \in Nat
  OBVIOUS
<1>2. /\ \A i, j \in 1 .. Len(e) : i < j => e[i] < e[j]
      /\ {e[i] : i \in 1 .. Len(e)} = {i \in 1 .. n : log[i] = "text"}
  BY <1>1 DEF Gives
<1>3. \A i \in 1 .. Len(e) : e[i] \in 1 .. n
  BY <1>2
<1>4. ASSUME log[n + 1] = "text" PROVE Gives(Append(e, n + 1), log, n + 1)
  <2> DEFINE f == Append(e, n + 1)
  <2>1. /\ DOMAIN f = 1 .. Len(e) + 1 /\ f[Len(e) + 1] = n + 1
        /\ \A i \in 1 .. Len(e) : f[i] = e[i]
    BY <1>1
  <2> HIDE DEF f
  <2>2. \A i, j \in 1 .. Len(e) + 1 : i < j => f[i] < f[j]
    <3> SUFFICES ASSUME NEW i \in 1 .. Len(e) + 1, NEW j \in 1 .. Len(e) + 1, i < j PROVE f[i] < f[j]
      OBVIOUS
    <3>1. i \in 1 .. Len(e) /\ f[i] = e[i] /\ e[i] \in 1 .. n
      BY <1>1, <1>3, <2>1
    <3>2. CASE j \in 1 .. Len(e)
      BY <1>2, <2>1, <3>1, <3>2
    <3>3. CASE j = Len(e) + 1
      BY <2>1, <3>1, <3>3
    <3> QED
      BY <1>1, <3>2, <3>3
  <2>3. {f[i] : i \in 1 .. Len(e) + 1} = {i \in 1 .. n + 1 : log[i] = "text"}
    <3>1. {f[i] : i \in 1 .. Len(e) + 1} = {e[i] : i \in 1 .. Len(e)} \cup {n + 1}
      <4>1. 1 .. Len(e) + 1 = (1 .. Len(e)) \cup {Len(e) + 1}
        BY <1>1
      <4> QED
        BY <2>1, <4>1
    <3>2. {i \in 1 .. n + 1 : log[i] = "text"} = {i \in 1 .. n : log[i] = "text"} \cup {n + 1}
      BY <1>4
    <3> QED
      BY <1>2, <3>1, <3>2
  <2> QED
    BY <2>1, <2>2, <2>3 DEF Gives, f
<1>5. ASSUME log[n + 1] # "text" PROVE Gives(e, log, n + 1)
  <2>1. {i \in 1 .. n + 1 : log[i] = "text"} = {i \in 1 .. n : log[i] = "text"}
    BY <1>5
  <2> QED
    BY <2>1 DEF Gives
<1> QED
  BY <1>4, <1>5

LEMMA GivesNothing == ASSUME NEW log PROVE Gives(<<>>, log, 0)
BY DEF Gives

LEMMA GivesLater ==
  ASSUME NEW e, NEW log, NEW more, NEW n \in Nat, Len(log) \in Nat, n <= Len(log),
         \A i \in 1 .. Len(log) : more[i] = log[i], Gives(e, log, n)
  PROVE  Gives(e, more, n)
<1>1. {i \in 1 .. n : more[i] = "text"} = {i \in 1 .. n : log[i] = "text"}
  OBVIOUS
<1> QED
  BY <1>1 DEF Gives

(* What is true of the page stays so while tasks go on.                        *)
LEMMA PageLater ==
  ASSUME NEW t, NEW u, Tasks(t), Tasks(u), Grown(t, u), NEW p, PageOf(t, p)
  PROVE  PageOf(u, p)
<1>1. /\ Len(t) \in Nat /\ Len(u) \in Nat /\ Len(t) <= Len(u)
      /\ \A r \in 1 .. Len(t) : Len(t[r].log) \in Nat /\ Len(u[r].log) \in Nat
  BY TasksAre DEF Grown
<1>2. \A c, r : OfChat(t, c, r) => OfChat(u, c, r)
  BY <1>1 DEF OfChat, Grown
<1>3. ASSUME NEW r \in 1 .. Len(t), NEW n \in 0 .. Len(t[r].log)
      PROVE  /\ n \in 0 .. Len(u[r].log)
             /\ n # 0 => u[r].log[n] = t[r].log[n]
             /\ \A e : Gives(e, t[r].log, n) => Gives(e, u[r].log, n)
  <2>1. /\ Len(t[r].log) \in Nat /\ Len(t[r].log) <= Len(u[r].log) /\ n \in Nat /\ n <= Len(t[r].log)
        /\ \A i \in 1 .. Len(t[r].log) : u[r].log[i] = t[r].log[i]
    BY <1>1 DEF Grown
  <2> QED
    BY <1>1, <2>1, GivesLater
<1>4. ShownOf(u, p.chat, p.shown)
  <2>1. ShownOf(t, p.chat, p.shown)
    BY DEF PageOf
  <2>2. ASSUME p.shown.task # 0
        PROVE  /\ OfChat(u, p.chat, p.shown.task)
               /\ \E n \in 0 .. Len(u[p.shown.task].log) : Gives(p.shown.events, u[p.shown.task].log, n)
    <3>1. p.shown.task \in 1 .. Len(t)
      BY <2>1, <2>2 DEF ShownOf, OfChat
    <3>2. PICK n \in 0 .. Len(t[p.shown.task].log) : Gives(p.shown.events, t[p.shown.task].log, n)
      BY <2>1, <2>2 DEF ShownOf
    <3>3. Gives(p.shown.events, u[p.shown.task].log, n) /\ n \in 0 .. Len(u[p.shown.task].log)
      BY <1>3, <3>1, <3>2
    <3>4. OfChat(u, p.chat, p.shown.task)
      BY <1>2, <2>1, <2>2 DEF ShownOf
    <3> QED
      BY <3>3, <3>4
  <2> QED
    BY <2>1, <2>2 DEF ShownOf
<1>5. ConnOf(u, p.chat, p.conn, p.run, p.shown)
  <2>1. ConnOf(t, p.chat, p.conn, p.run, p.shown)
    BY DEF PageOf
  <2>2. CASE p.conn.pc = "open"
    <3>1. p.conn.task \in 1 .. Len(t) /\ p.conn.cursor \in 0 .. Len(t[p.conn.task].log)
      BY <2>1, <2>2 DEF ConnOf, OfChat
    <3> QED
      BY <1>2, <1>3, <2>1, <2>2, <3>1 DEF ConnOf
  <2>3. CASE p.conn.pc # "open"
    BY <1>2, <2>1, <2>3 DEF ConnOf
  <2> QED
    BY <2>2, <2>3
<1>6. RefOf(u, p.chat, p.run) /\ StopsOf(u, p.chat, p.stops) /\ RecOf(u, p.chat, p.rec)
  BY <1>2 DEF PageOf, RefOf, StopsOf, RecOf
<1> QED
  BY <1>4, <1>5, <1>6 DEF PageOf

LEMMA ActedLater ==
  ASSUME NEW t, NEW u, Tasks(t), Tasks(u), Grown(t, u), NEW conn, NEW done, ActedOf(t, conn, done)
  PROVE  ActedOf(u, conn, done)
<1>1. /\ Len(t) \in Nat /\ Len(u) \in Nat /\ Len(t) <= Len(u)
      /\ \A r \in 1 .. Len(t) : Len(t[r].log) \in Nat /\ Len(u[r].log) \in Nat /\ Len(t[r].log) <= Len(u[r].log)
  BY TasksAre DEF Grown
<1>2. ASSUME NEW x \in done.once
      PROVE  x[1] \in 1 .. Len(u) /\ x[2] \in 1 .. Len(u[x[1]].log)
  <2>1. x[1] \in 1 .. Len(t) /\ x[2] \in 1 .. Len(t[x[1]].log)
    BY DEF ActedOf
  <2>2. Len(t[x[1]].log) \in Nat /\ Len(u[x[1]].log) \in Nat /\ Len(t[x[1]].log) <= Len(u[x[1]].log)
    BY <1>1, <2>1
  <2>3. x[1] \in 1 .. Len(u)
    BY <1>1, <2>1
  <2>4. ASSUME NEW k, k \in 1 .. Len(t[x[1]].log) PROVE k \in 1 .. Len(u[x[1]].log)
    BY <2>2, <2>4
  <2> QED
    BY <2>1, <2>3, <2>4
<1> QED
  BY <1>2 DEF ActedOf

LEMMA ActedApart ==
  ASSUME NEW t, NEW p, NEW q, NEW done, ActedOf(t, p.conn, done), Apart(p, q)
  PROVE  ActedOf(t, q.conn, done)
BY DEF ActedOf, Apart
-----------------------------------------------------------------------------
(* The functions of the hook.                                                  *)

(* A page that refers to no more than another, connected to nothing.           *)
LEMMA PageOff ==
  ASSUME NEW t, NEW p, PageOf(t, p), NEW q, Shape(q), q.chat = p.chat, RefOf(t, q.chat, q.run),
         StopsOf(t, q.chat, q.stops), q.rec.pc = "idle" \/ (q.rec.info = p.rec.info /\ p.rec.pc # "idle"),
         q.shown = p.shown \/ (q.shown.task = 0 /\ q.shown.events = <<>>),
         q.conn.pc \in {"none", "over"} \/ (q.conn.pc \in {"post", "resume"} /\ q.shown.task = 0 /\ q.conn.cursor = 0),
         q.conn.pc = "over" => OfChat(t, q.chat, q.conn.task)
  PROVE  PageOf(t, q) /\ Apart(p, q)
<1>1. RecOf(t, q.chat, q.rec)
  BY DEF PageOf, RecOf
<1>2. ShownOf(t, q.chat, q.shown)
  <2>1. <<>> \in Seq(Nat)
    OBVIOUS
  <2> QED
    BY <2>1 DEF PageOf, ShownOf
<1>3. ConnOf(t, q.chat, q.conn, q.run, q.shown)
  BY DEF ConnOf
<1> QED
  BY <1>1, <1>2, <1>3 DEF PageOf, Apart

(* The page after a function, a field at a time.                               *)
Field(p) == p \in [chat : {p.chat}, run : {p.run}, conn : {p.conn}, flush : {p.flush}, shown : {p.shown},
                   queue : {p.queue}, view : {p.view}, loads : {p.loads}, rec : {p.rec}, stops : {p.stops},
                   stray : {p.stray}]

LEMMA CutIs ==
  ASSUME NEW p, Shape(p)
  PROVE  /\ Shape(Cut(p)) /\ Cut(p).chat = p.chat /\ Cut(p).run = p.run /\ Cut(p).conn = NoConn
         /\ Cut(p).shown = p.shown /\ Cut(p).rec.pc = p.rec.pc /\ Cut(p).rec.info = p.rec.info
         /\ Cut(p).queue = p.queue /\ \A s \in Cut(p).stops : ~s.current
<1> DEFINE q == Cut(p)
<1>0. Field(p)
  BY DEF Shape, Field
<1>1. /\ q.chat = p.chat /\ q.run = p.run /\ q.conn = NoConn /\ q.shown = p.shown /\ q.queue = p.queue
      /\ q.rec = [p.rec EXCEPT !.current = FALSE] /\ q.stops = {[s EXCEPT !.current = FALSE] : s \in p.stops}
      /\ Field(q)
  BY <1>0 DEF Cut, Field
<1> HIDE DEF q
<1>2. \A s \in q.stops : StopShape(s) /\ s.current = FALSE
  BY <1>1 DEF Shape, StopShape
<1>3. /\ q.rec \in [pc : {q.rec.pc}, current : {q.rec.current}, info : {q.rec.info}]
      /\ q.rec.pc = p.rec.pc /\ q.rec.info = p.rec.info
      /\ q.rec.info \in [id : {q.rec.info.id}, status : {q.rec.info.status}]
  BY <1>1 DEF Shape
<1>4. q.conn \in [pc : {q.conn.pc}, text : {q.conn.text}, task : {q.conn.task},
                  cursor : {q.conn.cursor}, replay : {q.conn.replay}]
  BY <1>1 DEF NoConn
<1>5. q.run \in [id : {q.run.id}, status : {q.run.status}]
  BY <1>1 DEF Shape
<1>6. Shape(q)
  BY <1>1, <1>2, <1>3, <1>4, <1>5 DEF Shape, Field
<1> QED
  BY <1>1, <1>2, <1>3, <1>6 DEF q

LEMMA BeginTurnIs ==
  ASSUME NEW t, NEW p, PageOf(t, p), NEW flush
  PROVE  LET q == BeginTurn(p, flush)
         IN  /\ PageOf(t, q) /\ Apart(p, q) /\ q.chat = p.chat /\ q.conn = NoConn /\ q.run = NoRef
             /\ q.shown.task = 0 /\ q.shown.events = <<>> /\ q.rec.pc = p.rec.pc /\ q.rec.info = p.rec.info
             /\ q.queue = p.queue
<1> DEFINE c == Cut(p)
           q == BeginTurn(p, flush)
<1>1. /\ Shape(c) /\ c.chat = p.chat /\ c.conn = NoConn /\ c.rec.pc = p.rec.pc /\ c.rec.info = p.rec.info
      /\ c.queue = p.queue /\ \A s \in c.stops : ~s.current
  BY CutIs DEF PageOf
<1>2. q = [c EXCEPT !.run = NoRef, !.flush = flush, !.shown = [Blank EXCEPT !.on = TRUE]]
  BY DEF BeginTurn
<1> HIDE DEF c, q
<1>3. /\ q.chat = c.chat /\ q.run = NoRef /\ q.conn = c.conn /\ q.shown = [Blank EXCEPT !.on = TRUE]
      /\ q.queue = c.queue /\ q.rec = c.rec /\ q.stops = c.stops /\ Field(q)
  BY <1>1, <1>2 DEF Shape, Field
<1>4. q.shown.task = 0 /\ q.shown.events = <<>>
  BY <1>3 DEF Blank
<1>5. Shape(q)
  BY <1>1, <1>3 DEF Shape, Field, NoRef
<1>6. PageOf(t, q) /\ Apart(p, q)
  <2>1. RefOf(t, q.chat, q.run) /\ StopsOf(t, q.chat, q.stops)
    BY <1>1, <1>3 DEF RefOf, StopsOf
  <2>2. q.conn.pc = "none"
    BY <1>1, <1>3 DEF NoConn
  <2>3. q.chat = p.chat /\ (q.rec.pc = "idle" \/ (q.rec.info = p.rec.info /\ p.rec.pc # "idle"))
    BY <1>1, <1>3
  <2> QED
    BY <1>4, <1>5, <2>1, <2>2, <2>3, PageOff
<1> QED
  BY <1>1, <1>3, <1>4, <1>6 DEF q

LEMMA DetachedIs ==
  ASSUME NEW t, NEW p, PageOf(t, p)
  PROVE  LET q == Detached(p)
         IN  /\ PageOf(t, q) /\ Apart(p, q) /\ q.chat = p.chat /\ q.conn = NoConn /\ q.run = NoRef
             /\ q.shown = Blank /\ q.rec.pc = p.rec.pc /\ q.rec.info = p.rec.info
             /\ \A s \in q.stops : ~s.current
<1> DEFINE c == Cut(p)
           q == Detached(p)
<1>1. /\ Shape(c) /\ c.chat = p.chat /\ c.conn = NoConn /\ c.rec.pc = p.rec.pc /\ c.rec.info = p.rec.info
      /\ \A s \in c.stops : ~s.current
  BY CutIs DEF PageOf
<1>2. q = [c EXCEPT !.run = NoRef, !.shown = Blank]
  BY DEF Detached
<1> HIDE DEF c, q
<1>3. /\ q.chat = c.chat /\ q.run = NoRef /\ q.conn = c.conn /\ q.shown = Blank
      /\ q.rec = c.rec /\ q.stops = c.stops /\ Field(q)
  BY <1>1, <1>2 DEF Shape, Field
<1>4. q.shown.task = 0 /\ q.shown.events = <<>>
  BY <1>3 DEF Blank
<1>5. Shape(q)
  BY <1>1, <1>3 DEF Shape, Field, NoRef
<1>6. PageOf(t, q) /\ Apart(p, q)
  <2>1. RefOf(t, q.chat, q.run) /\ StopsOf(t, q.chat, q.stops)
    BY <1>1, <1>3 DEF RefOf, StopsOf
  <2>2. q.conn.pc = "none"
    BY <1>1, <1>3 DEF NoConn
  <2>3. q.chat = p.chat /\ (q.rec.pc = "idle" \/ (q.rec.info = p.rec.info /\ p.rec.pc # "idle"))
    BY <1>1, <1>3
  <2> QED
    BY <1>4, <1>5, <2>1, <2>2, <2>3, PageOff
<1> QED
  BY <1>1, <1>3, <1>6 DEF q

(* What a change of the messages, the loads, the queue or of a flag leaves.    *)
Alike(p, q) == /\ q.chat = p.chat /\ q.run = p.run /\ q.conn = p.conn /\ q.shown = p.shown
               /\ q.rec = p.rec /\ q.stops = p.stops
LEMMA AlikeIs ==
  ASSUME NEW t, NEW p, PageOf(t, p), NEW q, Alike(p, q), Field(q)
  PROVE  PageOf(t, q) /\ Apart(p, q)
BY DEF PageOf, Alike, Field, Shape, Apart

LEMMA AddedIs ==
  ASSUME NEW p, Field(p), NEW item PROVE Alike(p, Added(p, item)) /\ Field(Added(p, item)) /\ Added(p, item).flush = p.flush
BY DEF Added, Alike, Field

LEMMA AskedIs ==
  ASSUME NEW p, Field(p), NEW by, NEW next
  PROVE  Alike(p, Asked(p, by, next)) /\ Field(Asked(p, by, next))
BY DEF Asked, Alike, Field

LEMMA SendIs ==
  ASSUME NEW t, NEW p, PageOf(t, p), NEW m
  PROVE  PageOf(t, HandleSend(p, m)) /\ Apart(p, HandleSend(p, m))
<1> DEFINE a == Added(p, <<"user", m>>)
           yes == TRUE
           b == BeginTurn(a, yes)
           q == HandleSend(p, m)
<1>1. PageOf(t, a) /\ Apart(p, a)
  BY AddedIs, AlikeIs DEF PageOf, Shape, Field
<1> HIDE DEF a, yes
<1>2. /\ PageOf(t, b) /\ b.shown.task = 0 /\ b.shown.events = <<>>
  BY <1>1, BeginTurnIs
<1>3. q = [b EXCEPT !.conn = [NoConn EXCEPT !.pc = "post", !.text = m]]
  BY DEF HandleSend, a, yes
<1> HIDE DEF b, q
<1>4. /\ q.chat = b.chat /\ q.run = b.run /\ q.shown = b.shown /\ q.rec = b.rec /\ q.stops = b.stops
      /\ q.conn = [NoConn EXCEPT !.pc = "post", !.text = m] /\ Field(q)
  BY <1>2, <1>3 DEF PageOf, Shape, Field
<1>5. q.conn.pc = "post" /\ q.conn.cursor = 0
  BY <1>4 DEF NoConn
<1>6. Shape(q)
  BY <1>2, <1>4 DEF Shape, PageOf, Field, NoConn
<1>7. PageOf(t, q)
  <2>1. RefOf(t, q.chat, q.run) /\ StopsOf(t, q.chat, q.stops) /\ RecOf(t, q.chat, q.rec) /\ ShownOf(t, q.chat, q.shown)
    BY <1>2, <1>4 DEF PageOf
  <2>2. ConnOf(t, q.chat, q.conn, q.run, q.shown)
    BY <1>2, <1>4, <1>5 DEF ConnOf
  <2> QED
    BY <1>6, <2>1, <2>2 DEF PageOf
<1> QED
  BY <1>5, <1>7 DEF Apart, q

LEMMA FlushIs ==
  ASSUME NEW t, NEW p, PageOf(t, p)
  PROVE  PageOf(t, FlushNext(p)) /\ Apart(p, FlushNext(p))
<1>1. CASE p.queue = <<>>
  BY <1>1 DEF FlushNext, Apart
<1>2. CASE p.queue # <<>>
  <2> DEFINE a == [p EXCEPT !.queue = Tail(@)]
  <2>1. Alike(p, a) /\ Field(a)
    BY DEF Alike, Field, PageOf, Shape
  <2>2. PageOf(t, a) /\ Apart(p, a)
    BY <2>1, AlikeIs
  <2>3. FlushNext(p) = HandleSend(a, Head(p.queue))
    BY <1>2 DEF FlushNext
  <2> HIDE DEF a
  <2>4. PageOf(t, HandleSend(a, Head(p.queue))) /\ Apart(a, HandleSend(a, Head(p.queue)))
    BY <2>2, SendIs
  <2> QED
    BY <2>2, <2>3, <2>4 DEF Apart
<1> QED
  BY <1>1, <1>2

LEMMA StoppedIs ==
  ASSUME NEW t, NEW p, PageOf(t, p), NEW s, NEW ref, ref \in [id : {ref.id}, status : {ref.status}],
         s.current => RefOf(t, p.chat, ref)
  PROVE  PageOf(t, Stopped(p, s, ref)) /\ Apart(p, Stopped(p, s, ref))
<1>1. CASE ~s.current
  BY <1>1 DEF Stopped, Apart
<1>2. CASE s.current
  <2> DEFINE d == Detached(p)
             a == [d EXCEPT !.run = ref]
             q == Asked(a, "stop", s.next)
  <2>1. /\ PageOf(t, d) /\ d.chat = p.chat /\ d.conn = NoConn /\ d.shown = Blank
    BY DetachedIs
  <2> HIDE DEF d
  <2>2. /\ a.chat = d.chat /\ a.run = ref /\ a.conn = d.conn /\ a.shown = d.shown /\ a.rec = d.rec
        /\ a.stops = d.stops /\ Field(a)
    BY <2>1 DEF PageOf, Shape, Field
  <2> HIDE DEF a
  <2>3. Shape(a)
    BY <2>1, <2>2 DEF PageOf, Shape, Field
  <2>4. a.conn.pc = "none"
    BY <2>1, <2>2 DEF NoConn
  <2>5. PageOf(t, a)
    <3>1. RefOf(t, a.chat, a.run) /\ StopsOf(t, a.chat, a.stops) /\ RecOf(t, a.chat, a.rec)
          /\ ShownOf(t, a.chat, a.shown)
      BY <1>2, <2>1, <2>2 DEF PageOf
    <3>2. ConnOf(t, a.chat, a.conn, a.run, a.shown)
      BY <2>4 DEF ConnOf
    <3> QED
      BY <2>3, <3>1, <3>2 DEF PageOf
  <2>6. PageOf(t, q) /\ q.conn = a.conn
    BY <2>2, <2>5, AskedIs, AlikeIs DEF Alike
  <2>7. Stopped(p, s, ref) = q
    BY <1>2 DEF Stopped, a, d
  <2> QED
    BY <2>4, <2>6, <2>7 DEF Apart
<1> QED
  BY <1>1, <1>2

LEMMA LargestIs ==
  ASSUME NEW n \in Nat, NEW T \in SUBSET (1 .. n), T # {}
  PROVE  \E k \in T : \A q \in T : q <= k
<1> DEFINE U == {n - k : k \in T}
           R == OpToRel(<, Nat)
<1>1. U \in SUBSET Nat /\ U # {}
  <2>1. \A k \in T : n - k \in Nat
    OBVIOUS
  <2> QED
    BY <2>1
<1>2. IsWellFoundedOn(R, Nat)
  BY NatLessThanWellFounded
<1>3. \A a, b \in Nat : a < b => <<a, b>> \in R
  BY DEF OpToRel
<1>7. \A q \in T : n - q \in U
  OBVIOUS
<1>8. \A u \in U : \E k \in T : u = n - k
  OBVIOUS
<1> HIDE DEF R, U
<1>4. PICK u \in U : \A v \in U : <<v, u>> \notin R
  BY <1>1, <1>2, WFMin
<1>5. \A v \in U : ~(v < u)
  BY <1>1, <1>3, <1>4
<1>6. PICK k \in T : u = n - k
  BY <1>4, <1>8
<1> QED
  BY <1>5, <1>6, <1>7

LEMMA LatestIs ==
  ASSUME NEW c, Tasks(task)
  PROVE  /\ RefOf(task, c, Latest(c)) /\ Latest(c) \in [id : {Latest(c).id}, status : {Latest(c).status}]
         /\ \A r : OfChat(task, c, r) => OfChat(task, c, Latest(c).id)
<1>0. Len(task) \in Nat /\ DOMAIN task = 1 .. Len(task)
  BY TasksAre
<1>1. CASE TasksOf(c) = {}
  BY <1>0, <1>1 DEF Latest, RefOf, NoRef, OfChat, TasksOf
<1>2. CASE TasksOf(c) # {}
  <2> DEFINE r == CHOOSE r \in TasksOf(c) : \A q \in TasksOf(c) : q <= r
  <2>1. TasksOf(c) \subseteq 1 .. Len(task)
    BY <1>0 DEF TasksOf
  <2>2. \E k \in TasksOf(c) : \A q \in TasksOf(c) : q <= k
    BY <1>0, <1>2, <2>1, LargestIs
  <2>3. r \in TasksOf(c)
    BY <2>2
  <2>4. Latest(c) = [id |-> r, status |-> task[r].status]
    BY <1>2 DEF Latest
  <2> HIDE DEF r
  <2> QED
    BY <1>0, <2>3, <2>4 DEF RefOf, OfChat, TasksOf
<1> QED
  BY <1>1, <1>2

-----------------------------------------------------------------------------
(* The steps.                                                                  *)

(* A step of the page alone.                                                   *)
LEMMA PageMoves ==
  ASSUME PageInv, PageOf(task, tab'), Apart(tab, tab'), UNCHANGED <<task, acted>>
  PROVE  PageInv'
<1>1. ActedOf(task, tab'.conn, acted)
  BY ActedApart DEF PageInv
<1> QED
  BY <1>1 DEF PageInv

(* A step of the tasks.                                                        *)
LEMMA TasksMove ==
  ASSUME PageInv, Tasks(task'), Grown(task, task'), UNCHANGED <<tab, acted>>
  PROVE  PageInv'
<1>1. PageOf(task', tab)
  BY PageLater DEF PageInv
<1>2. ActedOf(task', tab.conn, acted)
  BY ActedLater DEF PageInv
<1> QED
  BY <1>1, <1>2 DEF PageInv

LEMMA GrownTask ==
  ASSUME Tasks(task), NEW r \in 1 .. Len(task), NEW x, TaskShape(x), x.chat = task[r].chat,
         Len(task[r].log) <= Len(x.log), \A i \in 1 .. Len(task[r].log) : x.log[i] = task[r].log[i]
  PROVE  Tasks([task EXCEPT ![r] = x]) /\ Grown(task, [task EXCEPT ![r] = x])
<1>0. \A q \in 1 .. Len(task) : Len(task[q].log) \in Nat
  BY TasksAre
<1>1. PICK S : task \in Seq(S)
  BY DEF Tasks
<1> DEFINE u == [task EXCEPT ![r] = x]
<1>2. task \in Seq(S \cup {x})
  BY <1>1
<1>3. u \in Seq(S \cup {x}) /\ Len(u) = Len(task) /\ Len(task) \in Nat
  BY <1>1, <1>2
<1>4. u[r] = x /\ \A q \in 1 .. Len(task) : q # r => u[q] = task[q]
  BY <1>1
<1> HIDE DEF u
<1>5. Tasks(u)
  BY <1>3, <1>4 DEF Tasks
<1>6. Grown(task, u)
  BY <1>0, <1>3, <1>4 DEF Grown
<1> QED
  BY <1>5, <1>6 DEF u

LEMMA MoreTasks ==
  ASSUME Tasks(task), NEW c, NEW m
  PROVE  /\ Tasks(Started(c, m)) /\ Grown(task, Started(c, m)) /\ OfChat(Started(c, m), c, Len(task) + 1)
         /\ Len(Started(c, m)) = Len(task) + 1 /\ Started(c, m)[Len(task) + 1].log = <<>>
<1>0. \A q \in 1 .. Len(task) : Len(task[q].log) \in Nat
  BY TasksAre
<1>1. PICK S : task \in Seq(S)
  BY DEF Tasks
<1> DEFINE x == [chat |-> c, text |-> m, log |-> <<>>, status |-> "running"]
           u == Started(c, m)
<1>2. task \in Seq(S \cup {x}) /\ Len(task) \in Nat
  BY <1>1
<1>3. u = Append(task, x)
  BY DEF Started
<1>4. TaskShape(x) /\ x.chat = c /\ x.log = <<>>
  BY DEF TaskShape
<1> HIDE DEF x, u
<1>5. /\ u \in Seq(S \cup {x}) /\ Len(u) = Len(task) + 1 /\ u[Len(task) + 1] = x
      /\ \A q \in 1 .. Len(task) : u[q] = task[q]
  BY <1>2, <1>3
<1>6. Tasks(u)
  <2>1. \A q \in 1 .. Len(u) : q \in 1 .. Len(task) \/ q = Len(task) + 1
    BY <1>2, <1>5
  <2>2. \A q \in 1 .. Len(u) : TaskShape(u[q])
    BY <1>4, <1>5, <2>1 DEF Tasks
  <2> QED
    BY <1>5, <2>2 DEF Tasks
<1>7. Grown(task, u)
  BY <1>0, <1>2, <1>5 DEF Grown
<1>8. OfChat(u, c, Len(task) + 1)
  BY <1>2, <1>4, <1>5 DEF OfChat
<1> QED
  BY <1>4, <1>5, <1>6, <1>7, <1>8 DEF u

LEMMA ServerSteps ==
  ASSUME PageInv, NEW r \in DOMAIN task, Writes(r) \/ Ends(r)
  PROVE  PageInv'
<1>0. Tasks(task) /\ r \in 1 .. Len(task) /\ TaskShape(task[r])
  BY TasksAre DEF PageInv, Tasks
<1>1. CASE Writes(r)
  <2>1. PICK k \in {"text", "ui", "done"} : task' = [task EXCEPT ![r].log = Append(@, k)]
    BY <1>1 DEF Writes
  <2> DEFINE x == [task[r] EXCEPT !.log = Append(task[r].log, k)]
             log == task[r].log
  <2>2. log \in Seq({"text", "ui", "done"}) /\ Len(log) \in Nat /\ DOMAIN log = 1 .. Len(log)
    BY <1>0 DEF TaskShape
  <2>3. \A i \in 1 .. Len(log) : log[i] # "done"
    BY <1>1, <2>2 DEF Writes, HasDone
  <2> HIDE DEF log
  <2>4. x \in [chat : {x.chat}, text : {x.text}, log : {x.log}, status : {x.status}]
        /\ x.chat = task[r].chat /\ x.log = Append(log, k)
    BY <1>0 DEF TaskShape, log
  <2> HIDE DEF x
  <2>5. /\ x.log \in Seq({"text", "ui", "done"}) /\ Len(x.log) = Len(log) + 1
        /\ \A i \in 1 .. Len(log) : x.log[i] = log[i]
    BY <2>2, <2>4
  <2>6. \A i \in 1 .. Len(x.log) : x.log[i] = "done" => i = Len(x.log)
    <3> SUFFICES ASSUME NEW i \in 1 .. Len(x.log), x.log[i] = "done", i # Len(x.log) PROVE FALSE
      OBVIOUS
    <3>1. i \in 1 .. Len(log)
      BY <2>2, <2>5
    <3> QED
      BY <2>3, <2>5, <3>1
  <2>7. TaskShape(x)
    BY <2>4, <2>5, <2>6 DEF TaskShape
  <2>8. task' = [task EXCEPT ![r] = x]
    BY <2>1 DEF x
  <2>9. Len(task[r].log) <= Len(x.log) /\ \A i \in 1 .. Len(task[r].log) : x.log[i] = task[r].log[i]
    BY <2>2, <2>5 DEF log
  <2>10. Tasks(task') /\ Grown(task, task')
    BY <1>0, <2>4, <2>7, <2>8, <2>9, GrownTask
  <2> QED
    BY <1>1, <2>10, TasksMove DEF Writes
<1>2. CASE Ends(r)
  <2> DEFINE s == IF HasDone(r) THEN "completed" ELSE "halted"
             x == [task[r] EXCEPT !.status = s]
  <2>1. task' = [task EXCEPT ![r] = x]
    BY <1>2 DEF Ends
  <2> HIDE DEF s
  <2>2. TaskShape(x) /\ x.chat = task[r].chat /\ x.log = task[r].log
    BY <1>0 DEF TaskShape
  <2> HIDE DEF x
  <2>3. Len(task[r].log) \in Nat
    BY <1>0, TasksAre
  <2>5. Len(task[r].log) <= Len(x.log) /\ \A i \in 1 .. Len(task[r].log) : x.log[i] = task[r].log[i]
    BY <2>2, <2>3
  <2>4. Tasks(task') /\ Grown(task, task')
    BY <1>0, <2>1, <2>2, <2>5, GrownTask
  <2> QED
    BY <1>2, <2>4, TasksMove DEF Ends
<1> QED
  BY <1>1, <1>2

LEMMA UserSteps ==
  ASSUME PageInv, Submit \/ ClickStop \/ SendNow \/ Resume \/ \E c \in Chat : SwitchTo(c)
  PROVE  PageInv'
<1>0. PageOf(task, tab) /\ Shape(tab) /\ Field(tab)
  BY DEF PageInv, PageOf, Shape, Field
<1>1. CASE Submit
  <2>1. CASE tab.shown.on
    <3> DEFINE q == [tab EXCEPT !.queue = Append(@, typed')]
    <3>1. Alike(tab, q) /\ Field(q)
      BY <1>0 DEF Alike, Field
    <3>2. tab' = q /\ UNCHANGED <<task, acted>>
      BY <1>1, <2>1 DEF Submit, Shows
    <3> HIDE DEF q
    <3> QED
      BY <1>0, <3>1, <3>2, AlikeIs, PageMoves
  <2>2. CASE ~tab.shown.on
    <3>1. tab' = HandleSend(tab, typed') /\ UNCHANGED <<task, acted>>
      BY <1>1, <2>2 DEF Submit, Shows
    <3> QED
      BY <1>0, <3>1, SendIs, PageMoves
  <2> QED
    BY <2>1, <2>2
<1>2. ASSUME NEW next, Interrupt(next)
      PROVE  PageInv'
  <2> DEFINE s == [pc |-> "ask", chat |-> tab.chat, current |-> TRUE, task |-> 0, next |-> next]
  <2>1. ASSUME NEW x, StopShape(x), x.chat = tab.chat, x.pc = "stop" => OfChat(task, tab.chat, x.task),
               tab' = [tab EXCEPT !.stops = @ \cup {x}], UNCHANGED <<task, acted>>
        PROVE  PageInv'
    <3> DEFINE q == [tab EXCEPT !.stops = @ \cup {x}]
    <3>1. /\ q.chat = tab.chat /\ q.run = tab.run /\ q.conn = tab.conn /\ q.shown = tab.shown
          /\ q.rec = tab.rec /\ q.stops = tab.stops \cup {x} /\ Field(q)
      BY <1>0 DEF Field
    <3>2. tab' = q
      BY <2>1
    <3> HIDE DEF q
    <3>3. Shape(q) /\ StopsOf(task, q.chat, q.stops)
      BY <1>0, <2>1, <3>1 DEF PageOf, Shape, Field, StopsOf
    <3>4. PageOf(task, q) /\ Apart(tab, q)
      BY <1>0, <3>1, <3>3 DEF PageOf, Apart
    <3> QED
      BY <2>1, <3>2, <3>4, PageMoves
  <2>2. CASE tab.run.status = "none"
    <3>1. StopShape(s) /\ s.chat = tab.chat /\ s.pc # "stop"
      BY DEF StopShape
    <3>2. tab' = [tab EXCEPT !.stops = @ \cup {s}] /\ UNCHANGED <<task, acted>>
      BY <1>2, <2>2 DEF Interrupt, Trouble
    <3> HIDE DEF s
    <3> QED
      BY <2>1, <3>1, <3>2
  <2>3. CASE tab.run.status = "running"
    <3> DEFINE x == [s EXCEPT !.pc = "stop", !.task = tab.run.id]
    <3>1. StopShape(x) /\ x.chat = tab.chat /\ x.task = tab.run.id
      BY DEF StopShape
    <3>2. tab' = [tab EXCEPT !.stops = @ \cup {x}] /\ UNCHANGED <<task, acted>>
      BY <1>2, <2>3 DEF Interrupt, Trouble
    <3>3. OfChat(task, tab.chat, tab.run.id)
      BY <1>0, <2>3 DEF PageOf, RefOf, NoRef
    <3> HIDE DEF s, x
    <3> QED
      BY <2>1, <3>1, <3>2, <3>3
  <2>4. CASE tab.run.status \notin {"none", "running"}
    <3>1. tab' = Stopped(tab, s, tab.run) /\ UNCHANGED <<task, acted>>
      BY <1>2, <2>4 DEF Interrupt, Trouble
    <3>2. RefOf(task, tab.chat, tab.run) /\ tab.run \in [id : {tab.run.id}, status : {tab.run.status}]
      BY <1>0 DEF PageOf, Shape
    <3> HIDE DEF s
    <3>3. PageOf(task, Stopped(tab, s, tab.run)) /\ Apart(tab, Stopped(tab, s, tab.run))
      BY <1>0, <3>2, StoppedIs
    <3> QED
      BY <3>1, <3>3, PageMoves
  <2> QED
    BY <2>2, <2>3, <2>4
<1>3. CASE Resume
  <2> DEFINE yes == FALSE
             b == BeginTurn(tab, yes)
             q == [b EXCEPT !.conn = [NoConn EXCEPT !.pc = "resume", !.task = tab.run.id]]
  <2>1. tab' = q /\ UNCHANGED <<task, acted>>
    BY <1>3 DEF Resume, Trouble
  <2> HIDE DEF yes
  <2>2. PageOf(task, b) /\ b.shown.task = 0
    BY <1>0, BeginTurnIs
  <2> HIDE DEF b
  <2>3. /\ q.chat = b.chat /\ q.run = b.run /\ q.shown = b.shown /\ q.rec = b.rec /\ q.stops = b.stops
        /\ q.conn = [NoConn EXCEPT !.pc = "resume", !.task = tab.run.id] /\ Field(q)
    BY <2>2 DEF PageOf, Shape, Field
  <2> HIDE DEF q
  <2>4. q.conn.pc = "resume" /\ q.conn.cursor = 0
    BY <2>3 DEF NoConn
  <2>5. Shape(q)
    BY <2>2, <2>3 DEF Shape, PageOf, Field, NoConn
  <2>6. ConnOf(task, q.chat, q.conn, q.run, q.shown)
    BY <2>2, <2>3, <2>4 DEF ConnOf
  <2>7. PageOf(task, q)
    BY <2>2, <2>3, <2>5, <2>6 DEF PageOf
  <2> QED
    BY <2>1, <2>4, <2>7, PageMoves DEF Apart
<1>4. ASSUME NEW c \in Chat, SwitchTo(c)
      PROVE  PageInv'
  <2> DEFINE d == Detached(tab)
             q == Moved(tab, c)
             z == Asked(q, "nobody", Nothing)
  <2>1. /\ PageOf(task, d) /\ d.conn = NoConn /\ d.run = NoRef /\ d.shown = Blank /\ \A s \in d.stops : ~s.current
    BY <1>0, DetachedIs
  <2>2. q = [d EXCEPT !.chat = c, !.queue = <<>>, !.rec = NoRec]
    BY DEF Moved
  <2> HIDE DEF d, q
  <2>3. /\ q.chat = c /\ q.run = NoRef /\ q.shown = Blank /\ q.rec = NoRec /\ q.stops = d.stops
        /\ q.conn = NoConn /\ Field(q)
    BY <2>1, <2>2 DEF PageOf, Shape, Field
  <2>4. Shape(q)
    BY <2>1, <2>3 DEF PageOf, Shape, Field, NoRef, NoConn, NoRec
  <2>5. q.conn.pc = "none" /\ q.rec.pc = "idle" /\ q.shown.task = 0 /\ q.shown.events = <<>> /\ <<>> \in Seq(Nat)
    BY <2>3 DEF NoConn, NoRec, Blank
  <2>6. PageOf(task, q)
    BY <2>1, <2>3, <2>4, <2>5 DEF PageOf, RefOf, StopsOf, RecOf, ShownOf, ConnOf
  <2>7. Alike(q, z) /\ Field(z)
    BY <2>3, AskedIs
  <2> HIDE DEF z
  <2>8. PageOf(task, z) /\ z.conn = q.conn
    BY <2>6, <2>7, AlikeIs DEF Alike
  <2>9. (tab' = q \/ tab' = z) /\ UNCHANGED <<task, acted>>
    BY <1>4 DEF SwitchTo, Trouble, q, z
  <2> QED
    BY <2>5, <2>6, <2>8, <2>9, PageMoves DEF Apart
<1> QED
  BY <1>1, <1>2, <1>3, <1>4 DEF ClickStop, SendNow

LEMMA SparedIs ==
  ASSUME NEW t, NEW p, PageOf(t, p), NEW s
  PROVE  /\ PageOf(t, Spared(p, s)) /\ Apart(p, Spared(p, s)) /\ Spared(p, s).conn = p.conn
         /\ Spared(p, s).chat = p.chat
<1> DEFINE q == Spared(p, s)
<1>1. /\ q.chat = p.chat /\ q.run = p.run /\ q.conn = p.conn /\ q.shown = p.shown /\ q.rec = p.rec
      /\ q.stops = p.stops \ {s} /\ Field(q)
  BY DEF Spared, PageOf, Shape, Field
<1> HIDE DEF q
<1>2. Shape(q) /\ StopsOf(t, q.chat, q.stops)
  BY <1>1 DEF PageOf, Shape, Field, StopsOf
<1>3. PageOf(t, q) /\ Apart(p, q)
  BY <1>1, <1>2 DEF PageOf, Apart
<1> QED
  BY <1>1, <1>3 DEF q

LEMMA StopSteps ==
  ASSUME PageInv, NEW s \in tab.stops, AskWhich(s) \/ StopAnswered(s) \/ StopFails(s)
  PROVE  PageInv'
<1> DEFINE p == Spared(tab, s)
<1>0. PageOf(task, tab) /\ Tasks(task) /\ StopShape(s)
  BY DEF PageInv, PageOf, Shape
<1>1. PageOf(task, p) /\ Apart(tab, p) /\ p.conn = tab.conn /\ p.chat = tab.chat
  BY <1>0, SparedIs
<1>2. s.current => s.chat = tab.chat /\ (s.pc = "stop" => OfChat(task, tab.chat, s.task))
  BY <1>0 DEF PageOf, StopsOf
<1>3. ASSUME NEW ref, ref \in [id : {ref.id}, status : {ref.status}], s.current => RefOf(task, tab.chat, ref),
             tab' = Stopped(p, s, ref), UNCHANGED <<task, acted>>
      PROVE  PageInv'
  <2> HIDE DEF p
  <2>1. PageOf(task, Stopped(p, s, ref)) /\ Apart(p, Stopped(p, s, ref))
    BY <1>1, <1>3, StoppedIs
  <2> QED
    BY <1>1, <1>3, <2>1, PageMoves DEF Apart
<1>4. CASE tab' = p /\ UNCHANGED <<task, acted>>
  BY <1>1, <1>4, PageMoves
<1>5. CASE AskWhich(s)
  <2> DEFINE ref == IF tab.run # NoRef THEN tab.run ELSE Latest(s.chat)
  <2>1. /\ RefOf(task, s.chat, Latest(s.chat))
        /\ Latest(s.chat) \in [id : {Latest(s.chat).id}, status : {Latest(s.chat).status}]
    BY <1>0, LatestIs
  <2>2. ref \in [id : {ref.id}, status : {ref.status}] /\ (s.current => RefOf(task, tab.chat, ref))
    BY <1>0, <1>2, <2>1 DEF PageOf, Shape
  <2>3. \/ tab' = p /\ UNCHANGED <<task, acted>>
        \/ /\ ref.status = "running" /\ UNCHANGED <<task, acted>>
           /\ tab' = [p EXCEPT !.stops = @ \cup {[s EXCEPT !.pc = "stop", !.task = ref.id]}]
        \/ tab' = Stopped(p, s, ref) /\ UNCHANGED <<task, acted>>
    BY <1>5 DEF AskWhich, Page
  <2> HIDE DEF ref, p
  <2>4. CASE /\ ref.status = "running" /\ UNCHANGED <<task, acted>>
             /\ tab' = [p EXCEPT !.stops = @ \cup {[s EXCEPT !.pc = "stop", !.task = ref.id]}]
    <3> DEFINE x == [s EXCEPT !.pc = "stop", !.task = ref.id]
               q == [p EXCEPT !.stops = @ \cup {x}]
    <3>1. StopShape(x) /\ x.current = s.current /\ x.chat = s.chat /\ x.task = ref.id
      BY <1>0 DEF StopShape
    <3>2. s.current => OfChat(task, tab.chat, ref.id)
      BY <2>2, <2>4 DEF RefOf, NoRef
    <3>3. tab' = q
      BY <2>4
    <3> HIDE DEF x
    <3>4. /\ q.chat = p.chat /\ q.run = p.run /\ q.conn = p.conn /\ q.shown = p.shown /\ q.rec = p.rec
          /\ q.stops = p.stops \cup {x} /\ Field(q)
      BY <1>1 DEF PageOf, Shape, Field
    <3> HIDE DEF q
    <3>5. Shape(q) /\ StopsOf(task, q.chat, q.stops)
      BY <1>1, <1>2, <3>1, <3>2, <3>4 DEF PageOf, Shape, Field, StopsOf
    <3>6. PageOf(task, q) /\ Apart(tab, q)
      BY <1>1, <3>4, <3>5 DEF PageOf, Apart
    <3> QED
      BY <2>4, <3>3, <3>6, PageMoves
  <2> QED
    BY <1>3, <1>4, <2>2, <2>3, <2>4
<1>6. CASE StopAnswered(s)
  <2> DEFINE ref == [id |-> s.task, status |-> task[s.task].status]
  <2>1. tab' = Stopped(p, s, ref) /\ UNCHANGED <<task, acted>> /\ s.pc = "stop"
    BY <1>6 DEF StopAnswered, Page
  <2>2. ref \in [id : {ref.id}, status : {ref.status}] /\ (s.current => RefOf(task, tab.chat, ref))
    BY <1>2, <2>1 DEF RefOf
  <2> HIDE DEF ref
  <2> QED
    BY <1>3, <2>1, <2>2
<1>7. CASE StopFails(s)
  BY <1>4, <1>7 DEF StopFails, Trouble
<1> QED
  BY <1>5, <1>6, <1>7

LEMMA GoesOnIs ==
  ASSUME NEW p, PageOf(task, p), NEW l
  PROVE  PageOf(task, GoesOn(p, l)) /\ Apart(p, GoesOn(p, l))
<1> DEFINE z == [p EXCEPT !.rec = NoRec]
<1>0. Shape(p) /\ Field(p)
  BY DEF PageOf, Shape, Field
<1>1. PageOf(task, z) /\ Apart(p, z)
  <2>1. /\ z.chat = p.chat /\ z.run = p.run /\ z.conn = p.conn /\ z.shown = p.shown /\ z.rec = NoRec
        /\ z.stops = p.stops /\ Field(z)
    BY <1>0 DEF Field
  <2> HIDE DEF z
  <2>2. Shape(z) /\ RecOf(task, z.chat, z.rec)
    BY <1>0, <2>1 DEF Shape, Field, NoRec, NoRef, RecOf
  <2> QED
    BY <2>1, <2>2 DEF PageOf, Apart
<1>2. CASE GoesOn(p, l) = Joined(p) /\ p.rec.pc = "load"
  <2>1. CASE p.rec.current /\ p.conn = NoConn
    <3> DEFINE no == FALSE
               b == BeginTurn(p, no)
               q == [b EXCEPT !.rec = NoRec, !.conn = [NoConn EXCEPT !.pc = "watch", !.task = p.rec.info.id]]
    <3>1. Joined(p) = q
      BY <2>1 DEF Joined
    <3> HIDE DEF no
    <3>2. PageOf(task, b) /\ b.shown.task = 0 /\ b.chat = p.chat
      BY BeginTurnIs
    <3> HIDE DEF b
    <3>3. /\ q.chat = p.chat /\ q.run = b.run /\ q.shown = b.shown /\ q.stops = b.stops /\ q.rec = NoRec
          /\ q.conn = [NoConn EXCEPT !.pc = "watch", !.task = p.rec.info.id] /\ Field(q)
      BY <3>2 DEF PageOf, Shape, Field
    <3> HIDE DEF q
    <3>4. q.conn.pc = "watch" /\ q.conn.cursor = 0 /\ q.conn.task = p.rec.info.id
      BY <3>3 DEF NoConn
    <3>5. Shape(q)
      <4>1. q.conn \in [pc : {q.conn.pc}, text : {q.conn.text}, task : {q.conn.task},
                        cursor : {q.conn.cursor}, replay : {q.conn.replay}]
        BY <3>3 DEF NoConn
      <4>2. /\ q.rec \in [pc : {q.rec.pc}, current : {q.rec.current}, info : {q.rec.info}]
            /\ q.rec.info \in [id : {q.rec.info.id}, status : {q.rec.info.status}]
        BY <3>3 DEF NoRec, NoRef
      <4> QED
        BY <3>2, <3>3, <4>1, <4>2 DEF PageOf, Shape, Field
    <3>6. OfChat(task, q.chat, q.conn.task)
      BY <1>2, <3>3, <3>4 DEF PageOf, RecOf
    <3>7. ConnOf(task, q.chat, q.conn, q.run, q.shown) /\ RecOf(task, q.chat, q.rec)
      BY <3>2, <3>3, <3>4, <3>6 DEF ConnOf, RecOf, NoRec
    <3>8. PageOf(task, q) /\ Apart(p, q)
      BY <3>2, <3>3, <3>4, <3>5, <3>7 DEF PageOf, Apart
    <3> QED
      BY <1>2, <3>1, <3>8
  <2>2. CASE ~(p.rec.current /\ p.conn = NoConn)
    BY <1>1, <1>2, <2>2 DEF Joined
  <2> QED
    BY <2>1, <2>2
<1>3. ASSUME NEW w, GoesOn(p, l) = HandleSend([p EXCEPT !.queue = w], l.next)
      PROVE  PageOf(task, GoesOn(p, l)) /\ Apart(p, GoesOn(p, l))
  <2> DEFINE a == [p EXCEPT !.queue = w]
  <2>1. Alike(p, a) /\ Field(a)
    BY <1>0 DEF Alike, Field
  <2>2. GoesOn(p, l) = HandleSend(a, l.next)
    BY <1>3
  <2> HIDE DEF a
  <2>3. PageOf(task, a) /\ Apart(p, a)
    BY <2>1, AlikeIs
  <2>4. PageOf(task, HandleSend(a, l.next)) /\ Apart(a, HandleSend(a, l.next))
    BY <2>3, SendIs
  <2> QED
    BY <2>2, <2>3, <2>4 DEF Apart
<1>4. CASE GoesOn(p, l) = p
  BY <1>4 DEF Apart
<1>5. \/ GoesOn(p, l) = Joined(p) /\ p.rec.pc = "load"
      \/ GoesOn(p, l) = z \/ GoesOn(p, l) = p
      \/ \E w : GoesOn(p, l) = HandleSend([p EXCEPT !.queue = w], l.next)
  <2>1. CASE l.by = "rejoin" /\ l.chat = p.chat /\ p.rec.pc = "load"
    BY <2>1 DEF GoesOn
  <2>2. CASE l.by = "recover" /\ l.chat = p.chat /\ p.rec.pc = "load"
    BY <2>2 DEF GoesOn
  <2>3. CASE l.by = "stop" /\ l.next # Nothing
    BY <2>3 DEF GoesOn
  <2>4. CASE /\ ~(l.by = "rejoin" /\ l.chat = p.chat /\ p.rec.pc = "load")
             /\ ~(l.by = "recover" /\ l.chat = p.chat /\ p.rec.pc = "load")
             /\ ~(l.by = "stop" /\ l.next # Nothing)
    BY <2>4 DEF GoesOn
  <2> QED
    BY <2>1, <2>2, <2>3, <2>4
<1> QED
  BY <1>1, <1>2, <1>3, <1>4, <1>5

LEMMA LoadSteps ==
  ASSUME PageInv, NEW l \in tab.loads, LoadArrives(l) \/ LoadFails(l)
  PROVE  PageInv'
<1> DEFINE a(items) == [tab EXCEPT !.loads = @ \ {l}, !.view[l.chat] = items]
           b == [tab EXCEPT !.loads = @ \ {l}]
<1>0. PageOf(task, tab) /\ Field(tab)
  BY DEF PageInv, PageOf, Shape, Field
<1>1. \A items : Alike(tab, a(items)) /\ Field(a(items))
  BY <1>0 DEF Alike, Field
<1>2. Alike(tab, b) /\ Field(b)
  BY <1>0 DEF Alike, Field
<1>3. UNCHANGED <<task, acted>> /\ (tab' = GoesOn(b, l) \/ \E items : tab' = GoesOn(a(items), l))
  BY DEF LoadArrives, LoadFails, Page, Trouble
<1> HIDE DEF a, b
<1>4. ASSUME NEW q, Alike(tab, q), Field(q), tab' = GoesOn(q, l)
      PROVE  PageInv'
  <2>1. PageOf(task, q) /\ Apart(tab, q)
    BY <1>0, <1>4, AlikeIs
  <2>2. PageOf(task, GoesOn(q, l)) /\ Apart(q, GoesOn(q, l))
    BY <2>1, GoesOnIs
  <2> QED
    BY <1>3, <1>4, <2>1, <2>2, PageMoves DEF Apart
<1> QED
  BY <1>1, <1>2, <1>3, <1>4

LEMMA RecoverSteps ==
  ASSUME PageInv, Recover \/ RecoverAnswered \/ RecoverFails
  PROVE  PageInv'
<1>0. PageOf(task, tab) /\ Shape(tab) /\ Field(tab) /\ Tasks(task)
  BY DEF PageInv, PageOf, Shape, Field
<1>1. ASSUME NEW q, q.chat = tab.chat, q.run = tab.run, q.conn = tab.conn, q.shown = tab.shown,
             q.stops = tab.stops, Field(q), UNCHANGED <<task, acted>>, tab' = q,
             q.rec \in [pc : {q.rec.pc}, current : {q.rec.current}, info : {q.rec.info}],
             q.rec.info \in [id : {q.rec.info.id}, status : {q.rec.info.status}],
             RecOf(task, q.chat, q.rec)
      PROVE  PageInv'
  <2>1. Shape(q)
    BY <1>0, <1>1 DEF Shape, Field
  <2>2. PageOf(task, q) /\ Apart(tab, q)
    BY <1>0, <1>1, <2>1 DEF PageOf, Apart
  <2> QED
    BY <1>1, <2>2, PageMoves
<1>2. CASE tab' = [tab EXCEPT !.rec = NoRec] /\ UNCHANGED <<task, acted>>
  <2> DEFINE q == [tab EXCEPT !.rec = NoRec]
  <2>1. /\ q.chat = tab.chat /\ q.run = tab.run /\ q.conn = tab.conn /\ q.shown = tab.shown
        /\ q.stops = tab.stops /\ q.rec = NoRec /\ Field(q)
    BY <1>0 DEF Field
  <2>2. tab' = q
    BY <1>2
  <2> HIDE DEF q
  <2>3. /\ q.rec \in [pc : {q.rec.pc}, current : {q.rec.current}, info : {q.rec.info}]
        /\ q.rec.info \in [id : {q.rec.info.id}, status : {q.rec.info.status}]
        /\ RecOf(task, q.chat, q.rec)
    BY <2>1 DEF NoRec, NoRef, RecOf
  <2> QED
    BY <1>1, <1>2, <2>1, <2>2, <2>3
<1>3. CASE Recover
  <2> DEFINE info == Latest(tab.chat)
             q == [tab EXCEPT !.rec = [pc |-> "asked", current |-> TRUE, info |-> info]]
  <2>1. tab' = q /\ UNCHANGED <<task, acted>> /\ (info # tab.run \/ tab.run.status = "running")
    BY <1>3 DEF Recover, Page
  <2>2. /\ RefOf(task, tab.chat, info) /\ info \in [id : {info.id}, status : {info.status}]
        /\ \A r : OfChat(task, tab.chat, r) => OfChat(task, tab.chat, info.id)
    BY <1>0, LatestIs
  <2> HIDE DEF info
  <2>3. OfChat(task, tab.chat, info.id)
    <3>1. tab.run = NoRef \/ OfChat(task, tab.chat, tab.run.id)
      BY <1>0 DEF PageOf, RefOf
    <3>2. tab.run = NoRef => tab.run.status # "running"
      BY DEF NoRef
    <3> QED
      BY <2>1, <2>2, <3>1, <3>2 DEF RefOf
  <2>4. /\ q.chat = tab.chat /\ q.run = tab.run /\ q.conn = tab.conn /\ q.shown = tab.shown
        /\ q.stops = tab.stops /\ q.rec = [pc |-> "asked", current |-> TRUE, info |-> info] /\ Field(q)
    BY <1>0 DEF Field
  <2> HIDE DEF q
  <2>5. /\ q.rec \in [pc : {q.rec.pc}, current : {q.rec.current}, info : {q.rec.info}]
        /\ q.rec.info \in [id : {q.rec.info.id}, status : {q.rec.info.status}]
        /\ RecOf(task, q.chat, q.rec)
    BY <2>2, <2>3, <2>4 DEF RecOf
  <2> QED
    BY <1>1, <2>1, <2>4, <2>5
<1>4. CASE RecoverAnswered
  <2> DEFINE info == tab.rec.info
             p == [tab EXCEPT !.run = info, !.rec.pc = "load"]
  <2>0. OfChat(task, tab.chat, info.id) /\ info \in [id : {info.id}, status : {info.status}]
    BY <1>0, <1>4 DEF PageOf, RecOf, RecoverAnswered, Shape
  <2>1. UNCHANGED <<task, acted>>
    BY <1>4 DEF RecoverAnswered, Page
  <2>2. \/ tab' = [tab EXCEPT !.rec = NoRec]
        \/ tab.conn = NoConn /\ tab' = Asked(p, "rejoin", Nothing)
        \/ tab.conn = NoConn /\ tab' = Asked([p EXCEPT !.shown = Blank], "recover", Nothing)
    BY <1>4 DEF RecoverAnswered, Page
  <2>3. /\ p.chat = tab.chat /\ p.run = info /\ p.conn = tab.conn /\ p.shown = tab.shown
        /\ p.stops = tab.stops /\ p.rec = [tab.rec EXCEPT !.pc = "load"] /\ Field(p)
    BY <1>0 DEF Field
  <2> HIDE DEF p, info
  <2>4. p.rec \in [pc : {p.rec.pc}, current : {p.rec.current}, info : {p.rec.info}] /\ p.rec.info = info
    BY <1>0, <2>3 DEF Shape, info
  <2>5. Shape(p) /\ RecOf(task, p.chat, p.rec) /\ RefOf(task, p.chat, p.run)
    BY <1>0, <2>0, <2>3, <2>4 DEF Shape, Field, RecOf, RefOf
  <2>6. CASE tab.conn = NoConn /\ tab' = Asked(p, "rejoin", Nothing)
    <3>1. p.conn.pc = "none"
      BY <2>3, <2>6 DEF NoConn
    <3>2. ConnOf(task, p.chat, p.conn, p.run, p.shown)
      BY <3>1 DEF ConnOf
    <3>3. PageOf(task, p)
      BY <1>0, <2>3, <2>5, <3>2 DEF PageOf
    <3>4. PageOf(task, tab') /\ tab'.conn = tab.conn
      BY <2>3, <2>6, <3>3, AskedIs, AlikeIs DEF Alike
    <3> QED
      BY <2>1, <3>4, PageMoves DEF Apart
  <2>7. CASE tab.conn = NoConn /\ tab' = Asked([p EXCEPT !.shown = Blank], "recover", Nothing)
    <3> DEFINE q == [p EXCEPT !.shown = Blank]
    <3>1. /\ q.chat = tab.chat /\ q.run = p.run /\ q.conn = tab.conn /\ q.shown = Blank
          /\ q.stops = tab.stops /\ q.rec = p.rec /\ Field(q)
      BY <2>3 DEF Field
    <3>2. tab' = Asked(q, "recover", Nothing)
      BY <2>7
    <3> HIDE DEF q
    <3>3. q.conn.pc = "none" /\ q.shown.task = 0 /\ q.shown.events = <<>> /\ <<>> \in Seq(Nat)
      BY <2>7, <3>1 DEF NoConn, Blank
    <3>4. Shape(q)
      BY <1>0, <2>3, <2>5, <3>1 DEF Shape, Field
    <3>5. ConnOf(task, q.chat, q.conn, q.run, q.shown) /\ ShownOf(task, q.chat, q.shown)
      BY <3>3 DEF ConnOf, ShownOf
    <3>6. PageOf(task, q)
      BY <1>0, <2>3, <2>5, <3>1, <3>4, <3>5 DEF PageOf
    <3>7. PageOf(task, tab') /\ tab'.conn = tab.conn
      BY <3>1, <3>2, <3>6, AskedIs, AlikeIs DEF Alike
    <3> QED
      BY <2>1, <3>7, PageMoves DEF Apart
  <2> QED
    BY <1>2, <2>1, <2>2, <2>6, <2>7
<1>5. CASE RecoverFails
  BY <1>2, <1>5 DEF RecoverFails, Trouble
<1> QED
  BY <1>3, <1>4, <1>5

(* A connection that is gone, with the stray request it leaves.                *)
LEMMA ConnGone ==
  ASSUME NEW t, NEW p, PageOf(t, p), NEW stray
  PROVE  LET q == [p EXCEPT !.conn = NoConn, !.stray = stray]
             z == [p EXCEPT !.conn = NoConn]
             w == [p EXCEPT !.conn = NoConn, !.shown = Blank]
         IN  /\ PageOf(t, q) /\ Apart(p, q) /\ PageOf(t, z) /\ Apart(p, z)
             /\ PageOf(t, w) /\ Apart(p, w)
<1>0. Shape(p) /\ Field(p)
  BY DEF PageOf, Shape, Field
<1>1. ASSUME NEW q, q.chat = p.chat, q.run = p.run, q.conn = NoConn, q.rec = p.rec, q.stops = p.stops, Field(q),
             q.shown \in {p.shown, Blank}
      PROVE  PageOf(t, q) /\ Apart(p, q)
  <2>1. q.conn.pc = "none"
    BY <1>1 DEF NoConn
  <2>2. q.conn \in [pc : {q.conn.pc}, text : {q.conn.text}, task : {q.conn.task},
                    cursor : {q.conn.cursor}, replay : {q.conn.replay}]
    BY <1>1 DEF NoConn
  <2>3. Shape(q)
    BY <1>0, <1>1, <2>2 DEF Shape, Field
  <2>4. Blank.task = 0 /\ Blank.events = <<>> /\ <<>> \in Seq(Nat)
    BY DEF Blank
  <2>5. ConnOf(t, q.chat, q.conn, q.run, q.shown) /\ ShownOf(t, q.chat, q.shown)
    BY <1>1, <2>1, <2>4 DEF ConnOf, ShownOf, PageOf
  <2> QED
    BY <1>1, <2>1, <2>3, <2>5 DEF PageOf, Apart
<1> DEFINE q == [p EXCEPT !.conn = NoConn, !.stray = stray]
           z == [p EXCEPT !.conn = NoConn]
           w == [p EXCEPT !.conn = NoConn, !.shown = Blank]
<1>2. /\ q.chat = p.chat /\ q.run = p.run /\ q.conn = NoConn /\ q.rec = p.rec /\ q.stops = p.stops /\ Field(q)
      /\ q.shown = p.shown
  BY <1>0 DEF Field
<1>3. /\ z.chat = p.chat /\ z.run = p.run /\ z.conn = NoConn /\ z.rec = p.rec /\ z.stops = p.stops /\ Field(z)
      /\ z.shown = p.shown
  BY <1>0 DEF Field
<1>4. /\ w.chat = p.chat /\ w.run = p.run /\ w.conn = NoConn /\ w.rec = p.rec /\ w.stops = p.stops /\ Field(w)
      /\ w.shown = Blank
  BY <1>0 DEF Field
<1> HIDE DEF q, z, w
<1>5. PageOf(t, q) /\ Apart(p, q) /\ PageOf(t, z) /\ Apart(p, z) /\ PageOf(t, w) /\ Apart(p, w)
  BY <1>1, <1>2, <1>3, <1>4
<1> QED
  BY <1>5 DEF q, z, w

LEMMA NetSteps ==
  ASSUME PageInv, \/ PostArrives \/ WatchArrives \/ FirstEvent \/ RunStatus \/ Closed \/ Drop
                  \/ \E x \in tab.stray : StrayArrives(x)
  PROVE  PageInv'
<1>0. PageOf(task, tab) /\ Shape(tab) /\ Field(tab) /\ Tasks(task) /\ ActedOf(task, tab.conn, acted)
  BY DEF PageInv, PageOf, Shape, Field
<1>1. ASSUME NEW x \in tab.stray, StrayArrives(x)
      PROVE  PageInv'
  <2> DEFINE q == [tab EXCEPT !.stray = @ \ {x}]
  <2>1. tab' = q /\ acted' = acted /\ (task' = task \/ task' = Started(x.chat, x.text))
    BY <1>1 DEF StrayArrives, Shows
  <2>2. Alike(tab, q) /\ Field(q)
    BY <1>0 DEF Alike, Field
  <2> HIDE DEF q
  <2>3. PageOf(task, q) /\ ActedOf(task, q.conn, acted)
    BY <1>0, <2>2, AlikeIs DEF Alike
  <2>4. CASE task' = task
    BY <1>0, <2>1, <2>3, <2>4 DEF PageInv
  <2>5. CASE task' = Started(x.chat, x.text)
    <3>1. Tasks(task') /\ Grown(task, task')
      BY <1>0, <2>5, MoreTasks
    <3>2. PageOf(task', q) /\ ActedOf(task', q.conn, acted)
      BY <1>0, <2>3, <3>1, PageLater, ActedLater
    <3> QED
      BY <2>1, <3>1, <3>2 DEF PageInv
  <2> QED
    BY <2>1, <2>4, <2>5
<1>2. CASE PostArrives
  <2>1. CASE task' = task /\ tab' = Refused(tab)
    <3>1. PageOf(task, Refused(tab)) /\ Apart(tab, Refused(tab))
      BY <1>0, ConnGone DEF Refused
    <3> QED
      BY <1>2, <2>1, <3>1, PageMoves DEF PostArrives
  <2>2. CASE task' = Started(tab.chat, tab.conn.text) /\ tab' = [tab EXCEPT !.conn = Opened(Len(task) + 1, 0)]
    <3> DEFINE u == Started(tab.chat, tab.conn.text)
               q == [tab EXCEPT !.conn = Opened(Len(task) + 1, 0)]
    <3>1. /\ Tasks(u) /\ Grown(task, u) /\ OfChat(u, tab.chat, Len(task) + 1) /\ Len(u) = Len(task) + 1
          /\ u[Len(task) + 1].log = <<>> /\ Len(task) \in Nat
      BY <1>0, MoreTasks, TasksAre
    <3>2. PageOf(u, tab) /\ ActedOf(u, tab.conn, acted)
      BY <1>0, <3>1, PageLater, ActedLater
    <3>3. tab.shown.task = 0
      BY <1>0, <1>2 DEF PageOf, ConnOf, PostArrives
    <3>4. task' = u /\ tab' = q /\ acted' = acted
      BY <1>2, <2>2 DEF PostArrives
    <3>5. /\ q.chat = tab.chat /\ q.run = tab.run /\ q.conn = Opened(Len(task) + 1, 0) /\ q.shown = tab.shown
          /\ q.stops = tab.stops /\ q.rec = tab.rec /\ Field(q)
      BY <1>0 DEF Field
    <3> HIDE DEF u, q
    <3>6. /\ q.conn.pc = "first" /\ q.conn.task = Len(task) + 1 /\ q.conn.cursor = 0 /\ q.conn.replay = 0
          /\ q.conn \in [pc : {q.conn.pc}, text : {q.conn.text}, task : {q.conn.task},
                         cursor : {q.conn.cursor}, replay : {q.conn.replay}]
      BY <3>5 DEF Opened, NoConn
    <3>7. Shape(q)
      BY <1>0, <3>5, <3>6 DEF Shape, Field
    <3>8. ConnOf(u, q.chat, q.conn, q.run, q.shown)
      BY <3>1, <3>3, <3>5, <3>6 DEF ConnOf
    <3>9. PageOf(u, q)
      BY <3>2, <3>5, <3>7, <3>8 DEF PageOf
    <3>10. ActedOf(u, q.conn, acted)
      <4>1. \A i \in Nat : <<q.conn.task, i>> \notin acted.once
        <5> SUFFICES ASSUME NEW i \in Nat, <<q.conn.task, i>> \in acted.once PROVE FALSE
          OBVIOUS
        <5>1. q.conn.task \in 1 .. Len(task)
          BY <1>0 DEF ActedOf
        <5> QED
          BY <3>1, <3>6, <5>1
      <4> QED
        BY <3>2, <3>6, <4>1 DEF ActedOf
    <3> QED
      BY <3>1, <3>4, <3>9, <3>10 DEF PageInv
  <2> QED
    BY <1>2, <2>1, <2>2 DEF PostArrives, Shows
<1>3. CASE WatchArrives
  <2> DEFINE n == Len(task[tab.conn.task].log)
             q == [tab EXCEPT !.conn = Opened(tab.conn.task, n)]
  <2>1. tab' = q /\ UNCHANGED <<task, acted>>
    BY <1>3 DEF WatchArrives, Page
  <2>2. OfChat(task, tab.chat, tab.conn.task) /\ tab.shown.task = 0
    BY <1>0, <1>3 DEF PageOf, ConnOf, WatchArrives
  <2>3. n \in Nat /\ \A i \in Nat : <<tab.conn.task, i>> \in acted.once => i <= n
    <3>1. n \in Nat
      BY <1>0, <2>2, TasksAre DEF OfChat
    <3>2. ASSUME NEW i \in Nat, <<tab.conn.task, i>> \in acted.once PROVE i <= n
      <4>1. i \in 1 .. n
        BY <1>0, <3>2 DEF ActedOf
      <4> QED
        BY <3>1, <4>1
    <3> QED
      BY <3>1, <3>2
  <2> HIDE DEF n
  <2>4. /\ q.chat = tab.chat /\ q.run = tab.run /\ q.conn = Opened(tab.conn.task, n) /\ q.shown = tab.shown
        /\ q.stops = tab.stops /\ q.rec = tab.rec /\ Field(q)
    BY <1>0 DEF Field
  <2> HIDE DEF q
  <2>5. /\ q.conn.pc = "first" /\ q.conn.task = tab.conn.task /\ q.conn.cursor = 0 /\ q.conn.replay = n
        /\ q.conn \in [pc : {q.conn.pc}, text : {q.conn.text}, task : {q.conn.task},
                       cursor : {q.conn.cursor}, replay : {q.conn.replay}]
    BY <2>4 DEF Opened, NoConn
  <2>6. Shape(q)
    BY <1>0, <2>4, <2>5 DEF Shape, Field
  <2>7. ConnOf(task, q.chat, q.conn, q.run, q.shown)
    BY <2>2, <2>4, <2>5 DEF ConnOf
  <2>8. PageOf(task, q)
    BY <1>0, <2>4, <2>6, <2>7 DEF PageOf
  <2>9. ActedOf(task, q.conn, acted)
    BY <1>0, <2>3, <2>5 DEF ActedOf
  <2> QED
    BY <1>0, <2>1, <2>8, <2>9 DEF PageInv
<1>4. CASE FirstEvent
  <2> DEFINE r == tab.conn.task
             q == [tab EXCEPT !.conn.pc = "open", !.run = [id |-> r, status |-> task[r].status]]
  <2>1. tab' = q /\ UNCHANGED <<task, acted>>
    BY <1>4 DEF FirstEvent, Page
  <2>2. tab.conn.pc = "first" /\ OfChat(task, tab.chat, r) /\ tab.shown.task = 0 /\ tab.conn.cursor = 0
    BY <1>0, <1>4 DEF PageOf, ConnOf, FirstEvent
  <2>3. /\ q.chat = tab.chat /\ q.run = [id |-> r, status |-> task[r].status]
        /\ q.conn = [tab.conn EXCEPT !.pc = "open"] /\ q.shown = tab.shown
        /\ q.stops = tab.stops /\ q.rec = tab.rec /\ Field(q)
    BY <1>0 DEF Field
  <2> HIDE DEF q
  <2>4. /\ q.conn.pc = "open" /\ q.conn.task = r /\ q.conn.cursor = 0 /\ q.conn.replay = tab.conn.replay
        /\ q.conn \in [pc : {q.conn.pc}, text : {q.conn.text}, task : {q.conn.task},
                       cursor : {q.conn.cursor}, replay : {q.conn.replay}]
    BY <1>0, <2>2, <2>3 DEF Shape
  <2>5. Shape(q) /\ RefOf(task, q.chat, q.run)
    BY <1>0, <2>2, <2>3, <2>4 DEF Shape, Field, RefOf
  <2>6. 0 \in 0 .. Len(task[r].log)
    BY <1>0, <2>2, TasksAre DEF OfChat
  <2>7. ConnOf(task, q.chat, q.conn, q.run, q.shown)
    BY <2>2, <2>3, <2>4, <2>6 DEF ConnOf
  <2>8. PageOf(task, q)
    BY <1>0, <2>3, <2>5, <2>7 DEF PageOf
  <2>9. ActedOf(task, q.conn, acted)
    BY <1>0, <2>2, <2>4 DEF ActedOf
  <2> QED
    BY <1>0, <2>1, <2>8, <2>9 DEF PageInv
<1>5. CASE RunStatus
  <2> DEFINE r == tab.conn.task
             q == [tab EXCEPT !.conn.pc = "over", !.run = [id |-> r, status |-> task[r].status], !.shown = Blank]
  <2>1. tab' = Asked(q, "nobody", Nothing) /\ UNCHANGED <<task, acted>>
    BY <1>5 DEF RunStatus, Page
  <2>2. OfChat(task, tab.chat, r)
    BY <1>0, <1>5 DEF PageOf, ConnOf, RunStatus
  <2>3. /\ q.chat = tab.chat /\ q.run = [id |-> r, status |-> task[r].status]
        /\ q.conn = [tab.conn EXCEPT !.pc = "over"] /\ q.shown = Blank
        /\ q.stops = tab.stops /\ q.rec = tab.rec /\ Field(q)
    BY <1>0 DEF Field
  <2> HIDE DEF q
  <2>4. /\ q.conn.pc = "over" /\ q.conn.task = r
        /\ q.conn \in [pc : {q.conn.pc}, text : {q.conn.text}, task : {q.conn.task},
                       cursor : {q.conn.cursor}, replay : {q.conn.replay}]
    BY <1>0, <2>3 DEF Shape
  <2>5. Shape(q) /\ RefOf(task, q.chat, q.run)
    BY <1>0, <2>2, <2>3, <2>4 DEF Shape, Field, RefOf
  <2>6. Blank.task = 0 /\ Blank.events = <<>> /\ <<>> \in Seq(Nat)
    BY DEF Blank
  <2>7. ConnOf(task, q.chat, q.conn, q.run, q.shown) /\ ShownOf(task, q.chat, q.shown)
    BY <2>2, <2>3, <2>4, <2>6 DEF ConnOf, ShownOf
  <2>8. PageOf(task, q)
    BY <1>0, <2>3, <2>5, <2>7 DEF PageOf
  <2>9. PageOf(task, tab') /\ tab'.conn = q.conn
    BY <2>1, <2>3, <2>8, AskedIs, AlikeIs DEF Alike
  <2> QED
    BY <2>1, <2>4, <2>9, PageMoves DEF Apart
<1>6. CASE Closed
  <2>1. tab' = [tab EXCEPT !.conn = NoConn] /\ UNCHANGED <<task, acted>>
    BY <1>6 DEF Closed, Page
  <2> QED
    BY <1>0, <2>1, ConnGone, PageMoves
<1>7. CASE Drop
  <2>1. tab' = [tab EXCEPT !.conn = NoConn, !.stray = tab.stray \cup Strayed(tab)] /\ UNCHANGED <<task, acted>>
    BY <1>7 DEF Drop, Trouble
  <2> QED
    BY <1>0, <2>1, ConnGone, PageMoves
<1> QED
  BY <1>1, <1>2, <1>3, <1>4, <1>5, <1>6, <1>7

(* An event of the log arrives: it is the next one, and is handed out if it is  *)
(* an action that was not there when the page joined.                          *)
LEMMA ReceiveStep ==
  ASSUME PageInv, Receive
  PROVE  PageInv'
<1> DEFINE c == tab.conn
           r == c.task
           i == c.cursor + 1
           log == task[r].log
           p == [tab EXCEPT !.conn.cursor = i]
           d == [Added(p, <<"final", r>>) EXCEPT !.run.status = "completed", !.shown = Blank]
           e == IF log[i] = "text" THEN Append(tab.shown.events, i) ELSE tab.shown.events
           v == [p EXCEPT !.shown = [on |-> TRUE, task |-> r, events |-> e]]
<1>0. PageOf(task, tab) /\ Shape(tab) /\ Field(tab) /\ Tasks(task) /\ ActedOf(task, c, acted)
  BY DEF PageInv, PageOf, Shape, Field
<1>1. /\ c.pc = "open" /\ i \in DOMAIN log /\ task' = task
      /\ tab' = HandleEvent(p, i, log[i])
      /\ acted' = IF log[i] = "ui" /\ ~Replayed(c, i)
                  THEN [once |-> acted.once \cup {<<r, i>>}, twice |-> acted.twice \/ <<r, i>> \in acted.once]
                  ELSE acted
  BY DEF Receive, Shows
<1>2. OfChat(task, tab.chat, r) /\ tab.run.id = r /\ c.cursor \in 0 .. Len(log)
  BY <1>0, <1>1 DEF PageOf, ConnOf
<1>3. log \in Seq({"text", "ui", "done"}) /\ Len(log) \in Nat /\ i \in 1 .. Len(log) /\ c.cursor \in Nat
  BY <1>0, <1>1, <1>2, TasksAre DEF OfChat
<1>4. c.cursor = 0 \/ log[c.cursor] # "done"
  <2>1. c.cursor \in 1 .. Len(log) /\ log[c.cursor] = "done" => c.cursor = Len(log)
    BY <1>0, <1>2 DEF Tasks, TaskShape, OfChat
  <2> QED
    BY <1>3, <2>1
<1>5. tab.shown.events \in Seq(Nat) /\ Gives(tab.shown.events, log, c.cursor)
  <2>1. ShownOf(task, tab.chat, tab.shown) /\ ConnOf(task, tab.chat, c, tab.run, tab.shown)
    BY <1>0 DEF PageOf
  <2>2. CASE tab.shown.task = 0 /\ c.cursor = 0
    BY <2>1, <2>2, GivesNothing DEF ShownOf
  <2>3. CASE Gives(tab.shown.events, log, c.cursor)
    BY <2>1, <2>3 DEF ShownOf
  <2> QED
    BY <1>1, <1>4, <2>1, <2>2, <2>3 DEF ConnOf
<1>6. /\ p.chat = tab.chat /\ p.run = tab.run /\ p.conn = [c EXCEPT !.cursor = i] /\ p.shown = tab.shown
      /\ p.stops = tab.stops /\ p.rec = tab.rec /\ Field(p)
  BY <1>0 DEF Field
<1>7. Alike(p, Added(p, <<"final", r>>)) /\ Field(Added(p, <<"final", r>>))
  BY <1>6, AddedIs
<1>8. /\ d.chat = tab.chat /\ d.run = [tab.run EXCEPT !.status = "completed"] /\ d.conn = p.conn /\ d.shown = Blank
      /\ d.stops = tab.stops /\ d.rec = tab.rec /\ Field(d)
  BY <1>6, <1>7 DEF Alike, Field
<1>9. /\ v.chat = tab.chat /\ v.run = tab.run /\ v.conn = p.conn
      /\ v.shown = [on |-> TRUE, task |-> r, events |-> e] /\ v.stops = tab.stops /\ v.rec = tab.rec /\ Field(v)
  BY <1>6 DEF Field
<1>10. \/ log[i] = "done" /\ (tab' = d \/ tab' = FlushNext(d))
       \/ log[i] # "done" /\ tab' = v
  <2>1. CASE log[i] = "done"
    <3>1. p.conn.task = r
      BY <1>0, <1>6 DEF Shape
    <3> QED
      BY <1>1, <2>1, <3>1 DEF HandleEvent, Done
  <2>2. CASE log[i] # "done"
    <3>1. p.conn.task = r /\ p.shown.events = tab.shown.events
      BY <1>0, <1>6 DEF Shape
    <3> QED
      BY <1>1, <2>2, <3>1 DEF HandleEvent
  <2> QED
    BY <2>1, <2>2
<1> HIDE DEF p, d, v
<1>11. /\ p.conn.pc = "open" /\ p.conn.task = r /\ p.conn.cursor = i /\ p.conn.replay = c.replay
       /\ p.conn \in [pc : {p.conn.pc}, text : {p.conn.text}, task : {p.conn.task},
                      cursor : {p.conn.cursor}, replay : {p.conn.replay}]
  BY <1>0, <1>1, <1>6 DEF Shape
<1>12. i \in Nat /\ i \in 0 .. Len(log)
  BY <1>3
<1>13. ASSUME log[i] = "done" PROVE PageOf(task, d)
  <2>1. d.run \in [id : {d.run.id}, status : {d.run.status}] /\ d.run.id = r
    BY <1>0, <1>2, <1>8 DEF Shape
  <2>2. Shape(d)
    BY <1>0, <1>8, <1>11, <2>1 DEF Shape, Field
  <2>3. Blank.task = 0 /\ Blank.events = <<>> /\ <<>> \in Seq(Nat)
    BY DEF Blank
  <2>4. ShownOf(task, d.chat, d.shown) /\ RefOf(task, d.chat, d.run)
    BY <1>2, <1>8, <2>1, <2>3 DEF ShownOf, RefOf
  <2>5. ConnOf(task, d.chat, d.conn, d.run, d.shown)
    BY <1>2, <1>8, <1>11, <1>12, <1>13, <2>1, <2>3 DEF ConnOf
  <2> QED
    BY <1>0, <1>8, <2>2, <2>4, <2>5 DEF PageOf
<1>14. ASSUME log[i] # "done" PROVE PageOf(task, v)
  <2>1. e \in Seq(Nat) /\ Gives(e, log, i)
    BY <1>3, <1>5, <1>12, GivesNext
  <2> HIDE DEF e
  <2>2. v.shown.task = r /\ v.shown.events = e
    BY <1>9
  <2>3. Shape(v)
    BY <1>0, <1>9, <1>11 DEF Shape, Field
  <2>4. r \in 1 .. Len(task) /\ Len(task) \in Nat
    BY <1>0, <1>2, TasksAre DEF OfChat
  <2>5. ShownOf(task, v.chat, v.shown)
    <3>1. r # 0
      BY <2>4
    <3>2. \E n \in 0 .. Len(task[r].log) : Gives(e, task[r].log, n)
      BY <1>12, <2>1
    <3> QED
      BY <1>2, <1>9, <2>1, <2>2, <3>1, <3>2 DEF ShownOf
  <2>6. ConnOf(task, v.chat, v.conn, v.run, v.shown)
    BY <1>2, <1>9, <1>11, <1>12, <2>1, <2>2 DEF ConnOf
  <2> QED
    BY <1>0, <1>9, <2>3, <2>5, <2>6 DEF PageOf
<1>15. ActedOf(task, p.conn, acted')
  <2>1. /\ acted.twice = FALSE /\ c.replay \in Nat
        /\ \A x \in acted.once : x[1] \in 1 .. Len(task) /\ x[2] \in 1 .. Len(task[x[1]].log)
        /\ \A j \in Nat : <<r, j>> \in acted.once => j <= c.cursor \/ j <= c.replay
    BY <1>0, <1>1 DEF ActedOf
  <2>2. CASE acted' = acted
    <3>1. \A j \in Nat : <<r, j>> \in acted.once => j <= i \/ j <= c.replay
      BY <1>3, <2>1
    <3> QED
      BY <1>11, <1>12, <2>1, <2>2, <3>1 DEF ActedOf
  <2>3. CASE /\ ~Replayed(c, i)
             /\ acted' = [once |-> acted.once \cup {<<r, i>>}, twice |-> acted.twice \/ <<r, i>> \in acted.once]
    <3>1. <<r, i>> \notin acted.once
      BY <1>3, <1>12, <2>1, <2>3 DEF Replayed
    <3>2. acted'.once = acted.once \cup {<<r, i>>} /\ acted'.twice = FALSE
      BY <2>1, <2>3, <3>1
    <3>3. \A x \in acted'.once : x[1] \in 1 .. Len(task) /\ x[2] \in 1 .. Len(task[x[1]].log)
      <4>1. r \in 1 .. Len(task) /\ i \in 1 .. Len(task[r].log)
        BY <1>2, <1>3 DEF OfChat
      <4> QED
        BY <2>1, <3>2, <4>1
    <3>4. \A j \in Nat : <<r, j>> \in acted'.once => j <= i \/ j <= c.replay
      BY <1>3, <1>12, <2>1, <3>2
    <3> QED
      BY <1>11, <1>12, <2>1, <3>2, <3>3, <3>4 DEF ActedOf
  <2> QED
    BY <1>1, <2>2, <2>3
<1>16. PageOf(task, tab') /\ ActedOf(task, tab'.conn, acted')
  <2>1. CASE log[i] = "done" /\ tab' = d
    BY <1>8, <1>13, <1>15, <2>1
  <2>2. CASE log[i] = "done" /\ tab' = FlushNext(d)
    <3>1. PageOf(task, FlushNext(d)) /\ Apart(d, FlushNext(d))
      BY <1>13, <2>2, FlushIs
    <3>2. ActedOf(task, d.conn, acted')
      BY <1>8, <1>15
    <3> QED
      BY <2>2, <3>1, <3>2, ActedApart
  <2>3. CASE log[i] # "done" /\ tab' = v
    BY <1>9, <1>14, <1>15, <2>3
  <2> QED
    BY <1>10, <2>1, <2>2, <2>3
<1> QED
  BY <1>0, <1>1, <1>16 DEF PageInv

LEMMA PageStep ==
  ASSUME PageInv, [CNext]_cvars
  PROVE  PageInv'
<1>1. CASE CNext
  BY <1>1, ServerSteps, UserSteps, StopSteps, LoadSteps, RecoverSteps, NetSteps, ReceiveStep DEF CNext, Online
<1>2. CASE UNCHANGED cvars
  BY <1>2 DEF cvars, PageInv
<1> QED
  BY <1>1, <1>2

LEMMA PageInit == CInit => PageInv
<1> SUFFICES ASSUME CInit PROVE PageInv
  OBVIOUS
<1>1. /\ task = <<>> /\ acted.once = {} /\ acted.twice = FALSE
      /\ tab.run = NoRef /\ tab.conn = NoConn /\ tab.shown = Blank /\ tab.rec = NoRec /\ tab.stops = {}
      /\ Field(tab)
  BY DEF CInit, Field
<1>2. Tasks(task)
  <2>1. <<>> \in Seq({}) /\ Len(<<>>) = 0
    OBVIOUS
  <2> QED
    BY <1>1, <2>1 DEF Tasks
<1>3. tab.conn.pc = "none" /\ tab.rec.pc = "idle" /\ tab.shown.task = 0 /\ tab.shown.events = <<>> /\ <<>> \in Seq(Nat)
  BY <1>1 DEF NoConn, NoRec, Blank
<1>4. Shape(tab)
  <2>1. tab.conn \in [pc : {tab.conn.pc}, text : {tab.conn.text}, task : {tab.conn.task},
                      cursor : {tab.conn.cursor}, replay : {tab.conn.replay}]
    BY <1>1 DEF NoConn
  <2>2. /\ tab.rec \in [pc : {tab.rec.pc}, current : {tab.rec.current}, info : {tab.rec.info}]
        /\ tab.rec.info \in [id : {tab.rec.info.id}, status : {tab.rec.info.status}]
    BY <1>1 DEF NoRec, NoRef
  <2>3. tab.run \in [id : {tab.run.id}, status : {tab.run.status}]
    BY <1>1 DEF NoRef
  <2> QED
    BY <1>1, <2>1, <2>2, <2>3 DEF Shape, Field
<1>5. PageOf(task, tab)
  BY <1>1, <1>3, <1>4 DEF PageOf, RefOf, StopsOf, RecOf, ShownOf, ConnOf
<1>6. ActedOf(task, tab.conn, acted)
  BY <1>1, <1>3 DEF ActedOf
<1> QED
  BY <1>2, <1>5, <1>6 DEF PageInv

LEMMA PageImply == PageInv => PageFaithful
BY DEF PageInv, PageOf, ShownOf, OfChat, ActedOf, PageFaithful, ShownOnce

(* Whatever connections drop, and whatever is sent, queued, stopped and loaded  *)
(* meanwhile, an action is handed out once and what is shown of a turn is its   *)
(* log so far (useChatStream.ts).                                              *)
THEOREM PageShowsTheLog == CSpec => []PageFaithful
BY PageInit, PageStep, PageImply, PTL DEF CSpec

-----------------------------------------------------------------------------
(* The three together.                                                         *)

(* A browser action is carried out once, however often its event is delivered  *)
(* and to which of the page's connections, and what is shown of a turn is its  *)
(* log: the runner's part and the page's, in whichever of the three moves.     *)
THEOREM EachActsOnce == MCSpec => []ActsOnce
<1>1. MCInit => RunnerInv /\ PageInv
  BY RunnerInit, PageInit DEF MCInit
<1>2. RunnerInv /\ [RNext]_rvars => RunnerInv'
  BY RunnerStep
<1>3. PageInv /\ [CNext]_cvars => PageInv'
  BY PageStep
<1>4. [MCNext]_<<part, svars, rvars, cvars>> => [RNext]_rvars /\ [CNext]_cvars
  BY DEF MCNext
<1>5. RunnerInv /\ PageInv => ActsOnce
  BY RunnerImply, PageImply DEF ActsOnce
<1> QED
  BY <1>1, <1>2, <1>3, <1>4, <1>5, PTL DEF MCSpec
=============================================================================
