--------------------------- MODULE AgentLoopProofs --------------------------
(* Theorems about AgentLoop, LlmStream and McpServers, for every set of tools, *)
(* grants, servers and requests, every depth of delegation, every number of    *)
(* loops, steps, calls, retries, connections, owners and upsets.               *)
EXTENDS MCAgentLoop, FiniteSetTheorems, SequenceTheorems, WellFoundedInduction, TLAPS

-----------------------------------------------------------------------------
(* Sequences.                                                                  *)

LEMMA Positions ==
  ASSUME NEW S, NEW s \in Seq(S)
  PROVE  /\ DOMAIN s = 1 .. Len(s) /\ Len(s) \in Nat /\ IsFiniteSet(DOMAIN s) /\ Cardinality(DOMAIN s) = Len(s)
         /\ \A k \in DOMAIN s : s[k] \in S
<1>1. DOMAIN s = 1 .. Len(s) /\ Len(s) \in Nat
  BY LenProperties
<1>2. IsFiniteSet(1 .. Len(s)) /\ Cardinality(1 .. Len(s)) = Len(s)
  BY <1>1, FS_Interval
<1>3. \A k \in DOMAIN s : s[k] \in S
  BY <1>1, ElementOfSeq
<1> QED
  BY <1>1, <1>2, <1>3

(* A sequence given by its elements.                                           *)
LEMMA Listing ==
  ASSUME NEW S, NEW n \in Nat, NEW s, s = [i \in 1 .. n |-> s[i]], \A i \in 1 .. n : s[i] \in S
  PROVE  s \in Seq(S) /\ Len(s) = n /\ DOMAIN s = 1 .. n
<1>1. s \in [1 .. n -> S] /\ DOMAIN s = 1 .. n
  OBVIOUS
<1>2. s \in Seq(S)
  BY <1>1, SeqDef
<1> QED
  BY <1>1, <1>2, LenProperties

(* The members of a finite set of numbers, in their order.                     *)
LEMMA NthMember ==
  ASSUME NEW S \in SUBSET Nat, IsFiniteSet(S)
  PROVE  /\ Cardinality(S) \in Nat
         /\ \A i \in 1 .. Cardinality(S) : Nth(S, i) \in S
         /\ \A k \in S : \E i \in 1 .. Cardinality(S) : Nth(S, i) = k
<1> DEFINE n == Cardinality(S)
           Below(k) == {j \in S : j < k}
           c(k) == Cardinality(Below(k))
           f == [k \in S |-> c(k) + 1]
<1>1. n \in Nat
  BY FS_CardinalityType
<1>2. ASSUME NEW k \in S PROVE IsFiniteSet(Below(k)) /\ c(k) \in Nat /\ c(k) + 1 \in 1 .. n
  <2>1. IsFiniteSet(Below(k))
    BY FS_Subset
  <2>2. c(k) \in Nat
    BY <2>1, FS_CardinalityType
  <2>3. IsFiniteSet(Below(k) \cup {k}) /\ Cardinality(Below(k) \cup {k}) = c(k) + 1
    BY <2>1, FS_AddElement
  <2>4. Below(k) \cup {k} \in SUBSET S
    OBVIOUS
  <2>5. Cardinality(Below(k) \cup {k}) <= n
    BY <2>4, FS_Subset
  <2> QED
    BY <1>1, <2>1, <2>2, <2>3, <2>5
<1>3. ASSUME NEW k \in S, NEW j \in S, k < j PROVE c(k) < c(j)
  <2>1. IsFiniteSet(Below(k) \cup {k}) /\ Cardinality(Below(k) \cup {k}) = c(k) + 1
    BY <1>2, FS_AddElement
  <2>2. Below(k) \cup {k} \in SUBSET Below(j)
    <3>1. \A i \in S : i < k => i < j
      BY <1>3
    <3> QED
      BY <3>1, <1>3
  <2>3. Cardinality(Below(k) \cup {k}) <= c(j)
    BY <1>2, <2>2, FS_Subset
  <2> QED
    BY <1>2, <2>1, <2>3
<1>a. \A k \in S : c(k) \in Nat /\ c(k) + 1 \in 1 .. n
  BY <1>2
<1>b. \A k, j \in S : k < j => c(k) < c(j)
  BY <1>3
<1> HIDE DEF c, n
<1>4. \A k, j \in S : c(k) = c(j) => k = j
  <2>1. \A k, j \in S : k < j \/ j < k \/ k = j
    OBVIOUS
  <2>2. \A k, j \in S : k < j => c(k) # c(j)
    BY <1>a, <1>b
  <2> QED
    BY <2>1, <2>2
<1>5. f \in [S -> 1 .. n] /\ \A k, j \in S : f[k] = f[j] => k = j
  <2>1. \A k, j \in S : c(k) + 1 = c(j) + 1 => c(k) = c(j)
    BY <1>a
  <2> QED
    BY <1>a, <1>4, <2>1
<1>6. f \in Injection(S, 1 .. n)
  BY <1>5 DEF Injection, IsInjective
<1>7. IsFiniteSet(1 .. n) /\ Cardinality(1 .. n) = n
  BY <1>1, FS_Interval
<1>8. f \in Surjection(S, 1 .. n)
  BY <1>6, <1>7, FS_Injection DEF n
<1>9. \A i \in 1 .. n : \E k \in S : c(k) + 1 = i
  BY <1>8 DEF Surjection
<1>10. \A i \in 1 .. n : Nth(S, i) \in S /\ c(Nth(S, i)) = i - 1
  <2>1. ASSUME NEW i \in 1 .. n PROVE Nth(S, i) \in S /\ c(Nth(S, i)) = i - 1
    <3>1. PICK k \in S : c(k) + 1 = i
      BY <1>9
    <3>2. c(k) = i - 1
      BY <1>a, <3>1
    <3>3. Nth(S, i) = CHOOSE k_1 \in S : c(k_1) = i - 1
      BY DEF Nth, c
    <3> QED
      BY <3>2, <3>3
  <2> QED
    BY <2>1
<1>11. ASSUME NEW k \in S PROVE \E i \in 1 .. n : Nth(S, i) = k
  <2> DEFINE i == c(k) + 1
  <2>1. i \in 1 .. n /\ i - 1 = c(k)
    BY <1>a
  <2>2. Nth(S, i) \in S /\ c(Nth(S, i)) = c(k)
    BY <1>10, <2>1
  <2>3. Nth(S, i) = k
    BY <1>4, <2>2
  <2> QED
    BY <2>1, <2>3
<1> QED
  BY <1>1, <1>10, <1>11 DEF n

(* The elements of a sequence at some positions.                               *)
LEMMA PickedOnes ==
  ASSUME NEW T, NEW s \in Seq(T), NEW P \in SUBSET DOMAIN s
  PROVE  /\ Picked(s, P) \in Seq(T) /\ Len(Picked(s, P)) = Cardinality(P) /\ Cardinality(P) \in Nat
         /\ DOMAIN Picked(s, P) = 1 .. Cardinality(P)
         /\ {Picked(s, P)[i] : i \in DOMAIN Picked(s, P)} = {s[k] : k \in P}
<1>1. IsFiniteSet(DOMAIN s) /\ DOMAIN s \subseteq Nat /\ \A k \in DOMAIN s : s[k] \in T
  BY Positions
<1>2. P \in SUBSET Nat /\ IsFiniteSet(P)
  BY <1>1, FS_Subset
<1>3. /\ Cardinality(P) \in Nat
      /\ \A i \in 1 .. Cardinality(P) : Nth(P, i) \in P
      /\ \A k \in P : \E i \in 1 .. Cardinality(P) : Nth(P, i) = k
  BY <1>2, NthMember
<1>4. Picked(s, P) = [i \in 1 .. Cardinality(P) |-> s[Nth(P, i)]]
  BY DEF Picked
<1>5. \A i \in 1 .. Cardinality(P) : Picked(s, P)[i] = s[Nth(P, i)]
  BY <1>4
<1>6. Picked(s, P) \in Seq(T) /\ Len(Picked(s, P)) = Cardinality(P) /\ DOMAIN Picked(s, P) = 1 .. Cardinality(P)
  <2>1. Picked(s, P) = [i \in 1 .. Cardinality(P) |-> Picked(s, P)[i]]
    BY <1>4
  <2>2. \A i \in 1 .. Cardinality(P) : Picked(s, P)[i] \in T
    BY <1>1, <1>3, <1>5
  <2> QED
    BY <2>1, <2>2, <1>3, Listing
<1>7. {Picked(s, P)[i] : i \in 1 .. Cardinality(P)} = {s[k] : k \in P}
  <2>1. ASSUME NEW i \in 1 .. Cardinality(P) PROVE \E k \in P : Picked(s, P)[i] = s[k]
    BY <1>3, <1>5
  <2>2. ASSUME NEW k \in P PROVE \E i \in 1 .. Cardinality(P) : Picked(s, P)[i] = s[k]
    <3>1. PICK i \in 1 .. Cardinality(P) : Nth(P, i) = k
      BY <1>3
    <3> QED
      BY <1>5, <3>1
  <2>3. {Picked(s, P)[i] : i \in 1 .. Cardinality(P)} \subseteq {s[k] : k \in P}
    BY ONLY <2>1
  <2>4. {s[k] : k \in P} \subseteq {Picked(s, P)[i] : i \in 1 .. Cardinality(P)}
    BY ONLY <2>2
  <2> QED
    BY <2>3, <2>4
<1> QED
  BY <1>3, <1>6, <1>7

-----------------------------------------------------------------------------
(* The conversation.                                                           *)

IdsOf(s) == {s[i].id : i \in DOMAIN s}

(* The results of the last message's calls are being gathered: recorded ones,  *)
(* those of the calls still to be made, and those of the delegations.          *)
Executing(x) == \E prior \in Seq(Msg) : Paired(prior) /\ x.msgs = Append(prior, CallsMsg(x.batch))
Accounted(x) ==
    /\ Len(x.results) + Len(x.todo) + Cardinality(Given(x)) = Len(x.batch)
    /\ IdsOf(x.results) \cup IdsOf(x.todo) \cup {x.batch[k].id : k \in Given(x)} = IdsOf(x.batch)
TalkGood(x) == /\ x.pc \in {"brief", "step", "open", "model", "batch"} => Paired(x.msgs)
               /\ x.pc = "regular" => Executing(x) /\ Accounted(x)

(* Compression shortens results; it moves and drops none.                      *)
LEMMA CompressedPairs ==
  ASSUME NEW ms \in Seq(Msg), NEW step
  PROVE  Compressed(ms, step) \in Seq(Msg) /\ (Paired(ms) => Paired(Compressed(ms, step)))
<1> DEFINE cs == Compressed(ms, step)
<1>1. DOMAIN ms = 1 .. Len(ms) /\ Len(ms) \in Nat /\ \A i \in DOMAIN ms : ms[i] \in Msg
  BY Positions
<1>2. ASSUME NEW m \in Msg
      PROVE  /\ Line(m) \in Msg /\ Line(m).role = m.role /\ Line(m).ids = m.ids
             /\ LET c == [m EXCEPT !.form = "cut"] IN c \in Msg /\ c.role = m.role /\ c.ids = m.ids
  BY DEF Line, Msg
<1>3. cs = [i \in 1 .. Len(ms) |-> cs[i]] /\ DOMAIN cs = DOMAIN ms
  <2>1. CASE step <= Recent \/ Cardinality(Steps(ms)) <= Recent
    <3>1. cs = ms
      BY <2>1 DEF Compressed
    <3> QED
      BY <3>1, <1>1, LenProperties
  <2>2. CASE ~(step <= Recent \/ Cardinality(Steps(ms)) <= Recent)
    BY <2>2, <1>1 DEF Compressed
  <2> QED
    BY <2>1, <2>2
<1>4. ASSUME NEW i \in DOMAIN ms PROVE cs[i] \in Msg /\ cs[i].role = ms[i].role /\ cs[i].ids = ms[i].ids
  <2>1. cs[i] \in {ms[i], Line(ms[i]), [ms[i] EXCEPT !.form = "cut"]}
    <3> DEFINE ago == Cardinality({s \in Steps(ms) : s > i})
    <3>1. CASE step <= Recent \/ Cardinality(Steps(ms)) <= Recent
      BY <3>1 DEF Compressed
    <3>2. CASE ~(step <= Recent \/ Cardinality(Steps(ms)) <= Recent)
      <4>1. cs[i] = IF ms[i].role # "tool" \/ ago < Recent THEN ms[i]
                    ELSE IF ago >= Old THEN Line(ms[i])
                    ELSE IF ms[i].form = "whole" THEN [ms[i] EXCEPT !.form = "cut"] ELSE ms[i]
        BY <3>2 DEF Compressed
      <4> QED
        BY <4>1
    <3> QED
      BY <3>1, <3>2
  <2>2. ms[i] \in Msg
    BY <1>1
  <2> QED
    BY <2>1, <2>2, <1>2
<1> HIDE DEF cs
<1>5. cs \in Seq(Msg)
  BY <1>1, <1>3, <1>4, Listing
<1>6. ASSUME Paired(ms) PROVE Paired(cs)
  <2>1. Steps(cs) = Steps(ms)
    BY <1>3, <1>4 DEF Steps
  <2>2. \A i \in Steps(ms) : i \in DOMAIN ms /\ Window(cs, i) = Window(ms, i) /\ cs[i].ids = ms[i].ids
    BY <1>4 DEF Steps, Window
  <2>3. {j \in DOMAIN cs : cs[j].role = "tool"} = {j \in DOMAIN ms : ms[j].role = "tool"}
    BY <1>3, <1>4
  <2>4. ASSUME NEW i \in Steps(ms)
        PROVE  /\ Window(cs, i) \subseteq {j \in DOMAIN cs : cs[j].role = "tool"}
               /\ {cs[j].ids : j \in Window(cs, i)} = {<<cs[i].ids[k]>> : k \in DOMAIN cs[i].ids}
    <3>1. /\ Window(ms, i) \subseteq {j \in DOMAIN ms : ms[j].role = "tool"}
          /\ {ms[j].ids : j \in Window(ms, i)} = {<<ms[i].ids[k]>> : k \in DOMAIN ms[i].ids}
      BY <1>6 DEF Paired
    <3>2. \A j \in Window(ms, i) : cs[j].ids = ms[j].ids
      BY <3>1, <1>4
    <3>3. {cs[j].ids : j \in Window(ms, i)} = {ms[j].ids : j \in Window(ms, i)}
      BY <3>2
    <3>4. Window(cs, i) = Window(ms, i) /\ cs[i].ids = ms[i].ids
      BY <2>2
    <3>5. Window(cs, i) \subseteq {j \in DOMAIN cs : cs[j].role = "tool"}
      BY <3>1, <3>4, <2>3
    <3>6. {cs[j].ids : j \in Window(cs, i)} = {ms[j].ids : j \in Window(ms, i)}
      BY <3>3, <3>4
    <3>7. {<<cs[i].ids[k]>> : k \in DOMAIN cs[i].ids} = {<<ms[i].ids[k]>> : k \in DOMAIN ms[i].ids}
      BY <3>4
    <3> QED
      BY <3>1, <3>5, <3>6, <3>7
  <2>5. \A j \in DOMAIN cs : cs[j].role = "tool" => \E i \in Steps(cs) : j \in Window(cs, i)
    BY <2>1, <2>2, <1>3, <1>4, <1>6 DEF Paired
  <2> QED
    BY <2>1, <2>4, <2>5 DEF Paired
<1> QED
  BY <1>5, <1>6 DEF cs

LEMMA NothingPairs == <<>> \in Seq(Msg) /\ Paired(<<>>)
BY DEF Paired, Steps

LEMMA CallsMsgType ==
  ASSUME NEW batch \in Seq(Call)
  PROVE  /\ CallsMsg(batch) \in Msg /\ CallsMsg(batch).role = "calls"
         /\ CallsMsg(batch).ids \in Seq(Nat)
         /\ Len(CallsMsg(batch).ids) = Len(batch) /\ DOMAIN CallsMsg(batch).ids = DOMAIN batch
         /\ \A k \in DOMAIN batch : CallsMsg(batch).ids[k] = batch[k].id
<1> DEFINE names == [i \in DOMAIN batch |-> batch[i].id]
<1>1. DOMAIN batch = 1 .. Len(batch) /\ Len(batch) \in Nat /\ \A k \in DOMAIN batch : batch[k] \in Call
  BY Positions
<1>2. \A k \in DOMAIN batch : names[k] = batch[k].id /\ names[k] \in Nat
  BY <1>1 DEF Call
<1>3. names = [i \in 1 .. Len(batch) |-> names[i]]
  BY <1>1
<1> HIDE DEF names
<1>4. names \in Seq(Nat) /\ Len(names) = Len(batch) /\ DOMAIN names = DOMAIN batch
  BY <1>1, <1>2, <1>3, Listing
<1>5. CallsMsg(batch) = [role |-> "calls", ids |-> names, error |-> FALSE, form |-> "whole", label |-> ""]
  BY DEF CallsMsg, names
<1>6. CallsMsg(batch) \in Msg /\ CallsMsg(batch).role = "calls" /\ CallsMsg(batch).ids = names
  <2>1. ASSUME NEW c, NEW s \in Seq(Nat),
               c = [role |-> "calls", ids |-> s, error |-> FALSE, form |-> "whole", label |-> ""]
        PROVE  c \in Msg /\ c.role = "calls" /\ c.ids = s
    BY <2>1 DEF Msg
  <2> QED
    BY <2>1, <1>4, <1>5, Zenon
<1> QED
  BY <1>2, <1>4, <1>6

(* The results of a message's calls, in whatever order, and then the images.   *)
LEMMA InjectedPairs ==
  ASSUME NEW prior \in Seq(Msg), Paired(prior), NEW batch \in Seq(Call), NEW rs \in Seq(Result),
         Len(rs) = Len(batch), IdsOf(rs) = IdsOf(batch)
  PROVE  LET ms == Append(prior, CallsMsg(batch)) \o Injected(rs) IN ms \in Seq(Msg) /\ Paired(ms)
<1> DEFINE C == CallsMsg(batch)
           n == Len(prior)
           b == Len(batch)
           open == Append(prior, C)
           images == {j \in DOMAIN rs : rs[j].image}
           tools == [i \in DOMAIN rs |-> ToolMsg(rs[i])]
           pics == [i \in 1 .. Cardinality(images) |-> ImageMsg]
           tail == tools \o pics
           ms == open \o tail
<1>1. /\ DOMAIN prior = 1 .. n /\ n \in Nat
      /\ DOMAIN rs = 1 .. b /\ b \in Nat /\ IsFiniteSet(DOMAIN rs) /\ \A k \in DOMAIN rs : rs[k] \in Result
      /\ DOMAIN batch = 1 .. b
  BY Positions
<1>c. /\ C \in Msg /\ C.role = "calls" /\ Len(C.ids) = b /\ DOMAIN C.ids = 1 .. b
      /\ \A k \in 1 .. b : C.ids[k] = batch[k].id
  BY <1>1, CallsMsgType
<1>2. \A k \in 1 .. b : tools[k] \in Msg /\ tools[k].role = "tool" /\ tools[k].ids = <<rs[k].id>>
  <2>1. ASSUME NEW r \in Result
        PROVE  ToolMsg(r) \in Msg /\ ToolMsg(r).role = "tool" /\ ToolMsg(r).ids = <<r.id>>
    <3>1. r.id \in Nat /\ (~r.ok) \in BOOLEAN
      BY DEF Result
    <3>2. <<r.id>> \in Seq(Nat)
      BY <3>1
    <3> QED
      BY <3>1, <3>2 DEF ToolMsg, Msg
  <2> QED
    BY <2>1, <1>1
<1>3. tools \in Seq(Msg) /\ Len(tools) = b
  <2>1. tools = [i \in 1 .. b |-> tools[i]]
    BY <1>1
  <2> HIDE DEF tools
  <2> QED
    BY <2>1, <1>1, <1>2, Listing
<1>4. Cardinality(images) \in Nat
  <2>1. images \in SUBSET DOMAIN rs
    OBVIOUS
  <2>2. IsFiniteSet(images)
    BY <2>1, <1>1, FS_Subset
  <2> QED
    BY <2>2, FS_CardinalityType
<1>5. ImageMsg \in Msg /\ ImageMsg.role = "image"
  <2>1. <<>> \in Seq(Nat)
    OBVIOUS
  <2> QED
    BY <2>1 DEF ImageMsg, Msg
<1>6. pics \in Seq(Msg) /\ Len(pics) = Cardinality(images) /\ \A k \in 1 .. Cardinality(images) : pics[k].role = "image"
  <2>1. /\ pics = [i \in 1 .. Cardinality(images) |-> pics[i]]
        /\ \A k \in 1 .. Cardinality(images) : pics[k] \in Msg /\ pics[k].role = "image"
    BY <1>5
  <2> HIDE DEF pics
  <2> QED
    BY <2>1, <1>4, Listing
<1> DEFINE m == Cardinality(images)
<1> HIDE DEF tools, pics, m
<1>7. /\ tail \in Seq(Msg) /\ Len(tail) = b + m
      /\ \A q \in 1 .. b : tail[q] = tools[q]
      /\ \A q \in b + 1 .. b + m : tail[q].role = "image"
  <2>1. /\ tail \in Seq(Msg) /\ Len(tail) = Len(tools) + Len(pics)
        /\ \A q \in 1 .. Len(tools) + Len(pics) : tail[q] = IF q <= Len(tools) THEN tools[q] ELSE pics[q - Len(tools)]
    <3>1. tools \in Seq(Msg) /\ pics \in Seq(Msg)
      BY <1>3, <1>6
    <3> HIDE DEF ms, open, images
    <3> QED
      BY <3>1, ConcatProperties
  <2>2. Len(tools) = b /\ Len(pics) = m /\ m \in Nat
    BY <1>3, <1>4, <1>6 DEF m
  <2>3. ASSUME NEW q \in 1 .. b PROVE tail[q] = tools[q]
    <3>1. q \in 1 .. b + m /\ q <= b
      BY <2>2, <1>1
    <3> QED
      BY <3>1, <2>1, <2>2
  <2>4. ASSUME NEW q \in b + 1 .. b + m PROVE tail[q].role = "image"
    <3>1. q \in 1 .. b + m /\ ~(q <= b) /\ q - b \in 1 .. m
      BY <2>2, <1>1
    <3>2. tail[q] = pics[q - b]
      BY <3>1, <2>1, <2>2
    <3> QED
      BY <3>1, <3>2, <1>6 DEF m
  <2> QED
    BY <2>1, <2>2, <2>3, <2>4
<1>8. /\ open \in Seq(Msg) /\ Len(open) = n + 1 /\ open[n + 1] = C
      /\ \A i \in 1 .. n : open[i] = prior[i]
  BY <1>c, AppendProperties
<1> HIDE DEF open, tail, C
<1>9. m \in Nat
  BY <1>4 DEF m
<1>10. /\ ms \in Seq(Msg) /\ Len(ms) = n + 1 + b + m /\ DOMAIN ms = 1 .. n + 1 + b + m
       /\ \A i \in 1 .. n : ms[i] = prior[i]
       /\ ms[n + 1] = C
       /\ \A q \in 1 .. b : ms[n + 1 + q] = tools[q]
       /\ \A i \in n + 1 + b + 1 .. n + 1 + b + m : ms[i].role = "image"
  <2>1. /\ open \o tail \in Seq(Msg) /\ Len(open \o tail) = Len(open) + Len(tail)
        /\ \A i \in 1 .. Len(open) + Len(tail) : (open \o tail)[i] = IF i <= Len(open) THEN open[i] ELSE tail[i - Len(open)]
    <3>1. open \in Seq(Msg) /\ tail \in Seq(Msg)
      BY <1>7, <1>8
    <3> QED
      BY <3>1, ConcatProperties
  <2>a. /\ ms \in Seq(Msg) /\ Len(ms) = Len(open) + Len(tail)
        /\ \A i \in 1 .. Len(open) + Len(tail) : ms[i] = IF i <= Len(open) THEN open[i] ELSE tail[i - Len(open)]
    BY <2>1
  <2> HIDE DEF ms
  <2>2. Len(open) + Len(tail) = n + 1 + b + m
    BY <1>1, <1>7, <1>8, <1>9
  <2>3. DOMAIN ms = 1 .. n + 1 + b + m
    BY <2>a, <2>2, LenProperties
  <2>4. ASSUME NEW i \in 1 .. n + 1 PROVE ms[i] = open[i]
    <3>1. i \in 1 .. n + 1 + b + m /\ i <= n + 1
      BY <1>1, <1>9
    <3> QED
      BY <3>1, <2>a, <2>2, <1>8
  <2>5. ASSUME NEW q \in 1 .. b + m PROVE ms[n + 1 + q] = tail[q]
    <3>1. n + 1 + q \in 1 .. n + 1 + b + m /\ ~(n + 1 + q <= n + 1) /\ n + 1 + q - (n + 1) = q
      BY <1>1, <1>9
    <3> QED
      BY <3>1, <2>a, <2>2, <1>8
  <2>6. \A i \in 1 .. n : ms[i] = prior[i]
    <3>1. \A i \in 1 .. n : i \in 1 .. n + 1
      BY <1>1
    <3> QED
      BY <3>1, <2>4, <1>8
  <2>7. ms[n + 1] = C
    <3>1. n + 1 \in 1 .. n + 1
      BY <1>1
    <3> QED
      BY <3>1, <2>4, <1>8
  <2>8. \A q \in 1 .. b : ms[n + 1 + q] = tools[q]
    <3>1. \A q \in 1 .. b : q \in 1 .. b + m
      BY <1>1, <1>9
    <3> QED
      BY <3>1, <2>5, <1>7
  <2>9. ASSUME NEW i \in n + 1 + b + 1 .. n + 1 + b + m PROVE ms[i].role = "image"
    <3>1. PICK q \in b + 1 .. b + m : i = n + 1 + q
      <4>1. i - (n + 1) \in b + 1 .. b + m /\ i = n + 1 + (i - (n + 1))
        BY <1>1, <1>9
      <4> QED
        BY <4>1
    <3>2. q \in 1 .. b + m
      BY <1>1, <1>9
    <3>3. ms[i] = tail[q] /\ tail[q].role = "image"
      BY <3>1, <3>2, <2>5, <1>7
    <3> QED
      BY <3>3
  <2> QED
    BY <2>a, <2>2, <2>3, <2>6, <2>7, <2>8, <2>9
<1> HIDE DEF ms
<1>11. \A i \in DOMAIN ms : \/ i \in 1 .. n
                            \/ i = n + 1
                            \/ \E q \in 1 .. b : i = n + 1 + q
                            \/ i \in n + 1 + b + 1 .. n + 1 + b + m
  <2>1. ASSUME NEW i \in 1 .. n + 1 + b + m, i \notin 1 .. n, i # n + 1, i \notin n + 1 + b + 1 .. n + 1 + b + m
        PROVE  \E q \in 1 .. b : i = n + 1 + q
    <3>1. i - (n + 1) \in 1 .. b /\ i = n + 1 + (i - (n + 1))
      BY <2>1, <1>1, <1>9
    <3> QED
      BY <3>1
  <2> QED
    BY <2>1, <1>10
<1>12. Steps(ms) = Steps(prior) \cup {n + 1} /\ Steps(prior) \subseteq 1 .. n
  <2>1. Steps(prior) \subseteq 1 .. n
    BY <1>1 DEF Steps
  <2>2. ASSUME NEW i \in DOMAIN ms, ms[i].role = "calls" PROVE i \in Steps(prior) \cup {n + 1}
    BY <2>2, <1>1, <1>2, <1>10, <1>11, ZenonT(40) DEF Steps
  <2>3. ASSUME NEW i \in Steps(prior) PROVE i \in DOMAIN ms /\ ms[i].role = "calls"
    <3>1. i \in 1 .. n /\ prior[i].role = "calls" /\ i \in 1 .. n + 1 + b + m
      BY <1>1, <1>9 DEF Steps
    <3> QED
      BY <3>1, <1>10
  <2>4. n + 1 \in DOMAIN ms /\ ms[n + 1].role = "calls"
    <3>1. n + 1 \in 1 .. n + 1 + b + m
      BY <1>1, <1>9
    <3> QED
      BY <3>1, <1>10, <1>c
  <2> QED
    BY <2>1, <2>2, <2>3, <2>4 DEF Steps
<1>13. ASSUME NEW i \in Steps(prior)
       PROVE  /\ Window(ms, i) = Window(prior, i)
              /\ Window(ms, i) \subseteq {j \in DOMAIN ms : ms[j].role = "tool"}
              /\ {ms[j].ids : j \in Window(ms, i)} = {<<ms[i].ids[k]>> : k \in DOMAIN ms[i].ids}
  <2>1. ms[i] = prior[i]
    BY <1>10, <1>12
  <2>2. Window(ms, i) = Window(prior, i)
    BY <2>1 DEF Window
  <2>3. /\ Window(prior, i) \subseteq {j \in 1 .. n : prior[j].role = "tool"}
        /\ {prior[j].ids : j \in Window(prior, i)} = {<<prior[i].ids[k]>> : k \in DOMAIN prior[i].ids}
    BY <1>1 DEF Paired
  <2>4. \A j \in 1 .. n : j \in DOMAIN ms /\ ms[j] = prior[j]
    <3>1. \A j \in 1 .. n : j \in 1 .. n + 1 + b + m
      BY <1>1, <1>9
    <3> QED
      BY <3>1, <1>10
  <2>5. Window(prior, i) \subseteq {j \in DOMAIN ms : ms[j].role = "tool"}
    BY <2>3, <2>4
  <2>6. {ms[j].ids : j \in Window(prior, i)} = {prior[j].ids : j \in Window(prior, i)}
    BY <2>3, <2>4
  <2> QED
    BY <2>1, <2>2, <2>3, <2>5, <2>6
<1>14. /\ Window(ms, n + 1) = {n + 1 + q : q \in 1 .. b}
       /\ Window(ms, n + 1) \subseteq {j \in DOMAIN ms : ms[j].role = "tool"}
       /\ {ms[j].ids : j \in Window(ms, n + 1)} = {<<ms[n + 1].ids[k]>> : k \in DOMAIN ms[n + 1].ids}
  <2>1. Window(ms, n + 1) = n + 1 + 1 .. n + 1 + b
    BY <1>10, <1>c DEF Window
  <2>2. ASSUME NEW j \in n + 1 + 1 .. n + 1 + b PROVE \E q \in 1 .. b : j = n + 1 + q
    <3>1. j - (n + 1) \in 1 .. b /\ j = n + 1 + (j - (n + 1))
      BY <1>1
    <3> QED
      BY <3>1
  <2>3. \A q \in 1 .. b : n + 1 + q \in n + 1 + 1 .. n + 1 + b /\ n + 1 + q \in 1 .. n + 1 + b + m
    BY <1>1, <1>9
  <2>4. Window(ms, n + 1) = {n + 1 + q : q \in 1 .. b}
    BY <2>1, <2>2, <2>3
  <2>5. \A q \in 1 .. b : /\ n + 1 + q \in DOMAIN ms /\ ms[n + 1 + q].role = "tool"
                          /\ ms[n + 1 + q].ids = <<rs[q].id>>
    BY <2>3, <1>2, <1>10
  <2>6. {ms[j].ids : j \in Window(ms, n + 1)} = {<<rs[q].id>> : q \in 1 .. b}
    <3>1. \A j \in Window(ms, n + 1) : \E q \in 1 .. b : ms[j].ids = <<rs[q].id>>
      BY <2>4, <2>5
    <3>2. \A q \in 1 .. b : \E j \in Window(ms, n + 1) : ms[j].ids = <<rs[q].id>>
      <4>1. \A q \in 1 .. b : n + 1 + q \in Window(ms, n + 1)
        BY <2>4
      <4> QED
        BY <4>1, <2>5
    <3> QED
      BY <3>1, <3>2, ZenonT(40)
  <2>7. {<<ms[n + 1].ids[k]>> : k \in DOMAIN ms[n + 1].ids} = {<<batch[k].id>> : k \in 1 .. b}
    <3>1. DOMAIN ms[n + 1].ids = 1 .. b /\ \A k \in 1 .. b : ms[n + 1].ids[k] = batch[k].id
      BY <1>10, <1>c
    <3> QED
      BY <3>1
  <2>8. {rs[q].id : q \in 1 .. b} = {batch[k].id : k \in 1 .. b}
    BY <1>1 DEF IdsOf
  <2>9. {<<rs[q].id>> : q \in 1 .. b} = {<<batch[k].id>> : k \in 1 .. b}
    <3>1. \A q \in 1 .. b : \E k \in 1 .. b : rs[q].id = batch[k].id
      BY <2>8
    <3>2. \A k \in 1 .. b : \E q \in 1 .. b : rs[q].id = batch[k].id
      BY <2>8
    <3> QED
      BY <3>1, <3>2
  <2> QED
    BY <2>4, <2>5, <2>6, <2>7, <2>9
<1>15. ASSUME NEW j \in DOMAIN ms, ms[j].role = "tool" PROVE \E i \in Steps(ms) : j \in Window(ms, i)
  <2>1. CASE j \in 1 .. n
    <3>1. prior[j].role = "tool" /\ j \in DOMAIN prior
      BY <2>1, <1>1, <1>10, <1>15
    <3>2. PICK i \in Steps(prior) : j \in Window(prior, i)
      BY <3>1 DEF Paired
    <3> QED
      BY <3>2, <1>12, <1>13
  <2>2. CASE \E q \in 1 .. b : j = n + 1 + q
    BY <2>2, <1>12, <1>14
  <2>3. j # n + 1 /\ j \notin n + 1 + b + 1 .. n + 1 + b + m
    BY <1>15, <1>10, <1>c
  <2> QED
    BY <2>1, <2>2, <2>3, <1>11
<1>16. Paired(ms)
  BY <1>12, <1>13, <1>14, <1>15 DEF Paired
<1>17. ms = Append(prior, CallsMsg(batch)) \o Injected(rs)
  BY DEF ms, tail, open, C, tools, pics, Injected
<1> QED
  BY <1>10, <1>16, <1>17

-----------------------------------------------------------------------------
(* The inductive invariant.                                                    *)

Work == {"step", "open", "model", "batch", "regular"}
Verdict(end) == IF end = "error" THEN "failed" ELSE "completed"

RootGood(x) == x.up = 0 /\ x.depth = 0 /\ x.card = "none" /\ x.pc \notin {"brief", "closing"}

(* A delegation at work is shown as running and keeps off the browser; its card *)
(* and its record follow its phase.                                            *)
KidGood(x) ==
    /\ x.up # 0 /\ x.depth >= 1
    /\ x.pc \in Work => x.card = "open" /\ x.row = "running" /\ "ui" \notin x.grant
    /\ x.pc = "brief" => x.card = "none"
    /\ x.pc = "closing" => x.card = "open" /\ x.row \in {"running", Verdict(x.end)}
    /\ x.card = "open" /\ x.pc = "over" => x.cut # "no"
    /\ x.card = "closed" => x.pc = "over" /\ x.row = Verdict(x.end)
LoopGood(l, x) == /\ x \in Loop
                  /\ x.shown \subseteq {x.streams}
                  /\ l = 1 => RootGood(x)
                  /\ l # 1 => KidGood(x)
                  /\ TalkGood(x)

(* Who delegated to x had been configured, may delegate, and passed on no more *)
(* than it has.                                                                *)
Handing(x, y) == /\ x.grant \subseteq y.grant /\ "delegate_task" \in y.grant
                 /\ x.depth = y.depth + 1 /\ y.pc # "brief"

(* While the delegations of a run that is over are cancelled, those not over   *)
(* are among the ones that were found, as far as they are the root's own.      *)
Reaping(l, x, h, s) == x.depth <= 1 => /\ h = "reap" => x.pc = "over" \/ l \in s
                                       /\ h = "done" => x.pc = "over"

Fits(ls, h, s) ==
    /\ ls \in Seq(Loop) /\ 1 \in DOMAIN ls
    /\ h \in {"no", "reap", "done"} /\ s \subseteq DOMAIN ls
    /\ \A l \in DOMAIN ls : LoopGood(l, ls[l])
    /\ \A l \in DOMAIN ls : l # 1 => ls[l].up \in DOMAIN ls /\ Handing(ls[l], ls[ls[l].up])
    /\ h # "no" => ls[1].pc = "over"
    /\ \A l \in DOMAIN ls : Reaping(l, ls[l], h, s)
LoopInv == calls \in 0 .. MaxCalls /\ Fits(loops, halt, snap)

(* What a step of one loop may do to it.                                       *)
Stepped(x, y) == /\ x.pc # "over" /\ y.pc # "brief"
                 /\ y.up = x.up /\ y.depth = x.depth
                 /\ y.grant \subseteq x.grant /\ (y.grant = x.grant \/ x.pc = "brief")

LEMMA OneLoop ==
  ASSUME NEW ls, NEW h, NEW s, Fits(ls, h, s), NEW l \in DOMAIN ls, NEW y,
         LoopGood(l, y), Stepped(ls[l], y)
  PROVE  Fits([ls EXCEPT ![l] = y], h, s)
<1> DEFINE ms == [ls EXCEPT ![l] = y]
<1>1. ls \in Seq(Loop) /\ y \in Loop
  BY DEF Fits, LoopGood
<1>2. ms \in Seq(Loop) /\ Len(ms) = Len(ls)
  BY <1>1, ExceptSeq
<1>3. DOMAIN ms = DOMAIN ls /\ ms[l] = y /\ \A k \in DOMAIN ls : k # l => ms[k] = ls[k]
  OBVIOUS
<1> HIDE DEF ms
<1>4. ASSUME NEW k \in DOMAIN ls, k # 1
      PROVE  ms[k].up \in DOMAIN ls /\ Handing(ms[k], ms[ms[k].up])
  <2>1. ls[k].up \in DOMAIN ls /\ Handing(ls[k], ls[ls[k].up])
    BY <1>4 DEF Fits
  <2>2. ms[k].up = ls[k].up /\ ms[k].grant \subseteq ls[k].grant /\ ms[k].depth = ls[k].depth
    BY <1>3 DEF Stepped
  <2>3. CASE ls[k].up = l
    <3>1. y.grant = ls[l].grant /\ y.depth = ls[l].depth /\ y.pc # "brief"
      BY <2>1, <2>3 DEF Stepped, Handing
    <3>2. ms[ms[k].up] = y
      BY <1>3, <2>2, <2>3
    <3> QED
      BY <2>1, <2>2, <2>3, <3>1, <3>2 DEF Handing
  <2>4. CASE ls[k].up # l
    <3>1. ms[ms[k].up] = ls[ls[k].up]
      BY <1>3, <2>1, <2>2, <2>4
    <3> QED
      BY <2>1, <2>2, <3>1 DEF Handing
  <2> QED
    BY <2>3, <2>4
<1>5. ASSUME NEW k \in DOMAIN ls PROVE Reaping(k, ms[k], h, s)
  <2>1. Reaping(k, ls[k], h, s)
    BY DEF Fits
  <2> QED
    BY <2>1, <1>3 DEF Reaping, Stepped
<1>6. h # "no" => ms[1].pc = "over"
  BY <1>3 DEF Fits, Stepped
<1>7. \A k \in DOMAIN ls : LoopGood(k, ms[k])
  BY <1>3 DEF Fits
<1>8. 1 \in DOMAIN ls /\ h \in {"no", "reap", "done"} /\ s \subseteq DOMAIN ls
  BY DEF Fits
<1>9. Fits(ms, h, s)
  BY <1>2, <1>3, <1>4, <1>5, <1>6, <1>7, <1>8 DEF Fits
<1> QED
  BY <1>9 DEF ms

(* Loops that were just delegated to are added.                                *)
LEMMA MoreLoops ==
  ASSUME NEW ls, NEW h, NEW s, Fits(ls, h, s), NEW l \in DOMAIN ls, NEW kids \in Seq(Loop),
         ls[l].pc \notin {"brief", "over"}, kids # <<>> => "delegate_task" \in ls[l].grant,
         \A i \in DOMAIN kids : /\ LoopGood(0, kids[i])
                                /\ kids[i].up = l /\ kids[i].depth = ls[l].depth + 1
                                /\ kids[i].grant = ls[l].grant
  PROVE  Fits(ls \o kids, h, s)
<1> DEFINE ms == ls \o kids
<1>1. ls \in Seq(Loop) /\ DOMAIN ls = 1 .. Len(ls) /\ Len(ls) \in Nat /\ DOMAIN kids = 1 .. Len(kids) /\ Len(kids) \in Nat
  BY LenProperties DEF Fits
<1>2. /\ ms \in Seq(Loop) /\ Len(ms) = Len(ls) + Len(kids)
      /\ \A i \in 1 .. Len(ls) + Len(kids) : ms[i] = IF i <= Len(ls) THEN ls[i] ELSE kids[i - Len(ls)]
  <2>1. ls \in Seq(Loop) /\ kids \in Seq(Loop)
    BY <1>1
  <2> QED
    BY <2>1, ConcatProperties
<1> HIDE DEF ms
<1>3. DOMAIN ms = 1 .. Len(ls) + Len(kids)
  BY <1>2, LenProperties
<1>4. ASSUME NEW k \in DOMAIN ms
      PROVE  \/ k \in DOMAIN ls /\ ms[k] = ls[k]
             \/ k \notin DOMAIN ls /\ k # 1 /\ \E i \in DOMAIN kids : ms[k] = kids[i]
  <2>1. CASE k <= Len(ls)
    BY <2>1, <1>1, <1>2, <1>3
  <2>2. CASE ~(k <= Len(ls))
    <3>1. k - Len(ls) \in DOMAIN kids /\ ms[k] = kids[k - Len(ls)] /\ k \notin DOMAIN ls
      BY <2>2, <1>1, <1>2, <1>3
    <3>2. 1 \in DOMAIN ls
      BY DEF Fits
    <3> QED
      BY <3>1, <3>2
  <2> QED
    BY <2>1, <2>2
<1>5. \A k \in DOMAIN ls : k \in DOMAIN ms /\ ms[k] = ls[k]
  <2>1. \A k \in DOMAIN ls : k \in 1 .. Len(ls) + Len(kids) /\ k <= Len(ls)
    BY <1>1
  <2> QED
    BY <2>1, <1>2, <1>3
<1>6. ASSUME NEW k \in DOMAIN ms, k \notin DOMAIN ls
      PROVE  LoopGood(k, ms[k]) /\ ms[k].up = l /\ Handing(ms[k], ls[l]) /\ Reaping(k, ms[k], h, s)
  <2>1. PICK i \in DOMAIN kids : ms[k] = kids[i]
    BY <1>4, <1>6
  <2>2. LoopGood(0, ms[k]) /\ ms[k].up = l /\ ms[k].depth = ls[l].depth + 1 /\ ms[k].grant = ls[l].grant /\ k # 1
    BY <1>4, <1>6, <2>1
  <2>3. "delegate_task" \in ls[l].grant
    BY <2>1
  <2>4. LoopGood(k, ms[k])
    BY <2>2 DEF LoopGood
  <2>5. Handing(ms[k], ls[l])
    BY <2>2, <2>3 DEF Handing
  <2>6. Reaping(k, ms[k], h, s)
    <3>1. CASE l = 1
      BY <3>1 DEF Fits, Reaping
    <3>2. CASE l # 1
      <4>1. ls[l] \in Loop /\ ls[l].depth >= 1
        BY <3>2 DEF Fits, LoopGood, KidGood
      <4>2. ls[l].depth \in Nat
        BY <4>1 DEF Loop
      <4>3. ~(ms[k].depth <= 1)
        BY <4>1, <4>2, <2>2
      <4> QED
        BY <4>3 DEF Reaping
    <3> QED
      BY <3>1, <3>2
  <2> QED
    BY <2>2, <2>4, <2>5, <2>6
<1>7. ASSUME NEW k \in DOMAIN ms PROVE LoopGood(k, ms[k]) /\ Reaping(k, ms[k], h, s)
  BY <1>4, <1>5, <1>6 DEF Fits
<1>8. ASSUME NEW k \in DOMAIN ms, k # 1 PROVE ms[k].up \in DOMAIN ms /\ Handing(ms[k], ms[ms[k].up])
  <2>1. CASE k \in DOMAIN ls
    <3>1. ms[k] = ls[k] /\ ls[k].up \in DOMAIN ls /\ Handing(ls[k], ls[ls[k].up])
      BY <2>1, <1>5, <1>8 DEF Fits
    <3> QED
      BY <3>1, <1>5
  <2>2. CASE k \notin DOMAIN ls
    <3>1. ms[k].up = l /\ Handing(ms[k], ls[l])
      BY <2>2, <1>6
    <3> QED
      BY <3>1, <1>5
  <2> QED
    BY <2>1, <2>2
<1>9. /\ 1 \in DOMAIN ls /\ h \in {"no", "reap", "done"} /\ s \subseteq DOMAIN ls
      /\ h # "no" => ls[1].pc = "over"
  BY DEF Fits
<1>10. 1 \in DOMAIN ms /\ s \subseteq DOMAIN ms /\ (h # "no" => ms[1].pc = "over")
  BY <1>5, <1>9
<1>11. Fits(ms, h, s)
  BY <1>2, <1>7, <1>8, <1>9, <1>10 DEF Fits
<1> QED
  BY <1>11 DEF ms

-----------------------------------------------------------------------------
(* What the invariant says of the properties.                                  *)

(* The line above a loop is within every set that holds the loop and whoever   *)
(* delegated to a member.                                                      *)
LEMMA Upwards ==
  ASSUME NEW l \in Id, NEW S \in SUBSET Id, l \in S, \A k \in S : k # 1 => loops[k].up \in S
  PROVE  LineOf(l) \subseteq S
BY DEF LineOf

LEMMA InvNarrows == LoopInv => NarrowedAllTheWay
<1> SUFFICES ASSUME LoopInv, NEW l \in Id
             PROVE  /\ loops[l].pc = "regular" /\ loops[l].todo # <<>> /\ Granted(loops[l], Head(loops[l].todo)) =>
                          /\ \A a \in LineOf(l) : Head(loops[l].todo).tool \in loops[a].grant
                          /\ Head(loops[l].todo).tool = "ui" => l = 1
                    /\ \A a \in LineOf(l) \ {l} : "delegate_task" \in loops[a].grant
  BY DEF NarrowedAllTheWay
<1>1. \A k \in Id : k # 1 => loops[k].up \in Id /\ Handing(loops[k], loops[loops[k].up])
  BY DEF LoopInv, Fits, Id
<1>2. ASSUME NEW t, t \in loops[l].grant PROVE \A a \in LineOf(l) : t \in loops[a].grant
  <2> DEFINE S == {k \in Id : t \in loops[k].grant}
  <2>1. S \in SUBSET Id /\ l \in S
    BY <1>2
  <2>2. \A k \in S : k # 1 => loops[k].up \in S
    BY <1>1 DEF Handing
  <2>3. LineOf(l) \subseteq S
    <3> HIDE DEF S
    <3> QED
      BY <2>1, <2>2, Upwards
  <2> QED
    BY <2>3
<1>3. \A a \in LineOf(l) \ {l} : "delegate_task" \in loops[a].grant
  <2> DEFINE S == {k \in Id : k = l \/ "delegate_task" \in loops[k].grant}
  <2>1. S \in SUBSET Id /\ l \in S
    OBVIOUS
  <2>2. \A k \in S : k # 1 => loops[k].up \in S
    BY <1>1 DEF Handing
  <2>3. LineOf(l) \subseteq S
    <3> HIDE DEF S
    <3> QED
      BY <2>1, <2>2, Upwards
  <2> QED
    BY <2>3
<1>4. ASSUME loops[l].pc = "regular", "ui" \in loops[l].grant PROVE l = 1
  <2>1. l # 1 => KidGood(loops[l])
    BY DEF LoopInv, Fits, Id, LoopGood
  <2> QED
    BY <2>1, <1>4 DEF KidGood, Work
<1>5. ASSUME loops[l].pc = "regular", loops[l].todo # <<>>, Granted(loops[l], Head(loops[l].todo))
      PROVE  /\ \A a \in LineOf(l) : Head(loops[l].todo).tool \in loops[a].grant
             /\ Head(loops[l].todo).tool = "ui" => l = 1
  <2>1. Head(loops[l].todo).tool \in loops[l].grant
    BY <1>5 DEF Granted
  <2> QED
    BY <2>1, <1>2, <1>4, <1>5
<1> QED
  BY <1>3, <1>5

LEMMA InvPairs == LoopInv => RequestWellFormed
<1> SUFFICES ASSUME LoopInv, NEW l \in Id, loops[l].pc \in {"open", "model"}
             PROVE  Paired(loops[l].msgs)
  BY DEF RequestWellFormed
<1>1. TalkGood(loops[l])
  BY DEF LoopInv, Fits, Id, LoopGood
<1> QED
  BY <1>1 DEF TalkGood

LEMMA InvShows == LoopInv => ShownAsIs
<1> SUFFICES ASSUME LoopInv PROVE ShownAsIs
  OBVIOUS
<1>1. \A l \in Id : LoopGood(l, loops[l])
  BY DEF LoopInv, Fits, Id
<1>2. NoReplay
  <2>1. ASSUME NEW l \in Id PROVE Cardinality(loops[l].shown) <= 1
    <3>1. loops[l].shown = {} \/ loops[l].shown = {loops[l].streams}
      BY <1>1 DEF LoopGood
    <3>2. Cardinality({}) = 0
      BY FS_EmptySet
    <3>3. Cardinality({loops[l].streams}) = 1
      BY FS_Singleton
    <3>4. CASE loops[l].shown = {}
      BY <3>2, <3>4
    <3>5. CASE loops[l].shown = {loops[l].streams}
      BY <3>3, <3>5
    <3> QED
      BY <3>1, <3>4, <3>5
  <2> QED
    BY <2>1 DEF NoReplay
<1>3. CardCloses
  <2>1. ASSUME NEW l \in Id
        PROVE  /\ loops[l].card = "open" /\ loops[l].pc = "over" => loops[l].cut # "no"
               /\ loops[l].card = "closed" =>
                     loops[l].row = IF loops[l].end = "error" THEN "failed" ELSE "completed"
    <3>1. l = 1 => loops[l].card = "none"
      BY <1>1 DEF LoopGood, RootGood
    <3>2. l # 1 => KidGood(loops[l])
      BY <1>1 DEF LoopGood
    <3> QED
      BY <3>1, <3>2 DEF KidGood, Verdict
  <2> QED
    BY <2>1 DEF CardCloses
<1>4. NothingAfterEnd
  <2>1. ASSUME halt = "done", NEW l \in Id, loops[l].depth <= 1 PROVE loops[l].pc = "over"
    <3>1. Reaping(l, loops[l], halt, snap)
      BY DEF LoopInv, Fits, Id
    <3> QED
      BY <3>1, <2>1 DEF Reaping
  <2> QED
    BY <2>1 DEF NothingAfterEnd
<1> QED
  BY <1>2, <1>3, <1>4 DEF ShownAsIs

LEMMA InvTypes == LoopInv => TypeOK
BY DEF LoopInv, Fits, TypeOK, Id

-----------------------------------------------------------------------------
(* Steps of one loop.                                                          *)

(* Cutting a loop short changes nothing else of it.                            *)
LEMMA CutsWell ==
  ASSUME NEW l, NEW x, LoopGood(l, x), NEW w \in {"no", "cut", "last"}, x.cut # "no" => w # "no"
  PROVE  LoopGood(l, [x EXCEPT !.cut = w])
<1> DEFINE y == [x EXCEPT !.cut = w]
<1>1. x \in Loop
  BY DEF LoopGood
<1>2. /\ y \in Loop /\ y.cut = w /\ y.up = x.up /\ y.depth = x.depth /\ y.grant = x.grant /\ y.pc = x.pc
      /\ y.streams = x.streams /\ y.shown = x.shown /\ y.msgs = x.msgs /\ y.batch = x.batch
      /\ y.todo = x.todo /\ y.results = x.results /\ y.card = x.card /\ y.row = x.row /\ y.end = x.end
  BY <1>1 DEF Loop
<1> HIDE DEF y
<1>3. TalkGood(x) => TalkGood(y)
  <2>1. Stored(y) = Stored(x)
    BY <1>2 DEF Stored, Cached
  <2>2. Given(y) = Given(x)
    BY <1>2, <2>1 DEF Given
  <2>3. Executing(y) = Executing(x) /\ Accounted(y) = Accounted(x)
    BY <1>2, <2>2 DEF Executing, Accounted
  <2> QED
    BY <1>2, <2>3 DEF TalkGood
<1>4. KidGood(x) => KidGood(y)
  BY <1>2 DEF KidGood
<1>5. RootGood(x) => RootGood(y)
  BY <1>2 DEF RootGood
<1>6. LoopGood(l, y)
  BY <1>2, <1>3, <1>4, <1>5 DEF LoopGood
<1> QED
  BY <1>6 DEF y

(* What a step makes of a loop is worn before it is stored.                    *)
LEMMA Updating ==
  ASSUME LoopInv, NEW l \in Id, NEW y, LoopGood(l, y), Stepped(loops[l], y), y.cut = loops[l].cut,
         Upd(l, y), calls' \in 0 .. MaxCalls, halt' = halt, snap' = snap
  PROVE  LoopInv'
<1> DEFINE w == Worn(loops[l])
           z == [y EXCEPT !.cut = w]
<1>1. y \in Loop /\ loops[l] \in Loop
  BY DEF LoopInv, Fits, Id, LoopGood
<1>2. w \in {"no", "cut", "last"} /\ (y.cut # "no" => w # "no")
  BY <1>1 DEF Worn, Loop
<1>3. LoopGood(l, z)
  BY <1>2, CutsWell
<1>4. Stepped(loops[l], z)
  BY <1>1 DEF Stepped, Loop
<1>5. Fits(loops, halt, snap) /\ l \in DOMAIN loops
  BY DEF LoopInv, Id
<1>6. loops' = [loops EXCEPT ![l] = z]
  BY DEF Upd
<1> HIDE DEF z
<1>7. Fits([loops EXCEPT ![l] = z], halt, snap)
  BY <1>3, <1>4, <1>5, OneLoop
<1> QED
  BY <1>6, <1>7 DEF LoopInv

Good(l, x, y) == LoopGood(l, y) /\ Stepped(x, y) /\ y.cut = x.cut

(* A loop that stays at work.                                                  *)
LEMMA StaysAtWork ==
  ASSUME NEW l, NEW x, LoopGood(l, x), x.pc \in Work,
         NEW y \in Loop, y.pc \in Work, y.up = x.up, y.depth = x.depth, y.grant = x.grant,
         y.cut = x.cut, y.card = x.card, y.row = x.row, y.shown \subseteq {y.streams}, TalkGood(y)
  PROVE  Good(l, x, y)
<1>1. Stepped(x, y)
  BY DEF Stepped, Work
<1>2. RootGood(x) => RootGood(y)
  BY DEF RootGood, Work
<1>3. KidGood(x) => KidGood(y)
  BY DEF KidGood, Work
<1> QED
  BY <1>1, <1>2, <1>3 DEF Good, LoopGood

LEMMA EndsWell ==
  ASSUME NEW l, NEW x, LoopGood(l, x), x.pc \in Work, NEW end \in {"completed", "max_iterations", "error"}
  PROVE  Good(l, x, Ended(x, end))
<1> DEFINE y == Ended(x, end)
<1>1. x \in Loop
  BY DEF LoopGood
<1>2. Emptied(x) \in Loop /\ Emptied(x).shown = {} /\ Emptied(x).up = x.up
      /\ Emptied(x).depth = x.depth /\ Emptied(x).grant = x.grant /\ Emptied(x).cut = x.cut
      /\ Emptied(x).card = x.card /\ Emptied(x).row = x.row
  <2>1. <<>> \in Seq(Msg) /\ <<>> \in Seq(Call) /\ <<>> \in Seq(Result)
    OBVIOUS
  <2> QED
    BY <1>1, <2>1 DEF Emptied, Loop
<1>3. /\ y \in Loop /\ y.shown = {} /\ y.up = x.up /\ y.depth = x.depth /\ y.grant = x.grant /\ y.cut = x.cut
      /\ y.card = x.card /\ y.row = x.row /\ y.end = end /\ y.pc = IF x.up = 0 THEN "over" ELSE "closing"
  <2> DEFINE e == Emptied(x)
             p == IF x.up = 0 THEN "over" ELSE "closing"
  <2>1. e \in Loop /\ p \in {"over", "closing"}
    BY <1>2
  <2>2. y = [e EXCEPT !.end = end, !.pc = p]
    BY DEF Ended
  <2> HIDE DEF e, p, y
  <2>3. y \in Loop /\ y.shown = e.shown /\ y.up = e.up /\ y.depth = e.depth /\ y.grant = e.grant /\ y.cut = e.cut
        /\ y.card = e.card /\ y.row = e.row /\ y.end = end /\ y.pc = p
    BY <2>1, <2>2, ZenonT(40) DEF Loop, Phase, Outcome
  <2> QED
    BY <2>3, <1>2 DEF e, p
<1> HIDE DEF y
<1>4. Stepped(x, y) /\ TalkGood(y)
  BY <1>3 DEF Stepped, Work, TalkGood
<1>5. RootGood(x) => RootGood(y)
  BY <1>3 DEF RootGood
<1>6. KidGood(x) => KidGood(y)
  BY <1>3 DEF KidGood, Work
<1>7. Good(l, x, y)
  BY <1>3, <1>4, <1>5, <1>6 DEF Good, LoopGood
<1> QED
  BY <1>7 DEF y

LEMMA OpensAgainWell ==
  ASSUME NEW l, NEW x, LoopGood(l, x), x.pc \in {"open", "model"}
  PROVE  Good(l, x, Again(x))
<1>1. CASE x.shown = {} /\ x.streams <= Restream
  <2> DEFINE n == x.streams + 1
             y == [x EXCEPT !.pc = "open", !.streams = n]
  <2>1. x \in Loop
    BY DEF LoopGood
  <2>a. n \in Nat
    BY <2>1 DEF Loop
  <2>2. /\ y \in Loop /\ y.pc = "open" /\ y.up = x.up /\ y.depth = x.depth /\ y.grant = x.grant
        /\ y.cut = x.cut /\ y.card = x.card /\ y.row = x.row /\ y.shown = x.shown /\ y.msgs = x.msgs
    <3> HIDE DEF n
    <3> QED
      BY <2>1, <2>a DEF Loop, Phase
  <2>3. Again(x) = y
    BY <1>1 DEF Again
  <2> HIDE DEF y
  <2>4. TalkGood(y)
    BY <2>2 DEF LoopGood, TalkGood
  <2>5. Good(l, x, y)
    BY <2>2, <2>4, <1>1, StaysAtWork DEF Work
  <2> QED
    BY <2>3, <2>5
<1>2. CASE ~(x.shown = {} /\ x.streams <= Restream)
  <2>1. Again(x) = Ended(x, "error")
    BY <1>2 DEF Again
  <2> QED
    BY <2>1, EndsWell DEF Work
<1> QED
  BY <1>1, <1>2

LEMMA BeginsWell ==
  ASSUME NEW l, NEW x, LoopGood(l, x), x.pc = "step"
  PROVE  Good(l, x, [x EXCEPT !.pc = "open", !.streams = 1, !.shown = {}, !.msgs = Compressed(@, x.step)])
<1> DEFINE cs == Compressed(x.msgs, x.step)
           y == [x EXCEPT !.pc = "open", !.streams = 1, !.shown = {}, !.msgs = Compressed(@, x.step)]
<1>1. x \in Loop /\ x.msgs \in Seq(Msg) /\ Paired(x.msgs)
  BY DEF LoopGood, TalkGood, Loop
<1>2. cs \in Seq(Msg) /\ Paired(cs)
  BY <1>1, CompressedPairs
<1>3. y = [x EXCEPT !.pc = "open", !.streams = 1, !.shown = {}, !.msgs = cs]
  OBVIOUS
<1> HIDE DEF cs, y
<1>4. /\ y \in Loop /\ y.pc = "open" /\ y.up = x.up /\ y.depth = x.depth /\ y.grant = x.grant
      /\ y.cut = x.cut /\ y.card = x.card /\ y.row = x.row /\ y.shown = {} /\ y.msgs = cs
  BY <1>1, <1>2, <1>3 DEF Loop, Phase
<1>5. TalkGood(y)
  BY <1>2, <1>4 DEF TalkGood
<1>6. Good(l, x, y)
  BY <1>4, <1>5, StaysAtWork DEF Work
<1> QED
  BY <1>6 DEF y

LEMMA StreamsWell ==
  ASSUME NEW l, NEW x, LoopGood(l, x)
  PROVE  /\ x.pc = "open" => Good(l, x, [x EXCEPT !.pc = "model"])
         /\ x.pc = "model" => Good(l, x, [x EXCEPT !.shown = @ \cup {x.streams}])
<1>1. x \in Loop /\ x.shown \subseteq {x.streams}
  BY DEF LoopGood
<1>2. ASSUME x.pc = "open" PROVE Good(l, x, [x EXCEPT !.pc = "model"])
  <2> DEFINE y == [x EXCEPT !.pc = "model"]
  <2>1. /\ y \in Loop /\ y.pc = "model" /\ y.up = x.up /\ y.depth = x.depth /\ y.grant = x.grant
        /\ y.cut = x.cut /\ y.card = x.card /\ y.row = x.row /\ y.shown = x.shown
        /\ y.streams = x.streams /\ y.msgs = x.msgs
    BY <1>1 DEF Loop, Phase
  <2> HIDE DEF y
  <2>2. TalkGood(y)
    BY <1>2, <2>1 DEF TalkGood, LoopGood
  <2>3. Good(l, x, y)
    BY <1>1, <1>2, <2>1, <2>2, StaysAtWork DEF Work
  <2> QED
    BY <2>3 DEF y
<1>3. ASSUME x.pc = "model" PROVE Good(l, x, [x EXCEPT !.shown = @ \cup {x.streams}])
  <2> DEFINE y == [x EXCEPT !.shown = @ \cup {x.streams}]
  <2>1. x.shown \cup {x.streams} = {x.streams} /\ {x.streams} \in SUBSET Nat
    BY <1>1 DEF Loop
  <2>2. y = [x EXCEPT !.shown = {x.streams}]
    BY <2>1
  <2> HIDE DEF y
  <2>3. /\ y \in Loop /\ y.pc = "model" /\ y.up = x.up /\ y.depth = x.depth /\ y.grant = x.grant
        /\ y.cut = x.cut /\ y.card = x.card /\ y.row = x.row /\ y.shown = {x.streams}
        /\ y.streams = x.streams /\ y.msgs = x.msgs
    BY <1>1, <1>3, <2>1, <2>2 DEF Loop
  <2>4. TalkGood(y)
    BY <1>3, <2>3 DEF TalkGood, LoopGood
  <2>5. Good(l, x, y)
    BY <1>3, <2>3, <2>4, StaysAtWork DEF Work
  <2> QED
    BY <2>5 DEF y
<1> QED
  BY <1>2, <1>3

-----------------------------------------------------------------------------
(* The batch of a step.                                                        *)

LEMMA AskedIsFinite ==
  ASSUME NEW ms \in Seq(Msg)
  PROVE  Cardinality(Asked(ms)) \in Nat
<1> DEFINE I == Steps(ms)
           r == [i \in I |-> Range(ms[i].ids)]
           R == {r[i] : i \in I}
<1>1. IsFiniteSet(I) /\ \A i \in I : ms[i] \in Msg
  <2>1. IsFiniteSet(DOMAIN ms) /\ I \in SUBSET DOMAIN ms /\ \A i \in DOMAIN ms : ms[i] \in Msg
    BY Positions DEF Steps
  <2>2. IsFiniteSet(I)
    BY <2>1, FS_Subset
  <2> QED
    BY <2>1, <2>2
<1>2. ASSUME NEW i \in I PROVE IsFiniteSet(r[i])
  <2> DEFINE s == ms[i].ids
  <2>1. s \in Seq(Nat)
    BY <1>1 DEF Msg
  <2> HIDE DEF s
  <2>2. IsFiniteSet(DOMAIN s) /\ \A k \in DOMAIN s : s[k] \in Nat
    BY <2>1, Positions
  <2>3. s \in Surjection(DOMAIN s, Range(s))
    <3>1. s = [k \in DOMAIN s |-> s[k]]
      BY <2>1
    <3> QED
      BY <3>1 DEF Surjection, Range
  <2>4. IsFiniteSet(Range(s))
    BY <2>2, <2>3, FS_Surjection
  <2>5. r[i] = Range(s)
    BY DEF s
  <2> QED
    BY <2>4, <2>5
<1>3. r \in Surjection(I, R)
  BY DEF Surjection
<1>4. IsFiniteSet(R)
  <2> HIDE DEF I, R, r
  <2> QED
    BY <1>1, <1>3, FS_Surjection
<1>5. \A S \in R : IsFiniteSet(S)
  BY <1>2
<1>6. IsFiniteSet(UNION R)
  <2> HIDE DEF R
  <2> QED
    BY <1>4, <1>5, FS_UNION
<1>7. Asked(ms) = UNION R
  BY DEF Asked
<1> QED
  BY <1>6, <1>7, FS_CardinalityType

LEMMA AsksWell ==
  ASSUME NEW l, NEW x, LoopGood(l, x), x.pc = "model", NEW tools \in Wanted, NEW n, n = Cardinality(Asked(x.msgs)),
         NEW batch, batch = [i \in DOMAIN tools |-> [id |-> n + i, tool |-> tools[i]]]
  PROVE  Good(l, x, [x EXCEPT !.pc = "batch", !.batch = batch, !.results = <<>>])
<1> DEFINE y == [x EXCEPT !.pc = "batch", !.batch = batch, !.results = <<>>]
<1>1. x \in Loop /\ x.msgs \in Seq(Msg)
  BY DEF LoopGood, Loop
<1>2. n \in Nat
  BY <1>1, AskedIsFinite
<1>3. batch \in Seq(Call)
  <2>1. tools \in Seq(Tool)
    BY AgentAssumption
  <2>2. DOMAIN tools = 1 .. Len(tools) /\ Len(tools) \in Nat /\ \A i \in DOMAIN tools : tools[i] \in Tool
    BY <2>1, Positions
  <2>3. \A i \in 1 .. Len(tools) : n + i \in Nat /\ tools[i] \in Tool
    BY <1>2, <2>2
  <2>4. batch = [i \in 1 .. Len(tools) |-> batch[i]]
    BY <2>2
  <2>5. \A i \in 1 .. Len(tools) : batch[i] \in Call
    BY <2>2, <2>3 DEF Call
  <2> QED
    BY <2>2, <2>4, <2>5, Listing
<1>4. <<>> \in Seq(Result)
  OBVIOUS
<1>5. /\ y \in Loop /\ y.pc = "batch" /\ y.up = x.up /\ y.depth = x.depth /\ y.grant = x.grant
      /\ y.cut = x.cut /\ y.card = x.card /\ y.row = x.row /\ y.shown = x.shown
      /\ y.streams = x.streams /\ y.msgs = x.msgs
  BY <1>1, <1>3, <1>4 DEF Loop, Phase
<1> HIDE DEF y
<1>6. TalkGood(y)
  BY <1>5 DEF TalkGood, LoopGood
<1>7. Good(l, x, y)
  BY <1>5, <1>6, StaysAtWork DEF Work, LoopGood
<1> QED
  BY <1>7 DEF y

(* The recorded calls of a batch, its delegations and the others are apart and *)
(* all of it.                                                                  *)
LEMMA BatchParts ==
  ASSUME NEW x \in Loop
  PROVE  LET rest == DOMAIN x.batch \ (Stored(x) \cup Given(x)) IN
         /\ Stored(x) \in SUBSET DOMAIN x.batch /\ Given(x) \in SUBSET DOMAIN x.batch
         /\ Cardinality(Stored(x)) + Cardinality(rest) + Cardinality(Given(x)) = Len(x.batch)
         /\ DOMAIN x.batch = Stored(x) \cup rest \cup Given(x)
         /\ Cardinality(Stored(x)) \in Nat /\ Cardinality(rest) \in Nat /\ Cardinality(Given(x)) \in Nat
<1> DEFINE D == DOMAIN x.batch
           A == Stored(x)
           G == Given(x)
           R == D \ (A \cup G)
<1>1. IsFiniteSet(D) /\ Cardinality(D) = Len(x.batch)
  BY Positions DEF Loop
<1>2. A \in SUBSET D /\ G \in SUBSET D /\ A \cap G = {}
  BY DEF Stored, Given
<1> HIDE DEF D, A, G
<1>3. R \in SUBSET D /\ A \cup G \in SUBSET D /\ (A \cup G) \cap R = {} /\ (A \cup G) \cup R = D
  BY <1>2
<1>4. IsFiniteSet(A) /\ IsFiniteSet(G) /\ IsFiniteSet(R) /\ IsFiniteSet(A \cup G)
  BY <1>1, <1>2, <1>3, FS_Subset
<1> HIDE DEF R
<1>5. Cardinality(A) \in Nat /\ Cardinality(G) \in Nat /\ Cardinality(R) \in Nat
  BY <1>4, FS_CardinalityType
<1>6. Cardinality(A \cup G) = Cardinality(A) + Cardinality(G)
  <2>1. Cardinality(A \cup G) = Cardinality(A) + Cardinality(G) - Cardinality(A \cap G)
    BY <1>4, FS_Union
  <2> QED
    BY <1>2, <1>5, <2>1, FS_EmptySet
<1>7. Cardinality(D) = Cardinality(A \cup G) + Cardinality(R)
  <2>1. Cardinality((A \cup G) \cup R) = Cardinality(A \cup G) + Cardinality(R) - Cardinality((A \cup G) \cap R)
    BY <1>4, FS_Union
  <2>2. Cardinality((A \cup G) \cap R) = 0 /\ Cardinality((A \cup G) \cup R) = Cardinality(D)
    BY <1>3, FS_EmptySet
  <2> QED
    BY <1>5, <1>6, <2>1, <2>2
<1>8. D = A \cup R \cup G /\ Cardinality(A) + Cardinality(R) + Cardinality(G) = Cardinality(D)
  BY <1>3, <1>5, <1>6, <1>7
<1> QED
  BY <1>1, <1>2, <1>5, <1>8 DEF D, A, G, R

LEMMA ResType ==
  ASSUME NEW c \in Call, NEW ok \in BOOLEAN, NEW image \in BOOLEAN
  PROVE  Res(c, ok, image) \in Result /\ Res(c, ok, image).id = c.id
BY DEF Res, Call, Result

LEMMA StartsWell ==
  ASSUME NEW l, NEW x, LoopGood(l, x), x.pc = "batch",
         NEW results, results = [i \in DOMAIN Reused(x) |-> Res(Reused(x)[i], TRUE, FALSE)]
  PROVE  Good(l, x, [x EXCEPT !.pc = "regular", !.todo = Regular(x),
                              !.msgs = Append(x.msgs, CallsMsg(x.batch)), !.results = results])
<1> DEFINE rest == DOMAIN x.batch \ (Stored(x) \cup Given(x))
           todo == Regular(x)
           reused == Reused(x)
           ms == Append(x.msgs, CallsMsg(x.batch))
           y == [x EXCEPT !.pc = "regular", !.todo = todo, !.msgs = ms, !.results = results]
<1>1. x \in Loop /\ x.msgs \in Seq(Msg) /\ x.batch \in Seq(Call) /\ Paired(x.msgs)
  BY DEF LoopGood, Loop, TalkGood
<1>2. /\ Stored(x) \in SUBSET DOMAIN x.batch /\ Given(x) \in SUBSET DOMAIN x.batch /\ rest \in SUBSET DOMAIN x.batch
      /\ Cardinality(Stored(x)) + Cardinality(rest) + Cardinality(Given(x)) = Len(x.batch)
      /\ DOMAIN x.batch = Stored(x) \cup rest \cup Given(x)
  BY <1>1, BatchParts
<1>3. /\ todo \in Seq(Call) /\ Len(todo) = Cardinality(rest)
      /\ {todo[i] : i \in DOMAIN todo} = {x.batch[k] : k \in rest}
  <2>1. todo = Picked(x.batch, rest)
    BY DEF Regular
  <2>2. x.batch \in Seq(Call) /\ rest \in SUBSET DOMAIN x.batch
    BY <1>1, <1>2
  <2> HIDE DEF rest, todo, reused
  <2>3. LET p == Picked(x.batch, rest) IN
        /\ p \in Seq(Call) /\ Len(p) = Cardinality(rest) /\ Cardinality(rest) \in Nat
        /\ DOMAIN p = 1 .. Cardinality(rest)
        /\ {p[i] : i \in DOMAIN p} = {x.batch[k] : k \in rest}
    BY <2>2, PickedOnes, ZenonT(40)
  <2> QED
    BY <2>1, <2>3
<1>4. /\ reused \in Seq(Call) /\ Len(reused) = Cardinality(Stored(x))
      /\ DOMAIN reused = 1 .. Cardinality(Stored(x)) /\ Cardinality(Stored(x)) \in Nat
      /\ {reused[i] : i \in DOMAIN reused} = {x.batch[k] : k \in Stored(x)}
  <2>1. reused = Picked(x.batch, Stored(x))
    BY DEF Reused
  <2>2. x.batch \in Seq(Call) /\ Stored(x) \in SUBSET DOMAIN x.batch
    BY <1>1, <1>2
  <2> HIDE DEF rest, todo, reused
  <2>3. LET p == Picked(x.batch, Stored(x)) IN
        /\ p \in Seq(Call) /\ Len(p) = Cardinality(Stored(x)) /\ Cardinality(Stored(x)) \in Nat
        /\ DOMAIN p = 1 .. Cardinality(Stored(x))
        /\ {p[i] : i \in DOMAIN p} = {x.batch[k] : k \in Stored(x)}
    BY <2>2, PickedOnes, ZenonT(40)
  <2> QED
    BY <2>1, <2>3
<1>5. ms \in Seq(Msg)
  <2>1. CallsMsg(x.batch) \in Msg
    BY <1>1, CallsMsgType
  <2> QED
    BY <1>1, <2>1, AppendProperties
<1> HIDE DEF rest, todo, reused, ms
<1>6. /\ results \in Seq(Result) /\ Len(results) = Cardinality(Stored(x)) /\ DOMAIN results = DOMAIN reused
      /\ \A i \in DOMAIN reused : results[i].id = reused[i].id
  <2>1. \A i \in DOMAIN reused : reused[i] \in Call
    BY <1>4, Positions
  <2>2. \A i \in DOMAIN reused : results[i] = Res(reused[i], TRUE, FALSE)
    BY DEF reused
  <2>3. \A i \in DOMAIN reused : results[i] \in Result /\ results[i].id = reused[i].id
    BY <2>1, <2>2, ResType
  <2>4. results = [i \in 1 .. Cardinality(Stored(x)) |-> results[i]]
    BY <1>4 DEF reused
  <2>5. \A i \in 1 .. Cardinality(Stored(x)) : results[i] \in Result
    BY <1>4, <2>3
  <2> QED
    BY <1>4, <2>3, <2>4, <2>5, Listing
<1>7. /\ y \in Loop /\ y.pc = "regular" /\ y.up = x.up /\ y.depth = x.depth /\ y.grant = x.grant
      /\ y.cut = x.cut /\ y.card = x.card /\ y.row = x.row /\ y.shown = x.shown
      /\ y.streams = x.streams /\ y.msgs = ms /\ y.batch = x.batch /\ y.todo = todo /\ y.results = results
  BY <1>1, <1>3, <1>5, <1>6 DEF Loop, Phase
<1> HIDE DEF y
<1>8. Given(y) = Given(x)
  <2>1. Stored(y) = Stored(x)
    BY <1>7 DEF Stored, Cached
  <2> QED
    BY <1>7, <2>1 DEF Given
<1>9. Executing(y)
  BY <1>1, <1>7 DEF Executing, ms
<1>10. Accounted(y)
  <2>1. Len(results) + Len(todo) + Cardinality(Given(x)) = Len(x.batch)
    BY <1>2, <1>3, <1>6
  <2>2. IdsOf(todo) = {x.batch[k].id : k \in rest}
    <3>1. \A i \in DOMAIN todo : \E k \in rest : todo[i] = x.batch[k]
      BY <1>3
    <3>2. \A k \in rest : \E i \in DOMAIN todo : todo[i] = x.batch[k]
      BY <1>3
    <3> QED
      BY <3>1, <3>2 DEF IdsOf
  <2>3. IdsOf(results) = {x.batch[k].id : k \in Stored(x)}
    <3>1. \A i \in DOMAIN reused : \E k \in Stored(x) : reused[i] = x.batch[k]
      BY <1>4
    <3>2. \A k \in Stored(x) : \E i \in DOMAIN reused : reused[i] = x.batch[k]
      BY <1>4
    <3>3. DOMAIN results = DOMAIN reused /\ \A i \in DOMAIN reused : results[i].id = reused[i].id
      BY <1>6
    <3>4. IdsOf(results) = {reused[i].id : i \in DOMAIN reused}
      BY <3>3 DEF IdsOf
    <3>5. \A v : v \in IdsOf(results) => \E k \in Stored(x) : v = x.batch[k].id
      BY <3>1, <3>4
    <3>6. \A k \in Stored(x) : x.batch[k].id \in IdsOf(results)
      BY <3>2, <3>4
    <3> QED
      BY <3>5, <3>6
  <2>4. IdsOf(x.batch) = {x.batch[k].id : k \in Stored(x)} \cup {x.batch[k].id : k \in rest}
                         \cup {x.batch[k].id : k \in Given(x)}
    BY <1>2 DEF IdsOf
  <2>5. IdsOf(results) \cup IdsOf(todo) \cup {x.batch[k].id : k \in Given(x)} = IdsOf(x.batch)
    BY <2>2, <2>3, <2>4
  <2>6. y.batch = x.batch /\ y.todo = todo /\ y.results = results
    BY <1>7
  <2>7. {y.batch[k].id : k \in Given(y)} = {x.batch[k].id : k \in Given(x)}
    BY <1>8, <2>6
  <2> QED
    BY <1>8, <2>1, <2>5, <2>6, <2>7 DEF Accounted
<1>11. TalkGood(y)
  BY <1>7, <1>9, <1>10 DEF TalkGood
<1>12. Good(l, x, y)
  BY <1>7, <1>11, StaysAtWork DEF Work, LoopGood
<1> QED
  BY <1>12 DEF y, todo, ms

LEMMA RunsWell ==
  ASSUME NEW l, NEW x, LoopGood(l, x), x.pc = "regular", x.todo # <<>>, NEW ok \in BOOLEAN
  PROVE  Good(l, x, [x EXCEPT !.todo = Tail(@), !.results = Append(@, Executed(x, Head(x.todo), ok))])
<1> DEFINE c == Head(x.todo)
           r == Executed(x, c, ok)
           todo == Tail(x.todo)
           results == Append(x.results, r)
           y == [x EXCEPT !.todo = todo, !.results = results]
<1>1. x \in Loop /\ x.todo \in Seq(Call) /\ x.results \in Seq(Result) /\ Executing(x) /\ Accounted(x)
  BY DEF LoopGood, Loop, TalkGood
<1>2. /\ c \in Call /\ todo \in Seq(Call) /\ Len(todo) = Len(x.todo) - 1 /\ Len(x.todo) \in Nat /\ Len(todo) \in Nat
      /\ c = x.todo[1] /\ Len(x.todo) >= 1
      /\ \A i \in 1 .. Len(todo) : todo[i] = x.todo[i + 1]
  BY <1>1, HeadTailProperties, LenProperties, EmptySeq
<1>3. r \in Result /\ r.id = c.id
  <2>1. \E a, b \in BOOLEAN : r = Res(c, a, b)
    <3>1. (ok /\ Granted(x, c)) \in BOOLEAN
          /\ ((ok /\ Granted(x, c)) /\ c.tool \in {"view_image", "ui"}) \in BOOLEAN
      OBVIOUS
    <3>2. r = Res(c, ok /\ Granted(x, c), (ok /\ Granted(x, c)) /\ c.tool \in {"view_image", "ui"})
      BY DEF Executed
    <3> QED
      BY <3>1, <3>2
  <2> QED
    BY <1>2, <2>1, ResType
<1>4. /\ results \in Seq(Result) /\ Len(results) = Len(x.results) + 1 /\ results[Len(x.results) + 1] = r
      /\ Len(x.results) \in Nat
      /\ \A i \in 1 .. Len(x.results) : results[i] = x.results[i]
  BY <1>1, <1>3, AppendProperties, LenProperties
<1> HIDE DEF c, r, todo, results
<1>5. /\ y \in Loop /\ y.pc = "regular" /\ y.up = x.up /\ y.depth = x.depth /\ y.grant = x.grant
      /\ y.cut = x.cut /\ y.card = x.card /\ y.row = x.row /\ y.shown = x.shown
      /\ y.streams = x.streams /\ y.msgs = x.msgs /\ y.batch = x.batch /\ y.todo = todo /\ y.results = results
  BY <1>1, <1>2, <1>4 DEF Loop
<1> HIDE DEF y
<1>6. Given(y) = Given(x)
  <2>1. Stored(y) = Stored(x)
    BY <1>5 DEF Stored, Cached
  <2> QED
    BY <1>5, <2>1 DEF Given
<1>7. Executing(y)
  BY <1>1, <1>5 DEF Executing
<1>8. IdsOf(x.todo) = IdsOf(todo) \cup {c.id}
  <2>1. DOMAIN x.todo = 1 .. Len(x.todo) /\ DOMAIN todo = 1 .. Len(todo)
    BY <1>1, <1>2, LenProperties
  <2>2. ASSUME NEW i \in DOMAIN x.todo PROVE i = 1 \/ \E k \in DOMAIN todo : x.todo[i] = todo[k]
    <3>1. i # 1 => i - 1 \in 1 .. Len(todo) /\ (i - 1) + 1 = i
      BY <2>1, <1>2
    <3>2. i # 1 => x.todo[i] = todo[i - 1]
      BY <3>1, <1>2
    <3> QED
      BY <3>1, <3>2, <2>1
  <2>3. ASSUME NEW k \in DOMAIN todo PROVE \E i \in DOMAIN x.todo : x.todo[i] = todo[k]
    <3>1. k + 1 \in DOMAIN x.todo /\ todo[k] = x.todo[k + 1]
      BY <2>1, <1>2
    <3> QED
      BY <3>1
  <2>4. 1 \in DOMAIN x.todo
    BY <2>1, <1>2
  <2> QED
    BY <2>2, <2>3, <2>4, <1>2, SMTT(20) DEF IdsOf
<1>9. IdsOf(results) = IdsOf(x.results) \cup {c.id}
  <2>1. DOMAIN x.results = 1 .. Len(x.results) /\ DOMAIN results = 1 .. Len(x.results) + 1
    BY <1>1, <1>4, LenProperties
  <2>2. \A i \in DOMAIN results : i = Len(x.results) + 1 \/ i \in DOMAIN x.results
    BY <2>1, <1>4
  <2>3. \A i \in DOMAIN x.results : i \in DOMAIN results /\ results[i] = x.results[i]
    BY <2>1, <1>4
  <2>4. Len(x.results) + 1 \in DOMAIN results
    BY <2>1, <1>4
  <2> QED
    BY <2>2, <2>3, <2>4, <1>3, <1>4 DEF IdsOf
<1>10. Accounted(y)
  <2>1. x \in Loop /\ Cardinality(Given(x)) \in Nat
    BY <1>1, BatchParts
  <2>2. Len(results) + Len(todo) + Cardinality(Given(x)) = Len(x.batch)
    <3>1. Len(x.results) + Len(x.todo) + Cardinality(Given(x)) = Len(x.batch)
      BY <1>1 DEF Accounted
    <3>2. Len(results) = Len(x.results) + 1 /\ Len(x.results) \in Nat
      BY <1>4
    <3>3. Len(todo) = Len(x.todo) - 1 /\ Len(x.todo) \in Nat
      BY <1>2
    <3>4. Cardinality(Given(x)) \in Nat
      BY <2>1
    <3> DEFINE a == Len(x.results)
               b == Len(x.todo)
               g == Cardinality(Given(x))
               d == Len(x.batch)
    <3>5. a + b + g = d /\ a \in Nat /\ b \in Nat /\ g \in Nat /\ Len(results) = a + 1 /\ Len(todo) = b - 1
      BY <3>1, <3>2, <3>3, <3>4
    <3> HIDE DEF a, b, g, d
    <3>6. Len(results) + Len(todo) + g = d
      BY <3>5
    <3> QED
      BY <3>6 DEF g, d
  <2>3. IdsOf(results) \cup IdsOf(todo) \cup {x.batch[k].id : k \in Given(x)} = IdsOf(x.batch)
    BY <1>1, <1>8, <1>9 DEF Accounted
  <2> QED
    BY <1>5, <1>6, <2>2, <2>3 DEF Accounted
<1>11. TalkGood(y)
  BY <1>5, <1>7, <1>10 DEF TalkGood
<1>12. Good(l, x, y)
  BY <1>5, <1>11, StaysAtWork DEF Work, LoopGood
<1> QED
  BY <1>12 DEF y, c, r, todo, results

(* The results of the delegations after those of the other calls.              *)
LEMMA InjectsWell ==
  ASSUME NEW l, NEW x, LoopGood(l, x), x.pc = "regular", x.todo = <<>>,
         NEW ok, \A i \in DOMAIN Handed(x) : ok[i] \in BOOLEAN,
         NEW rs, rs = x.results \o [i \in DOMAIN Handed(x) |-> Res(Handed(x)[i], ok[i], FALSE)]
  PROVE  Good(l, x, [x EXCEPT !.pc = "step", !.step = @ + 1, !.msgs = @ \o Injected(rs),
                              !.batch = <<>>, !.results = <<>>])
<1> DEFINE handed == Handed(x)
           more == [i \in DOMAIN handed |-> Res(handed[i], ok[i], FALSE)]
           n == Cardinality(Given(x))
<1>1. x \in Loop /\ x.results \in Seq(Result) /\ x.batch \in Seq(Call) /\ Executing(x) /\ Accounted(x)
  BY DEF LoopGood, Loop, TalkGood
<1>2. /\ handed \in Seq(Call) /\ DOMAIN handed = 1 .. n /\ n \in Nat
      /\ {handed[i] : i \in DOMAIN handed} = {x.batch[k] : k \in Given(x)}
  <2>1. handed = Picked(x.batch, Given(x))
    BY DEF Handed
  <2>2. x.batch \in Seq(Call) /\ Given(x) \in SUBSET DOMAIN x.batch
    BY <1>1 DEF Given
  <2> HIDE DEF handed
  <2> DEFINE batch == x.batch
             G == Given(x)
             p == Picked(batch, G)
  <2>3. batch \in Seq(Call) /\ G \in SUBSET DOMAIN batch
    BY <2>2
  <2>4. handed = p
    BY <2>1
  <2> HIDE DEF batch, G
  <2>5. /\ p \in Seq(Call) /\ Cardinality(G) \in Nat /\ DOMAIN p = 1 .. Cardinality(G)
        /\ {p[i] : i \in DOMAIN p} = {batch[k] : k \in G}
    BY <2>3, PickedOnes, ZenonT(40)
  <2> QED
    BY <2>4, <2>5 DEF batch, G, n
<1>a. rs = x.results \o more /\ \A i \in DOMAIN handed : ok[i] \in BOOLEAN
  OBVIOUS
<1> HIDE DEF handed, n
<1>3. /\ more \in Seq(Result) /\ Len(more) = n /\ DOMAIN more = 1 .. n
      /\ \A i \in 1 .. n : more[i].id = handed[i].id
  <2>1. \A i \in DOMAIN handed : handed[i] \in Call
    BY <1>2, Positions
  <2>2. \A i \in DOMAIN handed : more[i] = Res(handed[i], ok[i], FALSE)
    OBVIOUS
  <2>3. \A i \in DOMAIN handed : more[i] \in Result /\ more[i].id = handed[i].id
    BY <1>a, <2>1, <2>2, ResType
  <2>4. more = [i \in 1 .. n |-> more[i]]
    BY <1>2
  <2>5. \A i \in 1 .. n : more[i] \in Result
    BY <1>2, <2>3
  <2> HIDE DEF more
  <2> QED
    BY <1>2, <2>3, <2>4, <2>5, Listing
<1> HIDE DEF more
<1>4. IdsOf(more) = {x.batch[k].id : k \in Given(x)}
  <2>1. \A i \in DOMAIN handed : \E k \in Given(x) : handed[i] = x.batch[k]
    BY <1>2
  <2>2. \A k \in Given(x) : \E i \in DOMAIN handed : handed[i] = x.batch[k]
    BY <1>2
  <2>3. IdsOf(more) = {handed[i].id : i \in DOMAIN handed}
    BY <1>2, <1>3 DEF IdsOf
  <2>4. \A v : v \in IdsOf(more) => \E k \in Given(x) : v = x.batch[k].id
    BY <2>1, <2>3
  <2>5. \A k \in Given(x) : x.batch[k].id \in IdsOf(more)
    BY <2>2, <2>3
  <2> QED
    BY <2>4, <2>5
<1>5. /\ rs \in Seq(Result) /\ Len(rs) = Len(x.results) + n /\ Len(x.results) \in Nat
      /\ \A i \in 1 .. Len(x.results) + n : rs[i] = IF i <= Len(x.results) THEN x.results[i]
                                                     ELSE more[i - Len(x.results)]
  <2>1. x.results \in Seq(Result) /\ more \in Seq(Result)
    BY <1>1, <1>3
  <2>2. LET q == x.results \o more IN
        /\ q \in Seq(Result) /\ Len(q) = Len(x.results) + Len(more)
        /\ \A i \in 1 .. Len(x.results) + Len(more) : q[i] = IF i <= Len(x.results) THEN x.results[i]
                                                             ELSE more[i - Len(x.results)]
    BY <2>1, ConcatProperties
  <2>3. Len(x.results) \in Nat
    BY <2>1, LenProperties
  <2> QED
    BY <1>a, <1>3, <2>2, <2>3
<1>6. Len(rs) = Len(x.batch)
  <2>1. Len(x.results) + Len(x.todo) + n = Len(x.batch) /\ Len(x.todo) = 0
    BY <1>1 DEF Accounted, n
  <2> QED
    BY <2>1, <1>2, <1>5
<1>7. IdsOf(rs) = IdsOf(x.results) \cup IdsOf(more)
  <2>1. DOMAIN rs = 1 .. Len(x.results) + n /\ DOMAIN x.results = 1 .. Len(x.results)
    BY <1>1, <1>5, LenProperties
  <2>2. ASSUME NEW i \in DOMAIN rs
        PROVE  \/ i \in DOMAIN x.results /\ rs[i] = x.results[i]
               \/ \E k \in 1 .. n : rs[i] = more[k]
    <3>1. CASE i <= Len(x.results)
      <4>1. i \in 1 .. Len(x.results) + n /\ i \in 1 .. Len(x.results)
        BY <3>1, <2>1, <1>2, <1>5
      <4> QED
        BY <3>1, <4>1, <2>1, <1>5
    <3>2. CASE ~(i <= Len(x.results))
      <4>1. i - Len(x.results) \in 1 .. n
        BY <3>2, <2>1, <1>2, <1>5
      <4>2. rs[i] = more[i - Len(x.results)]
        BY <3>2, <2>1, <1>5
      <4> QED
        BY <4>1, <4>2
    <3> QED
      BY <3>1, <3>2
  <2>3. ASSUME NEW i \in DOMAIN x.results PROVE i \in DOMAIN rs /\ rs[i] = x.results[i]
    <3>1. i \in 1 .. Len(x.results) + n /\ i <= Len(x.results)
      BY <2>1, <1>2, <1>5
    <3> QED
      BY <3>1, <2>1, <1>5
  <2>4. ASSUME NEW k \in 1 .. n PROVE \E i \in DOMAIN rs : rs[i] = more[k]
    <3> DEFINE i == Len(x.results) + k
    <3>1. i \in 1 .. Len(x.results) + n /\ ~(i <= Len(x.results)) /\ i - Len(x.results) = k
      BY <1>2, <1>5
    <3>2. rs[i] = more[k]
      BY <3>1, <1>5
    <3> QED
      BY <3>1, <3>2, <2>1
  <2>5. \A v : v \in IdsOf(rs) => v \in IdsOf(x.results) \cup IdsOf(more)
    <3>1. ASSUME NEW i \in DOMAIN rs PROVE rs[i].id \in IdsOf(x.results) \cup IdsOf(more)
      <4>1. CASE i \in DOMAIN x.results /\ rs[i] = x.results[i]
        BY <4>1 DEF IdsOf
      <4>2. CASE \E k \in 1 .. n : rs[i] = more[k]
        BY <4>2, <1>3 DEF IdsOf
      <4> QED
        BY <4>1, <4>2, <2>2
    <3> QED
      BY <3>1 DEF IdsOf
  <2>6. \A v : v \in IdsOf(x.results) => v \in IdsOf(rs)
    BY <2>3 DEF IdsOf
  <2>7. \A v : v \in IdsOf(more) => v \in IdsOf(rs)
    <3>1. ASSUME NEW k \in DOMAIN more PROVE more[k].id \in IdsOf(rs)
      BY <2>4, <1>3 DEF IdsOf
    <3> QED
      BY <3>1 DEF IdsOf
  <2> QED
    BY <2>5, <2>6, <2>7
<1>8. IdsOf(rs) = IdsOf(x.batch)
  <2>1. IdsOf(x.todo) = {}
    BY DEF IdsOf
  <2>2. IdsOf(x.results) \cup IdsOf(x.todo) \cup {x.batch[k].id : k \in Given(x)} = IdsOf(x.batch)
    BY <1>1 DEF Accounted
  <2> QED
    BY <2>1, <2>2, <1>4, <1>7
<1> DEFINE ms == x.msgs \o Injected(rs)
           step == x.step + 1
           y == [x EXCEPT !.pc = "step", !.step = step, !.msgs = ms, !.batch = <<>>, !.results = <<>>]
<1>9. ms \in Seq(Msg) /\ Paired(ms)
  <2>1. PICK prior \in Seq(Msg) : Paired(prior) /\ x.msgs = Append(prior, CallsMsg(x.batch))
    BY <1>1 DEF Executing
  <2>2. LET q == Append(prior, CallsMsg(x.batch)) \o Injected(rs) IN q \in Seq(Msg) /\ Paired(q)
    BY <2>1, <1>1, <1>5, <1>6, <1>8, InjectedPairs
  <2> QED
    BY <2>1, <2>2
<1>10. step \in Nat /\ <<>> \in Seq(Call) /\ <<>> \in Seq(Result)
  BY <1>1 DEF Loop
<1> HIDE DEF ms, step
<1>11. /\ y \in Loop /\ y.pc = "step" /\ y.up = x.up /\ y.depth = x.depth /\ y.grant = x.grant
       /\ y.cut = x.cut /\ y.card = x.card /\ y.row = x.row /\ y.shown = x.shown
       /\ y.streams = x.streams /\ y.msgs = ms
  BY <1>1, <1>9, <1>10 DEF Loop, Phase
<1> HIDE DEF y
<1>12. TalkGood(y)
  BY <1>9, <1>11 DEF TalkGood
<1>13. Good(l, x, y)
  BY <1>11, <1>12, StaysAtWork DEF Work, LoopGood
<1> QED
  BY <1>13 DEF y, ms, step

-----------------------------------------------------------------------------
(* The handler around a delegated loop, and cancellation.                      *)

LEMMA HandlesWell ==
  ASSUME NEW l, NEW x, LoopGood(l, x), x.pc = "brief", NEW enabled
  PROVE  /\ Good(l, x, [x EXCEPT !.pc = "over", !.end = "refused"])
         /\ Good(l, x, [x EXCEPT !.pc = "step", !.card = "open", !.row = "running",
                                 !.grant = ChildGrant(x, enabled)])
         /\ Good(l, x, [x EXCEPT !.pc = "closing", !.card = "open", !.row = "running", !.end = "error"])
<1>1. x \in Loop /\ KidGood(x) /\ l # 1 /\ x.shown \subseteq {x.streams} /\ TalkGood(x)
  BY DEF LoopGood, RootGood
<1>2. Good(l, x, [x EXCEPT !.pc = "over", !.end = "refused"])
  <2> DEFINE y == [x EXCEPT !.pc = "over", !.end = "refused"]
  <2>1. /\ y \in Loop /\ y.pc = "over" /\ y.up = x.up /\ y.depth = x.depth /\ y.grant = x.grant
        /\ y.cut = x.cut /\ y.card = x.card /\ y.row = x.row /\ y.shown = x.shown /\ y.streams = x.streams
    BY <1>1 DEF Loop, Phase, Outcome
  <2> HIDE DEF y
  <2>2. KidGood(y) /\ TalkGood(y) /\ Stepped(x, y)
    BY <1>1, <2>1 DEF KidGood, TalkGood, Stepped, Work
  <2>3. Good(l, x, y)
    BY <1>1, <2>1, <2>2 DEF Good, LoopGood
  <2> QED
    BY <2>3 DEF y
<1>3. Good(l, x, [x EXCEPT !.pc = "step", !.card = "open", !.row = "running", !.grant = ChildGrant(x, enabled)])
  <2> DEFINE grant == ChildGrant(x, enabled)
             y == [x EXCEPT !.pc = "step", !.card = "open", !.row = "running", !.grant = grant]
  <2>1. grant \subseteq x.grant /\ grant \in SUBSET Tool /\ "ui" \notin grant
    <3>1. grant = ((enabled \ {"ui", "delegate_task"})
                   \cup (IF x.depth < MaxDepth THEN {"delegate_task"} ELSE {})) \cap x.grant
      BY DEF ChildGrant
    <3>2. x.grant \in SUBSET Tool
      BY <1>1 DEF Loop
    <3> HIDE DEF grant
    <3> QED
      BY <3>1, <3>2
  <2> HIDE DEF grant
  <2>2. /\ y \in Loop /\ y.pc = "step" /\ y.up = x.up /\ y.depth = x.depth /\ y.grant = grant
        /\ y.cut = x.cut /\ y.card = "open" /\ y.row = "running" /\ y.shown = x.shown
        /\ y.streams = x.streams /\ y.msgs = x.msgs
    BY <1>1, <2>1 DEF Loop, Phase
  <2> HIDE DEF y
  <2>3. KidGood(y) /\ TalkGood(y) /\ Stepped(x, y)
    BY <1>1, <2>1, <2>2 DEF KidGood, TalkGood, Stepped, Work
  <2>4. Good(l, x, y)
    BY <1>1, <2>2, <2>3 DEF Good, LoopGood
  <2> QED
    BY <2>4 DEF y, grant
<1>4. Good(l, x, [x EXCEPT !.pc = "closing", !.card = "open", !.row = "running", !.end = "error"])
  <2> DEFINE y == [x EXCEPT !.pc = "closing", !.card = "open", !.row = "running", !.end = "error"]
  <2>1. /\ y \in Loop /\ y.pc = "closing" /\ y.up = x.up /\ y.depth = x.depth /\ y.grant = x.grant
        /\ y.cut = x.cut /\ y.card = "open" /\ y.row = "running" /\ y.shown = x.shown /\ y.streams = x.streams
    BY <1>1 DEF Loop, Phase, Outcome
  <2> HIDE DEF y
  <2>2. KidGood(y) /\ TalkGood(y) /\ Stepped(x, y)
    BY <1>1, <2>1 DEF KidGood, TalkGood, Stepped, Work
  <2>3. Good(l, x, y)
    BY <1>1, <2>1, <2>2 DEF Good, LoopGood
  <2> QED
    BY <2>3 DEF y
<1> QED
  BY <1>2, <1>3, <1>4

LEMMA ClosesWell ==
  ASSUME NEW l, NEW x, LoopGood(l, x), x.pc = "closing"
  PROVE  /\ x.row = "running" => Good(l, x, [x EXCEPT !.row = Verdict(x.end)])
         /\ x.row # "running" => Good(l, x, [x EXCEPT !.pc = "over", !.card = "closed"])
<1>1. x \in Loop /\ KidGood(x) /\ l # 1 /\ x.shown \subseteq {x.streams} /\ TalkGood(x)
  BY DEF LoopGood, RootGood
<1>2. ASSUME x.row = "running" PROVE Good(l, x, [x EXCEPT !.row = Verdict(x.end)])
  <2> DEFINE row == Verdict(x.end)
             y == [x EXCEPT !.row = row]
  <2>1. row \in {"failed", "completed"}
    BY DEF Verdict
  <2> HIDE DEF row
  <2>2. /\ y \in Loop /\ y.pc = "closing" /\ y.up = x.up /\ y.depth = x.depth /\ y.grant = x.grant /\ y.end = x.end
        /\ y.cut = x.cut /\ y.card = x.card /\ y.row = row /\ y.shown = x.shown /\ y.streams = x.streams
    BY <1>1, <2>1 DEF Loop
  <2> HIDE DEF y
  <2>3. KidGood(y) /\ TalkGood(y) /\ Stepped(x, y)
    BY <1>1, <2>2 DEF KidGood, TalkGood, Stepped, Work, row
  <2>4. Good(l, x, y)
    BY <1>1, <2>2, <2>3 DEF Good, LoopGood
  <2> QED
    BY <2>4 DEF y, row
<1>3. ASSUME x.row # "running" PROVE Good(l, x, [x EXCEPT !.pc = "over", !.card = "closed"])
  <2> DEFINE y == [x EXCEPT !.pc = "over", !.card = "closed"]
  <2>1. /\ y \in Loop /\ y.pc = "over" /\ y.up = x.up /\ y.depth = x.depth /\ y.grant = x.grant /\ y.end = x.end
        /\ y.cut = x.cut /\ y.card = "closed" /\ y.row = x.row /\ y.shown = x.shown /\ y.streams = x.streams
    BY <1>1 DEF Loop, Phase
  <2> HIDE DEF y
  <2>2. KidGood(y) /\ TalkGood(y) /\ Stepped(x, y)
    BY <1>1, <1>3, <2>1 DEF KidGood, TalkGood, Stepped, Work
  <2>3. Good(l, x, y)
    BY <1>1, <2>1, <2>2 DEF Good, LoopGood
  <2> QED
    BY <2>3 DEF y
<1> QED
  BY <1>2, <1>3

(* A loop that is cancelled, or whose consumer is.                             *)
LEMMA UnwindsWell ==
  ASSUME NEW l, NEW x, LoopGood(l, x), x.pc # "over", NEW cut \in {"no", "cut", "last"},
         l # 1 => cut # "no", NEW row \in {x.row, "none"}
  PROVE  LET y == [Emptied(x) EXCEPT !.pc = "over", !.end = "cancelled", !.cut = cut, !.row = row]
         IN LoopGood(l, y) /\ Stepped(x, y)
<1> DEFINE e == Emptied(x)
           y == [e EXCEPT !.pc = "over", !.end = "cancelled", !.cut = cut, !.row = row]
<1>1. x \in Loop
  BY DEF LoopGood
<1>2. /\ e \in Loop /\ e.shown = {} /\ e.up = x.up /\ e.depth = x.depth /\ e.grant = x.grant
      /\ e.card = x.card /\ e.row = x.row
  <2>1. <<>> \in Seq(Msg) /\ <<>> \in Seq(Call) /\ <<>> \in Seq(Result)
    OBVIOUS
  <2> QED
    BY <1>1, <2>1 DEF Emptied, Loop
<1>3. row \in {"none", "running", "completed", "failed"}
  BY <1>1 DEF Loop
<1> HIDE DEF e
<1>4. /\ y \in Loop /\ y.shown = {} /\ y.up = x.up /\ y.depth = x.depth /\ y.grant = x.grant /\ y.cut = cut
      /\ y.card = x.card /\ y.pc = "over"
  BY <1>2, <1>3, ZenonT(40) DEF Loop, Phase, Outcome
<1> HIDE DEF y
<1>5. Stepped(x, y) /\ TalkGood(y)
  BY <1>4 DEF Stepped, TalkGood
<1>6. l = 1 => RootGood(y)
  BY <1>4 DEF LoopGood, RootGood
<1>7. l # 1 => KidGood(y)
  BY <1>4 DEF LoopGood, KidGood, Work
<1>8. LoopGood(l, y) /\ Stepped(x, y)
  BY <1>4, <1>5, <1>6, <1>7 DEF LoopGood
<1> QED
  BY <1>8 DEF y, e

-----------------------------------------------------------------------------
(* Every step keeps the invariant.                                             *)

LEMMA Alike ==
  ASSUME LoopInv, NEW l \in Id, NEW y, Good(l, loops[l], y), Upd(l, y), UNCHANGED <<calls, halt, snap>>
  PROVE  LoopInv'
BY Updating DEF Good, LoopInv

LEMMA LoopsGood ==
  ASSUME LoopInv, NEW l \in Id
  PROVE  LoopGood(l, loops[l]) /\ loops[l] \in Loop
BY DEF LoopInv, Fits, LoopGood, Id

LEMMA BeginStepKeeps == ASSUME LoopInv, NEW l \in Id, BeginStep(l) PROVE LoopInv'
<1> DEFINE x == loops[l]
<1>1. LoopGood(l, x) /\ x.pc = "step"
  BY LoopsGood DEF BeginStep, Busy
<1>2. Good(l, x, Ended(x, "max_iterations"))
  BY <1>1, EndsWell DEF Work
<1>3. Good(l, x, [x EXCEPT !.pc = "open", !.streams = 1, !.shown = {}, !.msgs = Compressed(@, x.step)])
  BY <1>1, BeginsWell
<1>4. CASE x.step > MaxSteps
  <2>1. Upd(l, Ended(x, "max_iterations")) /\ UNCHANGED <<calls, halt, snap>>
    BY <1>4 DEF BeginStep
  <2> QED
    BY <1>2, <2>1, Alike
<1>5. CASE ~(x.step > MaxSteps)
  <2>1. /\ Upd(l, [x EXCEPT !.pc = "open", !.streams = 1, !.shown = {}, !.msgs = Compressed(@, x.step)])
        /\ UNCHANGED <<calls, halt, snap>>
    BY <1>5 DEF BeginStep
  <2> QED
    BY <1>3, <2>1, Alike
<1> QED
  BY <1>4, <1>5

LEMMA ModelKeeps == ASSUME LoopInv, NEW l \in Id, Model(l) PROVE LoopInv'
<1> DEFINE x == loops[l]
<1>1. LoopGood(l, x)
  BY LoopsGood
<1>2. ASSUME OpenFails(l) \/ StreamBreaks(l) PROVE LoopInv'
  <2>1. x.pc \in {"open", "model"} /\ Upd(l, Again(x)) /\ UNCHANGED <<calls, halt, snap>>
    BY <1>2 DEF OpenFails, StreamBreaks, Busy
  <2>2. Good(l, x, Again(x))
    BY <1>1, <2>1, OpensAgainWell
  <2> QED
    BY <2>1, <2>2, Alike
<1>3. ASSUME OpenStream(l) PROVE LoopInv'
  <2>1. x.pc = "open" /\ Upd(l, [x EXCEPT !.pc = "model"]) /\ UNCHANGED <<calls, halt, snap>>
    BY <1>3 DEF OpenStream, Busy
  <2>2. Good(l, x, [x EXCEPT !.pc = "model"])
    BY <1>1, <2>1, StreamsWell
  <2> QED
    BY <2>1, <2>2, Alike
<1>4. ASSUME Delta(l) PROVE LoopInv'
  <2>1. x.pc = "model" /\ Upd(l, [x EXCEPT !.shown = @ \cup {x.streams}]) /\ UNCHANGED <<calls, halt, snap>>
    BY <1>4 DEF Delta, Busy
  <2>2. Good(l, x, [x EXCEPT !.shown = @ \cup {x.streams}])
    BY <1>1, <2>1, StreamsWell
  <2> QED
    BY <2>1, <2>2, Alike
<1>5. ASSUME Answer(l) PROVE LoopInv'
  <2>1. PICK end \in {"completed", "error"} : Upd(l, Ended(x, end))
    BY <1>5 DEF Answer
  <2>2. x.pc = "model" /\ UNCHANGED <<calls, halt, snap>>
    BY <1>5 DEF Answer, Busy
  <2>3. Good(l, x, Ended(x, end))
    BY <1>1, <2>2, EndsWell DEF Work
  <2> QED
    BY <2>1, <2>2, <2>3, Alike
<1>6. ASSUME NEW tools \in Wanted, AskTools(l, tools) PROVE LoopInv'
  <2> DEFINE n == Cardinality(Asked(x.msgs))
             batch == [i \in DOMAIN tools |-> [id |-> n + i, tool |-> tools[i]]]
             y == [x EXCEPT !.pc = "batch", !.batch = batch, !.results = <<>>]
  <2>1. x.pc = "model" /\ Upd(l, y)
    BY <1>6 DEF AskTools, Busy
  <2>2. Good(l, x, y)
    <3> HIDE DEF x
    <3> QED
      BY <1>1, <2>1, AsksWell
  <2>3. calls' \in 0 .. MaxCalls /\ halt' = halt /\ snap' = snap
    <3>1. tools \in Seq(Tool) /\ MaxCalls \in Nat
      BY AgentAssumption
    <3>2. Len(tools) \in Nat
      BY <3>1, LenProperties
    <3>3. calls \in Nat /\ calls + Len(tools) <= MaxCalls /\ calls' = calls + Len(tools) /\ halt' = halt /\ snap' = snap
      BY <1>6 DEF AskTools, LoopInv
    <3> QED
      BY <3>1, <3>2, <3>3
  <2> HIDE DEF y
  <2> QED
    BY <2>1, <2>2, <2>3, Updating DEF Good
<1> QED
  BY <1>2, <1>3, <1>4, <1>5, <1>6 DEF Model

LEMMA StartBatchKeeps == ASSUME LoopInv, NEW l \in Id, StartBatch(l) PROVE LoopInv'
<1> DEFINE x == loops[l]
           w == Worn(x)
           results == [i \in DOMAIN Reused(x) |-> Res(Reused(x)[i], TRUE, FALSE)]
           m == [x EXCEPT !.pc = "regular", !.todo = Regular(x),
                          !.msgs = Append(x.msgs, CallsMsg(x.batch)), !.results = results]
           y == [m EXCEPT !.cut = w]
           handed == IF "delegate_task" \in x.grant THEN Handed(x) ELSE <<>>
           kids == [i \in DOMAIN handed |-> Fresh(l, handed[i].id, x.depth + 1, x.grant, "brief")]
<1>1. LoopGood(l, x) /\ x \in Loop /\ x.pc = "batch" /\ l \in Nat /\ l # 0
  <2>1. loops \in Seq(Loop)
    BY DEF LoopInv, Fits
  <2>2. Id = 1 .. Len(loops)
    BY <2>1, LenProperties DEF Id
  <2>3. l \in Nat /\ l # 0
    BY <2>2
  <2>4. loops[l].pc = "batch"
    BY DEF StartBatch, Busy
  <2> QED
    BY <2>3, <2>4, LoopsGood
<1>2. loops' = [loops EXCEPT ![l] = y] \o kids /\ UNCHANGED <<calls, halt, snap>>
  <2>1. loops' = [loops EXCEPT ![l] =
             [x EXCEPT !.pc = "regular", !.cut = w, !.todo = Regular(x),
                       !.msgs = Append(x.msgs, CallsMsg(x.batch)), !.results = results]] \o kids
    BY DEF StartBatch
  <2>2. [x EXCEPT !.pc = "regular", !.cut = w, !.todo = Regular(x),
                  !.msgs = Append(x.msgs, CallsMsg(x.batch)), !.results = results] = y
    BY <1>1 DEF Loop
  <2> QED
    BY <2>1, <2>2 DEF StartBatch
<1>3. Good(l, x, m)
  BY <1>1, StartsWell
<1>4. LoopGood(l, y) /\ Stepped(x, y) /\ y.pc = "regular" /\ y.depth = x.depth /\ y.grant = x.grant
  <2>1. w \in {"no", "cut", "last"} /\ (m.cut # "no" => w # "no")
    BY <1>1, <1>3 DEF Worn, Loop, Good
  <2>2. LoopGood(l, m) /\ m \in Loop /\ Stepped(x, m) /\ m.pc = "regular" /\ m.depth = x.depth /\ m.grant = x.grant
    BY <1>1, <1>3 DEF Good, LoopGood, Loop
  <2> HIDE DEF m, w
  <2>3. LoopGood(l, y)
    BY <2>1, <2>2, CutsWell
  <2>4. y.pc = m.pc /\ y.up = m.up /\ y.depth = m.depth /\ y.grant = m.grant
    BY <2>2 DEF Loop
  <2> HIDE DEF y
  <2> QED
    BY <2>2, <2>3, <2>4 DEF Stepped
<1> HIDE DEF m, w, results, y
<1>5. Fits([loops EXCEPT ![l] = y], halt, snap)
  <2>1. Fits(loops, halt, snap) /\ l \in DOMAIN loops
    BY DEF LoopInv, Id
  <2> QED
    BY <2>1, <1>4, OneLoop
<1>6. /\ kids \in Seq(Loop) /\ (kids # <<>> => "delegate_task" \in x.grant)
      /\ \A i \in DOMAIN kids : /\ LoopGood(0, kids[i])
                                /\ kids[i].up = l /\ kids[i].depth = x.depth + 1 /\ kids[i].grant = x.grant
  <2>1. handed \in Seq(Call)
    <3>1. x.batch \in Seq(Call) /\ Given(x) \in SUBSET DOMAIN x.batch /\ Handed(x) = Picked(x.batch, Given(x))
      BY <1>1 DEF Loop, Given, Handed
    <3> DEFINE batch == x.batch
               G == Given(x)
    <3>2. batch \in Seq(Call) /\ G \in SUBSET DOMAIN batch
      BY <3>1
    <3> HIDE DEF batch, G
    <3>3. Picked(batch, G) \in Seq(Call)
      BY <3>2, PickedOnes
    <3>4. Handed(x) \in Seq(Call) /\ <<>> \in Seq(Call)
      BY <3>1, <3>3 DEF batch, G
    <3> QED
      BY <3>4
  <2>2. ASSUME NEW c \in Call
        PROVE  LET k == Fresh(l, c.id, x.depth + 1, x.grant, "brief") IN
               LoopGood(0, k) /\ k.up = l /\ k.depth = x.depth + 1 /\ k.grant = x.grant
    <3> DEFINE d == x.depth + 1
               g == x.grant
               k == Fresh(l, c.id, d, g, "brief")
    <3>1. x.depth \in Nat /\ g \in SUBSET Tool /\ c.id \in Nat
      BY <1>1 DEF Loop, Call
    <3>2. d \in Nat /\ d >= 1
      BY <3>1
    <3>3. <<>> \in Seq(Msg) /\ <<>> \in Seq(Call) /\ <<>> \in Seq(Result)
      OBVIOUS
    <3> HIDE DEF d, g
    <3>4. /\ k \in Loop /\ k.up = l /\ k.depth = d /\ k.grant = g /\ k.pc = "brief" /\ k.shown = {} /\ k.card = "none"
          /\ k.msgs = <<>>
      BY <1>1, <3>1, <3>2, <3>3 DEF Fresh, Loop, Phase, Outcome
    <3> HIDE DEF k
    <3>5. TalkGood(k)
      BY <3>4, NothingPairs DEF TalkGood
    <3>6. KidGood(k)
      BY <1>1, <3>2, <3>4 DEF KidGood, Work
    <3>7. LoopGood(0, k)
      BY <3>4, <3>5, <3>6 DEF LoopGood
    <3> QED
      BY <3>4, <3>7 DEF k, d, g
  <2>3. DOMAIN handed = 1 .. Len(handed) /\ Len(handed) \in Nat /\ \A i \in DOMAIN handed : handed[i] \in Call
    BY <2>1, Positions
  <2>4. handed # <<>> => "delegate_task" \in x.grant
    OBVIOUS
  <2> HIDE DEF handed, x
  <2>5. \A i \in 1 .. Len(handed) : /\ LoopGood(0, kids[i]) /\ kids[i] \in Loop
                                    /\ kids[i].up = l /\ kids[i].depth = x.depth + 1 /\ kids[i].grant = x.grant
    BY <2>2, <2>3 DEF LoopGood
  <2>6. kids = [i \in 1 .. Len(handed) |-> kids[i]]
    BY <2>3
  <2>7. kids \in Seq(Loop) /\ Len(kids) = Len(handed) /\ DOMAIN kids = 1 .. Len(handed)
    <3> HIDE DEF kids
    <3> QED
      BY <2>3, <2>5, <2>6, Listing
  <2>8. kids # <<>> => handed # <<>>
    <3> HIDE DEF kids
    <3>1. Len(handed) = 0 => kids = <<>>
      BY <2>7, EmptySeq
    <3>2. handed = <<>> => Len(handed) = 0
      BY EmptySeq
    <3> QED
      BY <3>1, <3>2
  <2> QED
    BY <2>4, <2>5, <2>7, <2>8
<1> HIDE DEF kids, handed
<1>7. Fits([loops EXCEPT ![l] = y] \o kids, halt, snap)
  <2> DEFINE ls == [loops EXCEPT ![l] = y]
  <2>1. l \in DOMAIN ls /\ ls[l] = y
    BY DEF Id
  <2> HIDE DEF ls
  <2>2. ls[l].pc \notin {"brief", "over"} /\ (kids # <<>> => "delegate_task" \in ls[l].grant)
    BY <1>4, <1>6, <2>1
  <2>3. \A i \in DOMAIN kids : /\ LoopGood(0, kids[i])
                               /\ kids[i].up = l /\ kids[i].depth = ls[l].depth + 1 /\ kids[i].grant = ls[l].grant
    BY <1>4, <1>6, <2>1
  <2>4. Fits(ls, halt, snap) /\ kids \in Seq(Loop)
    BY <1>5, <1>6 DEF ls
  <2>5. Fits(ls \o kids, halt, snap)
    BY <2>1, <2>2, <2>3, <2>4, MoreLoops
  <2> QED
    BY <2>5 DEF ls
<1> QED
  BY <1>2, <1>7 DEF LoopInv

LEMMA ToolsKeep == ASSUME LoopInv, NEW l \in Id, Tools(l) PROVE LoopInv'
<1> DEFINE x == loops[l]
<1>1. LoopGood(l, x)
  BY LoopsGood
<1>2. ASSUME NEW ok \in BOOLEAN, RunTool(l, ok) PROVE LoopInv'
  <2> DEFINE y == [x EXCEPT !.todo = Tail(@), !.results = Append(@, Executed(x, Head(x.todo), ok))]
  <2>1. x.pc = "regular" /\ x.todo # <<>> /\ Upd(l, y) /\ UNCHANGED <<calls, halt, snap>>
    BY <1>2 DEF RunTool, Busy
  <2>2. Good(l, x, y)
    BY <1>1, <2>1, RunsWell
  <2> HIDE DEF y
  <2> QED
    BY <2>1, <2>2, Alike
<1>3. ASSUME FlowFails(l) PROVE LoopInv'
  <2>1. x.pc = "regular" /\ Upd(l, Ended(x, "error")) /\ UNCHANGED <<calls, halt, snap>>
    BY <1>3 DEF FlowFails, Busy
  <2>2. Good(l, x, Ended(x, "error"))
    BY <1>1, <2>1, EndsWell DEF Work
  <2> QED
    BY <2>1, <2>2, Alike
<1>4. ASSUME Inject(l) PROVE LoopInv'
  <2> DEFINE ok == [i \in DOMAIN Handed(x) |-> KidOk(l, Handed(x)[i])]
             rs == Collected(l)
             y == [x EXCEPT !.pc = "step", !.step = @ + 1, !.msgs = @ \o Injected(rs),
                            !.batch = <<>>, !.results = <<>>]
  <2>1. x.pc = "regular" /\ x.todo = <<>> /\ Upd(l, y) /\ UNCHANGED <<calls, halt, snap>>
    BY <1>4 DEF Inject, Busy, Waits
  <2>2. \A i \in DOMAIN Handed(x) : ok[i] \in BOOLEAN
    BY DEF KidOk
  <2>3. rs = x.results \o [i \in DOMAIN Handed(x) |-> Res(Handed(x)[i], ok[i], FALSE)]
    BY DEF Collected
  <2> HIDE DEF ok, rs
  <2>4. Good(l, x, y)
    <3> HIDE DEF x
    <3> QED
      BY <1>1, <2>1, <2>2, <2>3, InjectsWell
  <2> HIDE DEF y
  <2> QED
    BY <2>1, <2>4, Alike
<1>5. ASSUME StartBatch(l) PROVE LoopInv'
  BY <1>5, StartBatchKeeps
<1> QED
  BY <1>2, <1>3, <1>4, <1>5 DEF Tools

LEMMA HandlerKeeps == ASSUME LoopInv, NEW l \in Id, Handler(l) PROVE LoopInv'
<1> DEFINE x == loops[l]
<1>1. LoopGood(l, x)
  BY LoopsGood
<1>2. ASSUME Refuse(l) PROVE LoopInv'
  <2> DEFINE y == [x EXCEPT !.pc = "over", !.end = "refused"]
  <2>1. x.pc = "brief" /\ Upd(l, y) /\ UNCHANGED <<calls, halt, snap>>
    BY <1>2 DEF Refuse, Busy
  <2>2. Good(l, x, y)
    BY <1>1, <2>1, HandlesWell
  <2> QED
    BY <2>1, <2>2, Alike
<1>3. ASSUME NEW enabled \in Enabled, StartChild(l, enabled) PROVE LoopInv'
  <2> DEFINE y == [x EXCEPT !.pc = "step", !.card = "open", !.row = "running", !.grant = ChildGrant(x, enabled)]
  <2>1. x.pc = "brief" /\ Upd(l, y) /\ UNCHANGED <<calls, halt, snap>>
    BY <1>3 DEF StartChild, Busy
  <2>2. Good(l, x, y)
    BY <1>1, <2>1, HandlesWell
  <2> QED
    BY <2>1, <2>2, Alike
<1>4. ASSUME SetupFails(l) PROVE LoopInv'
  <2> DEFINE y == [x EXCEPT !.pc = "closing", !.card = "open", !.row = "running", !.end = "error"]
  <2>1. x.pc = "brief" /\ Upd(l, y) /\ UNCHANGED <<calls, halt, snap>>
    BY <1>4 DEF SetupFails, Busy
  <2>2. Good(l, x, y)
    BY <1>1, <2>1, HandlesWell
  <2> QED
    BY <2>1, <2>2, Alike
<1>5. ASSUME Record(l) PROVE LoopInv'
  <2> DEFINE y == [x EXCEPT !.row = Verdict(x.end)]
  <2>1. x.pc = "closing" /\ x.row = "running" /\ Upd(l, y) /\ UNCHANGED <<calls, halt, snap>>
    BY <1>5 DEF Record, Busy, Verdict
  <2>2. Good(l, x, y)
    BY <1>1, <2>1, ClosesWell
  <2> QED
    BY <2>1, <2>2, Alike
<1>6. ASSUME Close(l) PROVE LoopInv'
  <2> DEFINE y == [x EXCEPT !.pc = "over", !.card = "closed"]
  <2>1. x.pc = "closing" /\ x.row # "running" /\ Upd(l, y) /\ UNCHANGED <<calls, halt, snap>>
    BY <1>6 DEF Close, Busy
  <2>2. Good(l, x, y)
    BY <1>1, <2>1, ClosesWell
  <2> QED
    BY <2>1, <2>2, Alike
<1> QED
  BY <1>2, <1>3, <1>4, <1>5, <1>6 DEF Handler

LEMMA UnwindKeeps == ASSUME LoopInv, NEW l \in Id, Unwind(l) PROVE LoopInv'
<1> DEFINE x == loops[l]
           row == IF x.row = "running" THEN "none" ELSE x.row
           y == [Emptied(x) EXCEPT !.pc = "over", !.end = "cancelled", !.cut = "last", !.row = row]
<1>1. LoopGood(l, x) /\ x.pc # "over" /\ row \in {x.row, "none"} /\ x \in Loop
  BY LoopsGood DEF Unwind
<1>2. loops' = [loops EXCEPT ![l] = y] /\ UNCHANGED <<calls, halt, snap>>
  BY DEF Unwind
<1> HIDE DEF row
<1>3. LoopGood(l, y) /\ Stepped(x, y)
  BY <1>1, UnwindsWell
<1> HIDE DEF y
<1>4. Fits(loops, halt, snap) /\ l \in DOMAIN loops
  BY DEF LoopInv, Id
<1>5. Fits([loops EXCEPT ![l] = y], halt, snap)
  BY <1>3, <1>4, OneLoop
<1> QED
  BY <1>2, <1>5 DEF LoopInv

LEMMA CancelRootKeeps == ASSUME LoopInv, CancelRoot PROVE LoopInv'
<1> DEFINE x == loops[1]
           e == Emptied(x)
           y == [e EXCEPT !.pc = "over", !.end = "cancelled"]
           z == [e EXCEPT !.pc = "over", !.end = "cancelled", !.cut = x.cut, !.row = x.row]
<1>1. Fits(loops, halt, snap) /\ 1 \in DOMAIN loops
  BY DEF LoopInv, Fits
<1>2. LoopGood(1, x) /\ x.pc # "over" /\ x \in Loop /\ x.cut \in {"no", "cut", "last"}
  BY <1>1, LoopsGood DEF CancelRoot, Id, Loop
<1>3. loops' = [loops EXCEPT ![1] = y] /\ UNCHANGED <<calls, halt, snap>>
  BY DEF CancelRoot
<1>4. LoopGood(1, z) /\ Stepped(x, z)
  BY <1>2, UnwindsWell
<1>5. y = z
  <2>1. e \in Loop /\ e.cut = x.cut /\ e.row = x.row
    <3>1. <<>> \in Seq(Msg) /\ <<>> \in Seq(Call) /\ <<>> \in Seq(Result)
      OBVIOUS
    <3> QED
      BY <1>2, <3>1 DEF Emptied, Loop
  <2> HIDE DEF e
  <2> QED
    BY <2>1 DEF Loop
<1> HIDE DEF y, z
<1>6. Fits([loops EXCEPT ![1] = z], halt, snap)
  BY <1>1, <1>4, OneLoop
<1> QED
  BY <1>3, <1>5, <1>6 DEF LoopInv

LEMMA ReapKeeps == ASSUME LoopInv, Reap PROVE LoopInv'
<1> DEFINE cut(l) == IF l \in Reaped THEN [loops[l] EXCEPT !.cut = "cut"] ELSE loops[l]
<1>1. /\ loops \in Seq(Loop) /\ 1 \in Id /\ halt = "no" /\ loops[1].pc = "over"
      /\ \A l \in Id : LoopGood(l, loops[l]) /\ loops[l] \in Loop
      /\ \A l \in Id : l # 1 => loops[l].up \in Id /\ Handing(loops[l], loops[loops[l].up])
  BY DEF LoopInv, Fits, Id, Reap, LoopGood
<1>2. /\ halt' = "reap" /\ snap' = Reaped /\ calls' = calls
      /\ loops' = [l \in Id |-> cut(l)]
  BY DEF Reap
<1>3. \A l \in Id : loops'[l] = cut(l)
  BY <1>2
<1>4. ASSUME NEW l \in Id
      PROVE  /\ LoopGood(l, cut(l)) /\ cut(l) \in Loop
             /\ cut(l).up = loops[l].up /\ cut(l).grant = loops[l].grant
             /\ cut(l).depth = loops[l].depth /\ cut(l).pc = loops[l].pc
  <2>1. LoopGood(l, [loops[l] EXCEPT !.cut = "cut"])
    BY <1>1, CutsWell
  <2> QED
    BY <1>1, <2>1 DEF Loop, LoopGood
<1> HIDE DEF cut
<1>5. loops' \in Seq(Loop) /\ DOMAIN loops' = Id
  <2>1. Id = 1 .. Len(loops) /\ Len(loops) \in Nat
    BY <1>1, LenProperties DEF Id
  <2>2. loops' = [l \in 1 .. Len(loops) |-> loops'[l]] /\ \A l \in 1 .. Len(loops) : loops'[l] \in Loop
    BY <1>2, <1>4, <2>1
  <2> QED
    BY <2>1, <2>2, Listing
<1>6. \A l \in Id : l # 1 => loops'[l].up \in Id /\ Handing(loops'[l], loops'[loops'[l].up])
  <2>1. ASSUME NEW l \in Id, l # 1 PROVE loops'[l].up \in Id /\ Handing(loops'[l], loops'[loops'[l].up])
    <3>1. loops[l].up \in Id /\ Handing(loops[l], loops[loops[l].up])
      BY <1>1, <2>1
    <3>2. loops'[l].up = loops[l].up /\ loops'[l].grant = loops[l].grant /\ loops'[l].depth = loops[l].depth
      BY <1>3, <1>4
    <3> DEFINE u == loops[l].up
    <3>3. loops'[u].grant = loops[u].grant /\ loops'[u].depth = loops[u].depth /\ loops'[u].pc = loops[u].pc
      BY <3>1, <1>3, <1>4
    <3> QED
      BY <3>1, <3>2, <3>3 DEF Handing
  <2> QED
    BY <2>1
<1>7. \A l \in Id : loops'[l].pc = "over" \/ l \in Reaped
  <2>1. \A l \in Id : loops[l].pc = "over" \/ l \in Reaped
    BY <1>1 DEF Reaped
  <2> QED
    BY <2>1, <1>3, <1>4
<1>8. loops'[1].pc = "over" /\ Reaped \subseteq Id /\ \A l \in Id : LoopGood(l, loops'[l])
  BY <1>1, <1>3, <1>4 DEF Reaped
<1>9. Fits(loops', halt', snap')
  <2>1. \A l \in Id : Reaping(l, loops'[l], halt', snap')
    BY <1>2, <1>7 DEF Reaping
  <2> QED
    BY <1>1, <1>2, <1>5, <1>6, <1>8, <2>1 DEF Fits
<1> QED
  BY <1>2, <1>9 DEF LoopInv

LEMMA FinishRunKeeps == ASSUME LoopInv, FinishRun PROVE LoopInv'
<1>1. /\ halt = "reap" /\ halt' = "done" /\ loops' = loops /\ snap' = snap /\ calls' = calls
      /\ \A l \in snap : loops[l].pc = "over"
  BY DEF FinishRun
<1>2. \A l \in DOMAIN loops : Reaping(l, loops[l], "done", snap)
  <2>1. \A l \in DOMAIN loops : Reaping(l, loops[l], "reap", snap)
    BY <1>1 DEF LoopInv, Fits
  <2> QED
    BY <1>1, <2>1 DEF Reaping
<1>3. Fits(loops, "done", snap)
  BY <1>1, <1>2 DEF LoopInv, Fits
<1> QED
  BY <1>1, <1>3 DEF LoopInv

LEMMA InitFits == Init => LoopInv
<1> SUFFICES ASSUME Init PROVE LoopInv
  OBVIOUS
<1> DEFINE kid(g) == Fresh(0, 0, 0, g, "step")
<1>1. PICK g \in Root : loops = <<kid(g)>>
  BY DEF Init
<1>2. g \in SUBSET Tool /\ MaxCalls \in Nat
  BY AgentAssumption
<1> DEFINE x == kid(g)
<1>3. /\ x \in Loop /\ x.up = 0 /\ x.depth = 0 /\ x.card = "none" /\ x.pc = "step" /\ x.shown = {} /\ x.msgs = <<>>
  <2>1. <<>> \in Seq(Msg) /\ <<>> \in Seq(Call) /\ <<>> \in Seq(Result)
    OBVIOUS
  <2> QED
    BY <1>2, <2>1 DEF Fresh, Loop, Phase, Outcome
<1> HIDE DEF x
<1>4. LoopGood(1, x)
  BY <1>3, NothingPairs DEF LoopGood, RootGood, TalkGood
<1>5. loops = <<x>>
  BY <1>1 DEF x
<1>6. loops \in Seq(Loop) /\ DOMAIN loops = {1} /\ loops[1] = x
  BY <1>3, <1>5
<1>7. Fits(loops, "no", {})
  BY <1>4, <1>6 DEF Fits, Reaping
<1> QED
  BY <1>2, <1>7 DEF Init, LoopInv

LEMMA StepFits == LoopInv /\ [Next]_vars => LoopInv'
<1> SUFFICES ASSUME LoopInv, [Next]_vars PROVE LoopInv'
  OBVIOUS
<1>1. ASSUME NEW l \in Id, BeginStep(l) PROVE LoopInv'
  BY <1>1, BeginStepKeeps
<1>2. ASSUME NEW l \in Id, Model(l) PROVE LoopInv'
  BY <1>2, ModelKeeps
<1>3. ASSUME NEW l \in Id, Tools(l) PROVE LoopInv'
  BY <1>3, ToolsKeep
<1>4. ASSUME NEW l \in Id, Handler(l) PROVE LoopInv'
  BY <1>4, HandlerKeeps
<1>5. ASSUME NEW l \in Id, Unwind(l) PROVE LoopInv'
  BY <1>5, UnwindKeeps
<1>6. ASSUME CancelRoot PROVE LoopInv'
  BY <1>6, CancelRootKeeps
<1>7. ASSUME Reap PROVE LoopInv'
  BY <1>7, ReapKeeps
<1>8. ASSUME FinishRun PROVE LoopInv'
  BY <1>8, FinishRunKeeps
<1>9. ASSUME UNCHANGED vars PROVE LoopInv'
  BY <1>9 DEF vars, LoopInv
<1> QED
  BY <1>1, <1>2, <1>3, <1>4, <1>5, <1>6, <1>7, <1>8, <1>9 DEF Next

(* The invariant holds in every state.                                         *)
THEOREM LoopsFit == Spec => []LoopInv
BY InitFits, StepFits, PTL DEF Spec

(* Loops, calls and the end of the run keep their types.                       *)
THEOREM TypesHold == Spec => []TypeOK
BY LoopsFit, InvTypes, PTL

(* Every request to a model keeps the results of each message's calls right    *)
(* behind it, one for each, whatever was denied, reused, delegated, failed or  *)
(* compressed (_execute_step_tools, compress_early_tool_results).              *)
THEOREM RequestsAreWhole == Spec => []RequestWellFormed
BY LoopsFit, InvPairs, PTL

(* However deep the delegation and whatever the configurations, a delegated    *)
(* agent never executes what an agent above it was not granted                 *)
(* (_build_child_tools), and no delegated agent drives the browser.            *)
THEOREM GrantsNarrow == Spec => []NarrowedAllTheWay
BY LoopsFit, InvNarrows, PTL

(* A client sees the output of one attempt of a step; a card that is shown as  *)
(* running is, one that is closed has its outcome on record, and when the run  *)
(* has ended none of the root's own delegations is at work.                    *)
THEOREM ShownHolds == Spec => []ShownAsIs
BY LoopsFit, InvShows, PTL

-----------------------------------------------------------------------------
(* One step of the model of LlmStream.                                         *)

WireCall == [index: Int, args: Seq(Nat \X Nat), wants: {0, Pieces}]
LoopCall == [index: Int, id: Nat, args: Seq(Nat \X Nat)]
Trace   == [status: {"failed", "success"}, retries: Int, usage: SUBSET Usage]

(* The index that the call k carries on the wire, and the one it has in the    *)
(* loop.                                                                       *)
OnWire(kind, text, k) == CASE kind = "openai" -> k - 1 [] kind = "anthropic" -> k + text [] OTHER -> -1
InLoop(kind, text, k) == IF kind = "anthropic" THEN k + text ELSE k - 1

(* The calls that the loop has put together are those that were sent.          *)
SameCalls(kind, text, s, g) ==
    /\ Len(g) = Len(s)
    /\ \A k \in 1 .. Len(s) : /\ s[k].index = OnWire(kind, text, k) /\ g[k].index = InLoop(kind, text, k)
                              /\ g[k].id = k /\ g[k].args = s[k].args

StreamTypes ==
    /\ ask \in [kind: Kinds, retry: BOOLEAN, image: BOOLEAN, whole: BOOLEAN]
    /\ at \in {"ready", "open", "reading", "over", "error", "gone"}
    /\ tries \in Nat /\ begun \in Nat
    /\ sent \in [calls: Seq(WireCall), text: Nat, usage: SUBSET Usage, end: BOOLEAN]
    /\ got \in [calls: Seq(LoopCall), text: Nat, usage: SUBSET Usage]
    /\ rows \in Seq(Trace)

Under == {"ready", "open", "reading"}
(* The rows of the recorder: a stream under way has none yet, and those of the *)
(* streams before it say that they failed.                                     *)
RowsTell ==
    /\ ~ask.whole => Len(rows) = IF at \in {"open", "reading"} THEN begun - 1 ELSE begun
    /\ ask.whole => /\ Len(rows) <= 1
                    /\ at = "ready" => begun = 0 /\ rows = <<>>
                    /\ at = "open" => begun = 1 /\ rows = <<>>
                    /\ at = "over" => begun = 1 /\ Len(rows) = 1
    /\ \A i \in 1 .. Len(rows) - 1 : rows[i].status = "failed"
    /\ at \in Under => \A i \in 1 .. Len(rows) : rows[i].status = "failed"
    /\ at = "over" => rows[Len(rows)].status = "success" /\ rows[Len(rows)].usage = Usage

StreamInv ==
    /\ StreamTypes
    /\ SameCalls(ask.kind, sent.text, sent.calls, got.calls)
    /\ seen = sent.text /\ got.text = sent.text
    /\ at \in {"ready", "open"} => sent = NothingSent /\ got = NothingGot
    /\ at = "reading" => ~ask.whole
    /\ at = "reading" /\ sent.end => got.usage = Usage
    /\ at = "reading" /\ ~sent.end /\ ask.kind = "anthropic" => sent.usage = {"in"}
    /\ at = "over" => got.usage = Usage
    /\ RowsTell
    /\ traced = FALSE

LEMMA Nothings ==
  /\ NothingSent \in [calls: Seq(WireCall), text: Nat, usage: SUBSET Usage, end: BOOLEAN]
  /\ NothingGot \in [calls: Seq(LoopCall), text: Nat, usage: SUBSET Usage]
  /\ NothingSent.text = 0 /\ NothingGot.text = 0 /\ NothingSent.end = FALSE
  /\ \A kind : SameCalls(kind, 0, NothingSent.calls, NothingGot.calls)
<1>1. <<>> \in Seq(WireCall) /\ <<>> \in Seq(LoopCall)
  OBVIOUS
<1> QED
  BY <1>1 DEF NothingSent, NothingGot, SameCalls

LEMMA StreamInit == TInit => StreamInv
<1> SUFFICES ASSUME TInit PROVE StreamInv
  OBVIOUS
<1>1. <<>> \in Seq(Trace) /\ Len(<<>>) = 0
  OBVIOUS
<1>2. StreamTypes /\ RowsTell
  BY <1>1, Nothings DEF TInit, StreamTypes, RowsTell
<1> QED
  BY <1>2, Nothings DEF TInit, StreamInv

(* A row more: the one of the stream that is over, which failed unless the     *)
(* step ends with it.                                                          *)
LEMMA RowMore ==
  ASSUME StreamInv, at \in {"open", "reading"}, NEW r \in Trace, rows' = Append(rows, r),
         UNCHANGED <<ask, begun>>, at' \in {"ready", "over", "error", "gone"},
         at' = "ready" => r.status = "failed" /\ ~ask.whole,
         at' = "over" => r.status = "success" /\ r.usage = Usage
  PROVE  RowsTell' /\ rows' \in Seq(Trace)
<1>1. /\ rows' \in Seq(Trace) /\ Len(rows') = Len(rows) + 1 /\ Len(rows) \in Nat /\ rows'[Len(rows) + 1] = r
      /\ \A i \in 1 .. Len(rows) : rows'[i] = rows[i]
  BY AppendProperties DEF StreamInv, StreamTypes
<1>2. \A i \in 1 .. Len(rows) : rows[i].status = "failed"
  BY DEF StreamInv, RowsTell, Under
<1>3. /\ ~ask.whole => Len(rows) = begun - 1
      /\ ask.whole => begun = 1 /\ Len(rows) = 0
  BY DEF StreamInv, RowsTell
<1>4. \A i \in 1 .. Len(rows') - 1 : rows'[i].status = "failed"
  BY <1>1, <1>2
<1>5. at' \in Under => \A i \in 1 .. Len(rows') : rows'[i].status = "failed"
  BY <1>1, <1>2 DEF Under
<1>6. /\ ~ask.whole => Len(rows') = begun
      /\ ask.whole => Len(rows') = 1 /\ begun = 1
  BY <1>1, <1>3 DEF StreamInv, StreamTypes
<1> QED
  BY <1>1, <1>4, <1>5, <1>6 DEF RowsTell

LEMMA RowIs ==
  ASSUME StreamInv, NEW status \in {"failed", "success"}, NEW n \in Int
  PROVE  /\ Row(status, n) \in Trace /\ Row(status, n).status = status /\ Row(status, n).usage = got.usage
BY DEF Row, Trace, StreamInv, StreamTypes

(* A stream that fails: the step is over, or tries again from nothing.         *)
LEMMA FailedStep ==
  ASSUME StreamInv, at \in {"open", "reading"}, ~ask.whole, NEW n \in Int, Failed(n),
         UNCHANGED <<ask, seen, begun, traced>>, tries' \in Nat
  PROVE  StreamInv'
<1> DEFINE r == Row("failed", IF n > 0 THEN n - 1 ELSE 0)
<1>1. r \in Trace /\ r.status = "failed"
  BY RowIs
<1>2. rows' = Append(rows, r) /\ StreamError
  BY DEF Failed
<1> HIDE DEF r
<1>3. at' \in {"ready", "error"}
  BY <1>2 DEF StreamError
<1>4. RowsTell' /\ rows' \in Seq(Trace)
  BY <1>1, <1>2, <1>3, RowMore
<1>5. CASE at' = "error"
  BY <1>2, <1>4, <1>5 DEF StreamError, StreamInv, StreamTypes
<1>6. CASE at' = "ready"
  <2>1. sent' = NothingSent /\ got' = NothingGot /\ ~Produced
    BY <1>2, <1>6 DEF StreamError
  <2>2. seen = 0
    BY <2>1 DEF StreamInv, StreamTypes, Produced
  <2> QED
    BY <1>4, <1>6, <2>1, <2>2, Nothings DEF StreamInv, StreamTypes
<1> QED
  BY <1>3, <1>5, <1>6

(* An index leads to the call it belongs to, and a call without one is the     *)
(* last.                                                                       *)
LEMMA TargetIs ==
  ASSUME StreamInv, NEW k \in DOMAIN sent.calls, Turnable(k)
  PROVE  Target(sent.calls[k].index) = k
<1>1. /\ Len(sent.calls) \in Nat /\ DOMAIN sent.calls = 1 .. Len(sent.calls) /\ k \in 1 .. Len(sent.calls)
      /\ Len(got.calls) = Len(sent.calls) /\ DOMAIN got.calls = 1 .. Len(sent.calls) /\ sent.text \in Nat
  BY DEF StreamInv, StreamTypes, SameCalls
<1>2. /\ sent.calls[k].index = OnWire(ask.kind, sent.text, k)
      /\ \A i \in 1 .. Len(sent.calls) : got.calls[i].index = InLoop(ask.kind, sent.text, i)
  BY <1>1 DEF StreamInv, SameCalls
<1>3. CASE ask.kind \in {"openai", "anthropic"}
  <2>1. sent.calls[k].index = InLoop(ask.kind, sent.text, k) /\ sent.calls[k].index # -1
    BY <1>1, <1>2, <1>3 DEF OnWire, InLoop
  <2>2. Held(sent.calls[k].index) = {k}
    <3>1. ASSUME NEW i \in 1 .. Len(sent.calls), InLoop(ask.kind, sent.text, i) = InLoop(ask.kind, sent.text, k)
          PROVE  i = k
      BY <1>1, <3>1 DEF InLoop
    <3>2. \A i \in 1 .. Len(sent.calls) : got.calls[i].index = sent.calls[k].index <=> i = k
      BY <1>1, <1>2, <2>1, <3>1
    <3> QED
      BY <1>1, <3>2 DEF Held
  <2> QED
    BY <2>1, <2>2 DEF Target
<1>4. CASE ask.kind \notin {"openai", "anthropic"}
  BY <1>1, <1>2, <1>4 DEF Target, Turnable, OnWire
<1> QED
  BY <1>3, <1>4

LEMMA HighestIs ==
  ASSUME StreamInv, ask.kind \notin {"openai", "anthropic"}
  PROVE  Highest = Len(sent.calls) - 1
<1>1. /\ Len(sent.calls) \in Nat /\ Len(got.calls) = Len(sent.calls) /\ DOMAIN got.calls = 1 .. Len(sent.calls)
      /\ got.calls \in Seq(LoopCall)
      /\ \A i \in 1 .. Len(sent.calls) : got.calls[i].index = i - 1
  <2>1. /\ Len(sent.calls) \in Nat /\ Len(got.calls) = Len(sent.calls) /\ got.calls \in Seq(LoopCall)
        /\ \A i \in 1 .. Len(sent.calls) : got.calls[i].index = InLoop(ask.kind, sent.text, i)
    BY DEF StreamInv, StreamTypes, SameCalls
  <2>2. DOMAIN got.calls = 1 .. Len(sent.calls)
    BY <2>1
  <2>3. \A i : InLoop(ask.kind, sent.text, i) = i - 1
    BY DEF InLoop
  <2> QED
    BY <2>1, <2>2, <2>3
<1>2. CASE Len(sent.calls) = 0
  BY <1>1, <1>2, EmptySeq DEF Highest
<1>3. CASE Len(sent.calls) # 0
  <2> DEFINE S == {got.calls[i].index : i \in DOMAIN got.calls}
             P(n) == \A i \in DOMAIN got.calls : got.calls[i].index <= n
             h == Len(sent.calls) - 1
  <2>1. h \in S /\ P(h)
    <3>1. Len(sent.calls) \in DOMAIN got.calls /\ got.calls[Len(sent.calls)].index = h
      BY <1>1, <1>3
    <3> QED
      BY <1>1, <3>1
  <2>2. \A n \in S : P(n) => n = h
    <3> SUFFICES ASSUME NEW n \in S, P(n) PROVE n = h
      OBVIOUS
    <3>1. n \in Int /\ n <= h
      BY <1>1
    <3>2. Len(sent.calls) \in DOMAIN got.calls /\ got.calls[Len(sent.calls)].index = h
      BY <1>1, <1>3
    <3>3. h <= n
      BY <3>2
    <3> QED
      BY <1>1, <3>1, <3>3
  <2>3. (CHOOSE n \in S : P(n)) = h
    <3> HIDE DEF S, P, h
    <3> QED
      BY <2>1, <2>2
  <2>4. got.calls # <<>>
    BY <1>1, <1>3
  <2> QED
    BY <2>3, <2>4 DEF Highest
<1> QED
  BY <1>2, <1>3

LEMMA OpeningSteps ==
  ASSUME StreamInv,
         Begins \/ WholeFailsFor \/ WholeAnswered \/ WholeUnreadable \/ OpensWell \/ OpenFailsAgain \/ OpenFailsFor
  PROVE  StreamInv'
<1>0. /\ StreamTypes /\ RowsTell /\ traced = FALSE
  BY DEF StreamInv
<1>1. CASE Begins
  <2>1. traced' = FALSE
    BY <1>0, <1>1 DEF Begins, Block, Omitted
  <2>2. UNCHANGED <<ask, sent, got, seen, rows>> /\ at = "ready" /\ at' = "open" /\ begun' = begun + 1 /\ tries' = 0
    BY <1>1 DEF Begins
  <2>3. StreamTypes'
    BY <1>0, <2>2 DEF StreamTypes
  <2>4. RowsTell'
    BY <1>0, <2>2 DEF RowsTell, StreamTypes, Under
  <2> QED
    BY <2>1, <2>2, <2>3, <2>4 DEF StreamInv
<1>2. CASE WholeFailsFor
  <2>1. /\ Row("failed", tries) \in Trace /\ Row("failed", tries).status = "failed"
    BY <1>0, RowIs DEF StreamTypes
  <2>2. at = "open" /\ at' = "error" /\ rows' = Append(rows, Row("failed", tries))
        /\ UNCHANGED <<ask, tries, sent, got, seen, begun, traced>>
    BY <1>2 DEF WholeFailsFor
  <2>3. RowsTell' /\ rows' \in Seq(Trace)
    BY <2>1, <2>2, RowMore
  <2> QED
    BY <2>2, <2>3 DEF StreamInv, StreamTypes
<1>3. CASE WholeAnswered
  <2> DEFINE r == [status |-> "success", retries |-> tries, usage |-> Usage]
  <2>1. r \in Trace /\ r.status = "success" /\ r.usage = Usage
    BY <1>0 DEF Trace, StreamTypes
  <2>2. at = "open" /\ at' = "over" /\ rows' = Append(rows, r) /\ got' = [got EXCEPT !.usage = Usage]
        /\ UNCHANGED <<ask, tries, sent, seen, begun, traced>>
    BY <1>3 DEF WholeAnswered
  <2> HIDE DEF r
  <2>3. RowsTell' /\ rows' \in Seq(Trace)
    BY <2>1, <2>2, RowMore
  <2>4. /\ got' \in [calls: Seq(LoopCall), text: Nat, usage: SUBSET Usage]
        /\ got'.calls = got.calls /\ got'.text = got.text /\ got'.usage = Usage
    BY <1>0, <2>2 DEF StreamTypes
  <2> QED
    BY <2>2, <2>3, <2>4 DEF StreamInv, StreamTypes
<1>4. CASE WholeUnreadable
  <2>1. RowsTell'
    BY <1>0, <1>4 DEF WholeUnreadable, RowsTell, Under
  <2> QED
    BY <1>4, <2>1 DEF WholeUnreadable, StreamInv, StreamTypes
<1>5. CASE OpensWell
  <2>1. at = "open" /\ at' = "reading" /\ ~ask.whole /\ tries' \in Nat /\ UNCHANGED <<ask, got, seen, rows, begun, traced>>
    BY <1>0, <1>5 DEF OpensWell, StreamTypes
  <2>2. /\ sent' \in [calls: Seq(WireCall), text: Nat, usage: SUBSET Usage, end: BOOLEAN]
        /\ sent'.calls = sent.calls /\ sent'.text = sent.text /\ sent'.end = sent.end
        /\ ask.kind = "anthropic" => sent'.usage = {"in"}
    BY <1>0, <1>5 DEF OpensWell, StreamTypes, Usage
  <2>3. sent.end = FALSE
    BY <2>1, Nothings DEF StreamInv
  <2>4. RowsTell'
    BY <1>0, <2>1 DEF RowsTell, Under
  <2> QED
    BY <1>0, <2>1, <2>2, <2>3, <2>4 DEF StreamInv, StreamTypes
<1>6. CASE OpenFailsAgain
  <2>1. UNCHANGED <<ask, at, sent, got, seen, rows, begun, traced>> /\ tries' \in Nat
    BY <1>0, <1>6 DEF OpenFailsAgain, StreamTypes
  <2> QED
    BY <2>1 DEF StreamInv, StreamTypes, RowsTell
<1>7. CASE OpenFailsFor
  <2>1. at = "open" /\ ~ask.whole /\ tries' \in Nat /\ tries + 1 \in Int /\ Failed(tries + 1)
        /\ UNCHANGED <<ask, seen, begun, traced>>
    BY <1>0, <1>7 DEF OpenFailsFor, StreamTypes
  <2> QED
    BY <2>1, FailedStep
<1> QED
  BY <1>1, <1>2, <1>3, <1>4, <1>5, <1>6, <1>7

(* What is sent is put together: nothing else of the step changes.             *)
LEMMA ReadStep ==
  ASSUME StreamInv, Reads, UNCHANGED reading,
         sent' \in [calls: Seq(WireCall), text: Nat, usage: SUBSET Usage, end: BOOLEAN],
         got' \in [calls: Seq(LoopCall), text: Nat, usage: SUBSET Usage],
         SameCalls(ask.kind, sent'.text, sent'.calls, got'.calls), seen' = sent'.text, got'.text = sent'.text,
         IF sent'.end THEN got'.usage = Usage ELSE sent'.usage = sent.usage
  PROVE  StreamInv'
<1>1. /\ at = "reading" /\ ~sent.end /\ UNCHANGED <<ask, at, tries, rows, begun, traced>>
  BY DEF Reads, reading
<1>2. StreamTypes' /\ RowsTell'
  BY <1>1 DEF StreamInv, StreamTypes, RowsTell
<1> QED
  BY <1>1, <1>2 DEF StreamInv

LEMMA TextStep ==
  ASSUME StreamInv, SendText
  PROVE  StreamInv'
<1>1. /\ Reads /\ UNCHANGED reading /\ sent.calls = <<>> /\ seen' = seen + 1
      /\ sent' = [sent EXCEPT !.text = @ + 1] /\ got' = [got EXCEPT !.text = @ + 1]
      /\ StreamTypes /\ ~sent.end /\ seen = sent.text /\ got.text = sent.text
  BY DEF SendText, StreamInv, Reads
<1>2. /\ sent' \in [calls: Seq(WireCall), text: Nat, usage: SUBSET Usage, end: BOOLEAN]
      /\ got' \in [calls: Seq(LoopCall), text: Nat, usage: SUBSET Usage]
      /\ sent'.calls = sent.calls /\ sent'.text = sent.text + 1 /\ sent'.end = sent.end /\ sent'.usage = sent.usage
      /\ got'.calls = got.calls /\ got'.text = got.text + 1
  <2> DEFINE m == sent.text + 1
  <2>1. m \in Nat /\ sent' = [sent EXCEPT !.text = m] /\ got' = [got EXCEPT !.text = m]
    BY <1>1 DEF StreamTypes
  <2> HIDE DEF m
  <2>2. /\ sent' \in [calls: Seq(WireCall), text: Nat, usage: SUBSET Usage, end: BOOLEAN]
        /\ sent'.calls = sent.calls /\ sent'.text = m /\ sent'.end = sent.end /\ sent'.usage = sent.usage
    BY <1>1, <2>1 DEF StreamTypes
  <2>3. /\ got' \in [calls: Seq(LoopCall), text: Nat, usage: SUBSET Usage]
        /\ got'.calls = got.calls /\ got'.text = m
    BY <1>1, <2>1 DEF StreamTypes
  <2> QED
    BY <1>1, <2>2, <2>3 DEF m
<1>3. SameCalls(ask.kind, sent'.text, sent'.calls, got'.calls)
  <2>1. Len(got.calls) = 0 /\ Len(sent.calls) = 0
    BY <1>1 DEF StreamInv, SameCalls
  <2> QED
    BY <1>2, <2>1 DEF SameCalls
<1> QED
  BY <1>1, <1>2, <1>3, ReadStep

LEMMA UsageStep ==
  ASSUME StreamInv, SendUsage
  PROVE  StreamInv'
<1>1. /\ Reads /\ UNCHANGED reading /\ seen' = seen /\ at = "reading"
      /\ sent' = [sent EXCEPT !.usage = Usage, !.end = TRUE]
      /\ got' = [got EXCEPT !.usage = IF ask.kind = "anthropic" THEN Merged ELSE Usage]
      /\ StreamTypes /\ ~sent.end
  BY DEF SendUsage, StreamInv, Reads
<1>2. (IF ask.kind = "anthropic" THEN Merged ELSE Usage) = Usage
  BY <1>1 DEF StreamInv, Merged, Usage
<1>3. /\ sent' \in [calls: Seq(WireCall), text: Nat, usage: SUBSET Usage, end: BOOLEAN]
      /\ got' \in [calls: Seq(LoopCall), text: Nat, usage: SUBSET Usage]
      /\ sent'.calls = sent.calls /\ sent'.text = sent.text /\ sent'.end = TRUE
      /\ got'.calls = got.calls /\ got'.text = got.text /\ got'.usage = Usage
  BY <1>1, <1>2 DEF StreamTypes
<1>4. /\ SameCalls(ask.kind, sent.text, sent.calls, got.calls) /\ seen = sent.text /\ got.text = sent.text
  BY DEF StreamInv
<1> QED
  BY <1>1, <1>3, <1>4, ReadStep

LEMMA CallStep ==
  ASSUME StreamInv, NEW wants \in {0, Pieces}, NEW args \in Seq(Nat \X Nat), StartCall(wants, args)
  PROVE  StreamInv'
<1> DEFINE k == Len(sent.calls) + 1
           s == [index |-> IndexOf(k), args |-> args, wants |-> wants]
           g == [index |-> IF IndexOf(k) = -1 THEN Highest + 1 ELSE IndexOf(k), id |-> k, args |-> args]
<1>1. /\ Reads /\ UNCHANGED reading /\ seen' = seen
      /\ sent' = [sent EXCEPT !.calls = Append(sent.calls, s)] /\ got' = [got EXCEPT !.calls = Append(got.calls, g)]
      /\ StreamTypes /\ ~sent.end
  BY DEF StartCall, Started, StreamInv, Reads, reading
<1>2. /\ Len(sent.calls) \in Nat /\ k \in Nat /\ k >= 1 /\ sent.text \in Nat /\ Len(got.calls) = Len(sent.calls)
      /\ sent.calls \in Seq(WireCall) /\ got.calls \in Seq(LoopCall)
  BY <1>1 DEF StreamTypes, StreamInv, SameCalls
<1>3. s.index = OnWire(ask.kind, sent.text, k) /\ s.index \in Int
  BY <1>2 DEF IndexOf, OnWire
<1>4. g.index = InLoop(ask.kind, sent.text, k) /\ g.index \in Int
  <2>1. CASE ask.kind \in {"openai", "anthropic"}
    BY <1>2, <2>1 DEF IndexOf, InLoop
  <2>2. CASE ask.kind \notin {"openai", "anthropic"}
    BY <1>2, <2>2, HighestIs DEF IndexOf, InLoop
  <2> QED
    BY <2>1, <2>2
<1>5. s \in WireCall /\ g \in LoopCall /\ g.id = k /\ g.args = s.args
  BY <1>2, <1>3, <1>4 DEF WireCall, LoopCall
<1> HIDE DEF s, g
<1>6. /\ Append(sent.calls, s) \in Seq(WireCall) /\ Append(got.calls, g) \in Seq(LoopCall)
      /\ Len(Append(sent.calls, s)) = k /\ Len(Append(got.calls, g)) = k
      /\ \A i \in 1 .. Len(sent.calls) : Append(sent.calls, s)[i] = sent.calls[i] /\ Append(got.calls, g)[i] = got.calls[i]
      /\ Append(sent.calls, s)[k] = s /\ Append(got.calls, g)[k] = g
  BY <1>2, <1>5, AppendProperties
<1>7. SameCalls(ask.kind, sent.text, Append(sent.calls, s), Append(got.calls, g))
  <2> SUFFICES ASSUME NEW i \in 1 .. k
               PROVE  LET a == Append(sent.calls, s)[i]
                          b == Append(got.calls, g)[i]
                      IN  a.index = OnWire(ask.kind, sent.text, i) /\ b.index = InLoop(ask.kind, sent.text, i)
                          /\ b.id = i /\ b.args = a.args
    BY <1>6 DEF SameCalls
  <2>1. CASE i = k
    BY <1>3, <1>4, <1>5, <1>6, <2>1
  <2>2. CASE i \in 1 .. Len(sent.calls)
    BY <1>6, <2>2 DEF StreamInv, SameCalls
  <2> QED
    BY <1>2, <2>1, <2>2
<1>8. /\ sent' \in [calls: Seq(WireCall), text: Nat, usage: SUBSET Usage, end: BOOLEAN]
      /\ got' \in [calls: Seq(LoopCall), text: Nat, usage: SUBSET Usage]
      /\ sent'.calls = Append(sent.calls, s) /\ sent'.text = sent.text /\ sent'.end = sent.end /\ sent'.usage = sent.usage
      /\ got'.calls = Append(got.calls, g) /\ got'.text = got.text
  BY <1>1, <1>6 DEF StreamTypes
<1>9. seen = sent.text /\ got.text = sent.text
  BY DEF StreamInv
<1> QED
  BY <1>1, <1>7, <1>8, <1>9, ReadStep

LEMMA PieceStep ==
  ASSUME StreamInv, NEW K \in SUBSET (DOMAIN sent.calls), SendPieces(K)
  PROVE  StreamInv'
<1> DEFINE n == Len(sent.calls)
           Longer(c, i) == IF i \in K THEN [c EXCEPT !.args = Append(@, Piece(i))] ELSE c
           s == [i \in 1 .. n |-> Longer(sent.calls[i], i)]
           g == [i \in 1 .. n |-> Longer(got.calls[i], i)]
<1>1. /\ Reads /\ UNCHANGED reading /\ seen' = seen /\ StreamTypes /\ ~sent.end
      /\ \A k \in K : Turnable(k)
  BY DEF SendPieces, StreamInv, Reads
<1>2. /\ n \in Nat /\ DOMAIN sent.calls = 1 .. n /\ DOMAIN got.calls = 1 .. n /\ Len(got.calls) = n
      /\ \A i \in 1 .. n : sent.calls[i] \in WireCall /\ got.calls[i] \in LoopCall
  BY <1>1 DEF StreamTypes, StreamInv, SameCalls
<1>3. \A k \in K : Target(sent.calls[k].index) = k
  BY <1>1, TargetIs
<1>4. WithPieces(sent.calls, K, LAMBDA k : k) = s
  <2>1. \A i \in 1 .. n : (\E k \in K : k = i) => (CHOOSE k \in K : k = i) = i
    OBVIOUS
  <2> QED
    BY <1>2, <2>1 DEF WithPieces
<1>5. WithPieces(got.calls, K, LAMBDA k : Target(sent.calls[k].index)) = g
  <2>1. \A i \in 1 .. n : /\ (\E k \in K : Target(sent.calls[k].index) = i) <=> i \in K
                          /\ i \in K => (CHOOSE k \in K : Target(sent.calls[k].index) = i) = i
    BY <1>3
  <2> QED
    BY <1>2, <2>1 DEF WithPieces
<1>6. sent' = [sent EXCEPT !.calls = s] /\ got' = [got EXCEPT !.calls = g]
  BY <1>4, <1>5 DEF SendPieces
<1>7. ASSUME NEW i \in 1 .. n
      PROVE  /\ s[i] \in WireCall /\ s[i].index = sent.calls[i].index
             /\ g[i] \in LoopCall /\ g[i].index = got.calls[i].index /\ g[i].id = got.calls[i].id
             /\ g[i].args = s[i].args
  <2>1. sent.calls[i].args \in Seq(Nat \X Nat) /\ got.calls[i].args = sent.calls[i].args
    BY <1>2 DEF StreamInv, SameCalls, WireCall
  <2>2. Piece(i) \in Nat \X Nat
    BY <1>2, <2>1 DEF Piece
  <2>3. Append(sent.calls[i].args, Piece(i)) \in Seq(Nat \X Nat)
    BY <2>1, <2>2
  <2>4. s[i] = Longer(sent.calls[i], i) /\ g[i] = Longer(got.calls[i], i)
    OBVIOUS
  <2> HIDE DEF s, g
  <2>5. CASE i \in K
    <3> DEFINE a == Append(sent.calls[i].args, Piece(i))
    <3>1. a \in Seq(Nat \X Nat) /\ s[i] = [sent.calls[i] EXCEPT !.args = a] /\ g[i] = [got.calls[i] EXCEPT !.args = a]
      BY <2>1, <2>3, <2>4, <2>5
    <3> HIDE DEF a
    <3>2. s[i] \in WireCall /\ s[i].index = sent.calls[i].index /\ s[i].args = a
      BY <1>2, <3>1 DEF WireCall
    <3>3. g[i] \in LoopCall /\ g[i].index = got.calls[i].index /\ g[i].id = got.calls[i].id /\ g[i].args = a
      BY <1>2, <3>1 DEF LoopCall
    <3> QED
      BY <3>2, <3>3
  <2>6. CASE i \notin K
    BY <1>2, <2>1, <2>4, <2>6
  <2> QED
    BY <2>5, <2>6
<1>8. s \in Seq(WireCall) /\ g \in Seq(LoopCall) /\ Len(s) = n /\ Len(g) = n
  <2>1. /\ s = [i \in 1 .. n |-> s[i]] /\ \A i \in 1 .. n : s[i] \in WireCall
        /\ g = [i \in 1 .. n |-> g[i]] /\ \A i \in 1 .. n : g[i] \in LoopCall
    BY <1>7
  <2> HIDE DEF s, g
  <2>2. s \in [1 .. n -> WireCall] /\ g \in [1 .. n -> LoopCall]
    BY <2>1
  <2> QED
    BY <1>2, <2>2
<1> HIDE DEF s, g
<1>9. SameCalls(ask.kind, sent.text, s, g)
  BY <1>2, <1>7, <1>8 DEF StreamInv, SameCalls
<1>10. /\ sent' \in [calls: Seq(WireCall), text: Nat, usage: SUBSET Usage, end: BOOLEAN]
       /\ got' \in [calls: Seq(LoopCall), text: Nat, usage: SUBSET Usage]
       /\ sent'.calls = s /\ sent'.text = sent.text /\ sent'.end = sent.end /\ sent'.usage = sent.usage
       /\ got'.calls = g /\ got'.text = got.text
  BY <1>1, <1>6, <1>8 DEF StreamTypes
<1>11. seen = sent.text /\ got.text = sent.text
  BY DEF StreamInv
<1> QED
  BY <1>1, <1>9, <1>10, <1>11, ReadStep

LEMMA EndSteps ==
  ASSUME StreamInv, Completes \/ Breaks \/ Escapes
  PROVE  StreamInv'
<1>0. at = "reading" /\ StreamTypes /\ Failures \in Int /\ ~ask.whole
  BY DEF Completes, Breaks, Escapes, StreamInv, StreamTypes, Failures
<1>1. CASE Breaks
  BY <1>0, <1>1, FailedStep DEF Breaks, StreamTypes
<1>2. CASE Completes \/ Escapes
  <2> DEFINE r == Row("success", Failures)
  <2>1. r \in Trace /\ r.status = "success" /\ r.usage = got.usage
    BY <1>0, RowIs
  <2>2. /\ rows' = Append(rows, r) /\ at' \in {"over", "error", "gone"}
        /\ UNCHANGED <<ask, tries, sent, got, seen, begun, traced>>
        /\ at' = "over" => sent.end
    BY <1>2 DEF Completes, Escapes
  <2> HIDE DEF r
  <2>3. at' = "over" => got.usage = Usage
    BY <1>0, <2>2 DEF StreamInv
  <2>4. RowsTell' /\ rows' \in Seq(Trace)
    BY <1>0, <2>1, <2>2, <2>3, RowMore
  <2> QED
    BY <2>2, <2>3, <2>4 DEF StreamInv, StreamTypes
<1> QED
  BY <1>1, <1>2

LEMMA StreamStep ==
  ASSUME StreamInv, [TNext]_tvars
  PROVE  StreamInv'
<1>1. CASE UNCHANGED tvars
  BY <1>1 DEF tvars, StreamInv, StreamTypes, RowsTell
<1>2. ASSUME NEW wants \in {0, Pieces}, StartCall(wants, <<>>)
      PROVE  StreamInv'
  <2>1. <<>> \in Seq(Nat \X Nat)
    OBVIOUS
  <2> QED
    BY <1>2, <2>1, CallStep
<1>3. CASE StartCall(Pieces, <<<<Len(sent.calls) + 1, 1>>>>)
  <2>1. Len(sent.calls) + 1 \in Nat
    BY DEF StreamInv, StreamTypes
  <2>2. <<<<Len(sent.calls) + 1, 1>>>> \in Seq(Nat \X Nat)
    BY <2>1
  <2> QED
    BY <1>3, <2>2, CallStep
<1>4. ASSUME NEW K \in SUBSET (DOMAIN sent.calls), SendPieces(K)
      PROVE  StreamInv'
  BY <1>4, PieceStep
<1> QED
  BY <1>1, <1>2, <1>3, <1>4, OpeningSteps, TextStep, UsageStep, EndSteps DEF TNext

LEMMA StreamImply == StreamInv => StreamHolds
<1> SUFFICES ASSUME StreamInv PROVE StreamHolds
  OBVIOUS
<1>1. CallsAsSent
  <2>1. Len(sent.calls) \in Nat /\ DOMAIN sent.calls = 1 .. Len(sent.calls)
    BY DEF StreamInv, StreamTypes
  <2> QED
    BY <2>1 DEF CallsAsSent, StreamInv, SameCalls
<1>2. OneAnswer
  BY DEF StreamInv, OneAnswer
<1>3. EveryStreamRecorded
  BY DEF StreamInv, RowsTell, EveryStreamRecorded, StreamTypes
<1>4. NoPixelsTraced
  BY DEF StreamInv, NoPixelsTraced
<1> QED
  BY <1>1, <1>2, <1>3, <1>4 DEF StreamHolds

(* Whatever the service sends and in which order the pieces of parallel calls  *)
(* come, a step that succeeds has the calls that were sent; a stream is        *)
(* recorded once with its outcome, and no picture is traced (llm/client.py,    *)
(* core/agent.py).                                                             *)
THEOREM StepAsSent == TSpec => []StreamHolds
BY StreamInit, StreamStep, StreamImply, PTL DEF TSpec

-----------------------------------------------------------------------------
(* The parts side by side.                                                     *)

Beside == /\ part = "loop" => LoopInv /\ NoStream
          /\ part = "stream" => StreamInv /\ NoLoop
          /\ part = "servers" => NoLoop /\ NoStream
          /\ part \in {"loop", "servers", "stream"}

LEMMA NoLoopShows == NoLoop => ShownAsIs
BY DEF NoLoop, ShownAsIs, NoReplay, CardCloses, NothingAfterEnd, Id

LEMMA NoStreamHolds == NoStream => StreamHolds
BY Nothings DEF NoStream, NothingSent, NothingGot, StreamHolds, CallsAsSent, OneAnswer, EveryStreamRecorded,
                NoPixelsTraced

LEMMA BesideStarts == MCInit => Beside
<1> SUFFICES ASSUME MCInit PROVE Beside
  OBVIOUS
<1> QED
  BY InitFits, StreamInit DEF MCInit, Beside

LEMMA BesideKeeps == Beside /\ [MCNext]_<<part, vars, mvars, tvars>> => Beside'
<1> SUFFICES ASSUME Beside, [MCNext]_<<part, vars, mvars, tvars>> PROVE Beside'
  OBVIOUS
<1>1. ASSUME UNCHANGED vars PROVE NoLoop => NoLoop'
  BY <1>1 DEF NoLoop, vars
<1>2. ASSUME UNCHANGED tvars PROVE NoStream => NoStream'
  BY <1>2 DEF NoStream, tvars
<1>3. CASE part = "loop" /\ Next /\ UNCHANGED <<part, mvars, tvars>>
  BY <1>2, <1>3, StepFits DEF Beside
<1>4. CASE part = "servers" /\ McpNext /\ UNCHANGED <<part, vars, tvars>>
  BY <1>1, <1>2, <1>4 DEF Beside
<1>5. CASE part = "stream" /\ TNext /\ UNCHANGED <<part, vars, mvars>>
  BY <1>1, <1>5, StreamStep DEF Beside
<1>6. CASE UNCHANGED <<part, vars, mvars, tvars>>
  BY <1>1, <1>2, <1>6, StepFits, StreamStep DEF Beside
<1> QED
  BY <1>3, <1>4, <1>5, <1>6 DEF MCNext

(* What the model is sent and sends, and what of it is seen, are the same: the *)
(* result of the loop and that of the step together.                           *)
THEOREM StepsAreTrue == MCSpec => []StepIsTrue
<1>1. Beside => StepIsTrue
  BY InvShows, StreamImply, NoLoopShows, NoStreamHolds DEF Beside, StepIsTrue
<1> QED
  BY <1>1, BesideStarts, BesideKeeps, PTL DEF MCSpec

-----------------------------------------------------------------------------
(* The connections of McpServers.                                              *)

ConnRec  == [srv: Server \cup {NoOne}, prefix: Prefix \cup {NoOne}, owner: Owner \cup {0},
             session: Owner \cup {0}, up: BOOLEAN, ready: BOOLEAN, stop: BOOLEAN, closed: BOOLEAN,
             tools: SUBSET McpTool, lock: Request \cup {NoOne, "closer"},
             closer: {"none", "lock", "join", "over"}]
OwnerRec == [conn: Conn \cup {0}, pc: {"none", "start", "init", "open", "over"}]
OpRec    == [pc: {"new", "lock", "close", "open", "ready", "fail", "sent", "relock", "join", "again",
                  "relist", "list", "over"},
             kind: {"none", "add", "remove", "call", "refresh"}, srv: Server \cup {NoOne},
             conn: Conn \cup {0}, prefix: Prefix \cup {NoOne}, failed: Owner \cup {0}, raising: BOOLEAN]
McpTypes ==
    /\ reg \in [Server -> Conn \cup {0}] /\ server_lock \in [Server -> Request \cup {NoOne}]
    /\ conn \in [Conn -> ConnRec] /\ owner \in [Owner -> OwnerRec] /\ op \in [Request -> OpRec]
    /\ offer \in [Server -> SUBSET McpTool] /\ expired \subseteq blamed

Adding(x, c) == op[x].kind = "add" /\ op[x].conn = c /\ op[x].pc \in {"ready", "fail"}
CalledIn(ops, c) == \E x \in Request : ops[x].kind = "call" /\ ops[x].conn = c
NamesOf(conns, c) == {<<conns[c].prefix, t>> : t \in conns[c].tools}

(* An operation: of which kind it is at which step, the locks that it holds,   *)
(* and what is true of its connection.                                         *)
OpGood(x) == LET p == op[x] IN
    /\ p.pc \in {"new", "over"} => p.kind = "none"
    /\ p.pc \in {"lock", "close", "open"} => p.kind \in {"add", "remove"} /\ p.srv \in Server
    /\ p.pc \in {"ready", "fail"} => p.kind \in {"add", "call"} /\ conn[p.conn].lock = x
    /\ p.pc \in {"sent", "again", "relock", "join"} => p.kind = "call"
    /\ p.pc \in {"relist", "list"} => p.kind = "refresh" /\ p.srv \in Server
    /\ p.pc \in {"close", "open", "ready", "fail"} /\ p.kind # "call" =>
         p.srv \in Server /\ server_lock[p.srv] = x /\ reg[p.srv] = 0
    /\ p.conn # 0 => conn[p.conn].srv \in Server
    /\ p.pc \in {"ready", "fail", "sent", "again", "relock", "join", "list", "close"} => p.conn # 0
    /\ p.pc = "join" => conn[p.conn].lock = x
    /\ p.pc \in {"ready", "fail"} /\ p.kind = "add" => conn[p.conn].srv = p.srv /\ ~conn[p.conn].closed
    /\ p.pc = "close" => conn[p.conn].closed
    /\ p.pc = "relock" => p.failed \in blamed
    /\ p.pc = "list" => conn[p.conn].srv = p.srv

(* A connection: it is its server's, or closed, or being opened; it knows the  *)
(* owner whose session it uses, and gives it up only for a reason.             *)
ConnGood(c) == LET r == conn[c] IN
    /\ r = NoConn \/ r.srv \in Server
    /\ r.srv \in Server => reg[r.srv] = c \/ r.closed \/ \E x \in Request : Adding(x, c)
    /\ r.closed <=> r.closer # "none"
    /\ r.closer = "join" => r.lock = "closer"
    /\ r.closer = "over" => r.lock = NoOne /\ r.owner = 0
    /\ r.owner # 0 => owner[r.owner].conn = c /\ owner[r.owner].pc # "none"
    /\ r.up => r.owner # 0 /\ owner[r.owner].pc = "open" /\ r.session = r.owner
    /\ r.stop => r.closed \/ r.owner = 0 \/ r.owner \in blamed

RegGood(s) == reg[s] # 0 => conn[reg[s]].srv = s /\ ~conn[reg[s]].closed

OwnerGood(o) == LET c == owner[o].conn IN
    /\ owner[o] = NoOwner \/ (c # 0 /\ conn[c].srv \in Server /\ owner[o].pc # "none")
    /\ Live(o) => conn[c].owner = o
    /\ owner[o].pc \in {"init", "open"} => conn[c].session = o
    /\ owner[o].pc = "open" => conn[c].up
    /\ owner[o].pc \in {"start", "init"} =>
         ~conn[c].ready /\ \E x \in Request : conn[c].lock = x /\ op[x].conn = c /\ op[x].pc \in {"ready", "fail"}
    /\ owner[o].pc = "over" => o \in blamed \/ conn[c].closed

NamesGood == \A n \in DOMAIN tool_map :
    LET c == reg[tool_map[n]] IN
    tool_map[n] \in Server /\ c # 0 /\ (~CalledIn(op, c) => n \in NamesOf(conn, c))

McpInv ==
    /\ McpTypes /\ NamesGood
    /\ \A x \in Request : OpGood(x)
    /\ \A c \in Conn : ConnGood(c)
    /\ \A s \in Server : RegGood(s)
    /\ \A o \in Owner : OwnerGood(o)

LEMMA LeastOf ==
  ASSUME NEW n \in Nat, NEW S \in SUBSET (1 .. n), S # {}
  PROVE  \E m \in S : \A k \in S : m <= k
<1> DEFINE R == OpToRel(<, Nat)
<1>1. IsWellFoundedOn(R, Nat)
  BY NatLessThanWellFounded
<1>2. \A a, b \in Nat : a < b => <<a, b>> \in R
  BY DEF OpToRel
<1> HIDE DEF R
<1>3. S \subseteq Nat
  OBVIOUS
<1>4. PICK m \in S : \A y \in S : <<y, m>> \notin R
  BY <1>1, <1>3, WFMin
<1>5. \A k \in S : ~(k < m)
  BY <1>2, <1>3, <1>4
<1> QED
  BY <1>3, <1>5

LEMMA Newest ==
  /\ Unused # {} => NextOwner \in Unused
  /\ Unmade # {} => NextConn \in Unmade
BY LeastOf, McpAssumption DEF NextOwner, NextConn, Unused, Unmade, Owner, Conn

(* Only an operation changes, and what is blamed grows.                        *)
LEMMA OpOnly ==
  ASSUME McpInv, NEW x \in Request, NEW p \in OpRec, op' = [op EXCEPT ![x] = p],
         UNCHANGED <<reg, conn, owner, offer>>, blamed \subseteq blamed', expired' \subseteq blamed',
         server_lock' \in [Server -> Request \cup {NoOne}],
         \A s \in Server : server_lock[s] \notin {x, NoOne} => server_lock'[s] = server_lock[s],
         op[x].pc \in {"ready", "fail"} => p.pc \in {"ready", "fail"} /\ p.conn = op[x].conn /\ p.kind = op[x].kind,
         OpGood(x)', NamesGood'
  PROVE  McpInv'
<1>1. McpTypes'
  BY DEF McpInv, McpTypes
<1>2. \A y \in Request : y # x => op'[y] = op[y]
  BY DEF McpInv, McpTypes
<1>3. op'[x] = p
  BY DEF McpInv, McpTypes
<1>4. ASSUME NEW y \in Request PROVE OpGood(y)'
  BY <1>2, McpAssumption DEF McpInv, McpTypes, OpGood, NoOne
<1>5. ASSUME NEW c \in Conn PROVE ConnGood(c)'
  BY <1>2, <1>3 DEF McpInv, ConnGood, Adding
<1>6. ASSUME NEW s \in Server PROVE RegGood(s)'
  BY DEF McpInv, RegGood
<1>7. ASSUME NEW o \in Owner PROVE OwnerGood(o)'
  BY <1>2, <1>3 DEF McpInv, OwnerGood, Live
<1> QED
  BY <1>1, <1>4, <1>5, <1>6, <1>7 DEF McpInv

(* Names stay good when nothing of them changes and no call ends.              *)
LEMMA NamesStay ==
  ASSUME McpInv, UNCHANGED <<reg, tool_map>>,
         \A c \in Conn : (\E s \in Server : reg[s] = c) => conn'[c].prefix = conn[c].prefix /\ conn'[c].tools = conn[c].tools,
         \A c \in Conn : CalledIn(op, c) => CalledIn(op', c)
  PROVE  NamesGood'
BY DEF McpInv, McpTypes, NamesGood, NamesOf

(* The names of a connection that is the server's are its tools' afterwards,   *)
(* and only they change.                                                       *)
LEMMA NamesTaken ==
  ASSUME McpInv, NEW c \in Conn, NEW tools,
         tool_map' = IF IsRegistered(c) THEN Mapped(Unmapped(conn[c].srv), Named(c, tools), conn[c].srv) ELSE tool_map,
         UNCHANGED reg, conn[c].srv \in Server,
         IsRegistered(c) => conn'[c].prefix = conn[c].prefix /\ conn'[c].tools = tools,
         \A d \in Conn : d # c /\ (\E s \in Server : reg[s] = d) =>
            conn'[d].prefix = conn[d].prefix /\ conn'[d].tools = conn[d].tools,
         \A d \in Conn : d # c /\ CalledIn(op, d) => CalledIn(op', d)
  PROVE  NamesGood'
<1>1. CASE IsRegistered(c)
  <2> DEFINE s == conn[c].srv
  <2>1. s \in Server /\ reg[s] = c /\ c # 0 /\ conn'[c].prefix = conn[c].prefix /\ conn'[c].tools = tools
    BY <1>1, McpAssumption DEF IsRegistered, Conn
  <2>2. tool_map' = Mapped(Unmapped(s), Named(c, tools), s)
    BY <1>1
  <2> HIDE DEF s
  <2>3. ASSUME NEW n \in DOMAIN tool_map'
        PROVE  \/ n \in Named(c, tools) /\ tool_map'[n] = s
               \/ n \in DOMAIN tool_map /\ tool_map[n] # s /\ tool_map'[n] = tool_map[n]
    BY <2>2 DEF Mapped, Unmapped
  <2> SUFFICES ASSUME NEW n \in DOMAIN tool_map'
               PROVE  LET d == reg'[tool_map'[n]] IN
                      tool_map'[n] \in Server /\ d # 0 /\ (~CalledIn(op', d) => n \in NamesOf(conn', d))
    BY DEF NamesGood
  <2>4. CASE n \in Named(c, tools) /\ tool_map'[n] = s
    <3>1. tool_map'[n] \in Server /\ reg'[tool_map'[n]] = c /\ c # 0
      BY <2>1, <2>4
    <3>2. PICK tool \in tools : n = <<conn[c].prefix, tool>>
      BY <2>4 DEF Named
    <3>3. n \in NamesOf(conn', c)
      BY <2>1, <3>2 DEF NamesOf
    <3> QED
      BY <3>1, <3>3
  <2>5. CASE n \in DOMAIN tool_map /\ tool_map[n] # s /\ tool_map'[n] = tool_map[n]
    <3> DEFINE d == reg[tool_map[n]]
    <3>1. tool_map[n] \in Server /\ d \in Conn /\ d # 0 /\ (~CalledIn(op, d) => n \in NamesOf(conn, d))
      BY <2>5 DEF McpInv, McpTypes, NamesGood
    <3>2. conn[d].srv = tool_map[n]
      BY <3>1 DEF McpInv, RegGood
    <3>3. d # c
      BY <2>5, <3>2 DEF s
    <3>4. conn'[d].prefix = conn[d].prefix /\ conn'[d].tools = conn[d].tools /\ reg'[tool_map'[n]] = d
      BY <2>5, <3>1, <3>3
    <3> HIDE DEF d
    <3>5. ~CalledIn(op', d) => n \in NamesOf(conn', d)
      BY <3>1, <3>3, <3>4 DEF NamesOf
    <3> QED
      BY <2>5, <3>1, <3>4, <3>5
  <2> QED
    BY <2>3, <2>4, <2>5
<1>2. CASE ~IsRegistered(c)
  BY <1>2 DEF McpInv, McpTypes, NamesGood, NamesOf, IsRegistered, RegGood
<1> QED
  BY <1>1, <1>2

(* One operation x, one connection c and one owner o change, and of the rest   *)
(* nothing that the invariant says of the others.                              *)
LEMMA OneStep ==
  ASSUME McpInv, McpTypes', NEW x \in Request \cup {NoOne}, NEW c \in Conn, NEW o \in Owner \cup {0},
         \A y \in Request : y # x => op'[y] = op[y] /\ (conn[c].lock = y => conn'[c].lock = y),
         \A d \in Conn : d # c => conn'[d] = conn[d],
         \A q \in Owner : q # o => owner'[q] = owner[q],
         o \in Owner => owner[o].conn \in {0, c},
         x \in Request /\ op[x].pc \in {"ready", "fail"} => op[x].conn = c \/ op'[x] = op[x],
         conn[c].srv \in Server => conn'[c].srv = conn[c].srv,
         conn[c].closed => conn'[c].closed,
         conn'[c].closed => conn[c].closed \/ \A y \in Request : y # x => ~Adding(y, c),
         \A s \in Server : /\ server_lock[s] \notin {x, NoOne} => server_lock'[s] = server_lock[s]
                           /\ reg'[s] # reg[s] => server_lock[s] \in {x, NoOne} /\ reg[s] \in {0, c},
         blamed \subseteq blamed',
         x \in Request => OpGood(x)', ConnGood(c)', o \in Owner => OwnerGood(o)',
         \A q \in Owner : owner[q].conn = c => OwnerGood(q)',
         \A s \in Server : RegGood(s)', NamesGood'
  PROVE  McpInv'
<1>1. ASSUME NEW y \in Request PROVE OpGood(y)'
  <2>1. CASE y = x
    BY <2>1
  <2>2. CASE y # x
    <3>1. OpGood(y) /\ op'[y] = op[y] /\ y # NoOne
      BY <2>2, McpAssumption DEF McpInv, NoOne
    <3>2. op[y].pc \in {"close", "open", "ready", "fail"} /\ op[y].kind # "call" =>
            op[y].srv \in Server /\ server_lock'[op[y].srv] = y /\ reg'[op[y].srv] = 0
      BY <2>2, <3>1 DEF OpGood
    <3>3. op[y].pc = "relock" => op[y].failed \in blamed'
      BY <3>1 DEF OpGood
    <3>4. CASE op[y].conn = c
      BY <2>2, <3>1, <3>2, <3>3, <3>4 DEF OpGood, Adding
    <3>5. CASE op[y].conn # c /\ op[y].conn # 0
      <4>1. op[y].conn \in Conn
        BY <3>5 DEF McpInv, McpTypes, OpRec
      <4>2. conn'[op[y].conn] = conn[op[y].conn]
        BY <3>5, <4>1
      <4> QED
        BY <2>2, <3>1, <3>2, <3>3, <3>5, <4>2 DEF OpGood
    <3>6. CASE op[y].conn = 0
      BY <2>2, <3>1, <3>2, <3>3, <3>6 DEF OpGood
    <3> QED
      BY <3>4, <3>5, <3>6
  <2> QED
    BY <2>1, <2>2
<1>2. ASSUME NEW d \in Conn PROVE ConnGood(d)'
  <2>1. CASE d = c
    BY <2>1
  <2>2. CASE d # c
    <3>1. ConnGood(d) /\ conn'[d] = conn[d] /\ d # 0
      BY <2>2 DEF McpInv, Conn
    <3>2. conn[d].owner # 0 => owner'[conn[d].owner] = owner[conn[d].owner]
      BY <2>2, <3>1 DEF ConnGood, McpInv, McpTypes, ConnRec
    <3>3. \A y \in Request : Adding(y, d) => Adding(y, d)'
      BY <2>2 DEF Adding
    <3>4. conn[d].srv \in Server /\ reg[conn[d].srv] = d => reg'[conn[d].srv] = d
      BY <2>2, <3>1
    <3>5. \A b \in Owner : b \in blamed => b \in blamed'
      OBVIOUS
    <3> QED
      BY <3>1, <3>2, <3>3, <3>4, <3>5 DEF ConnGood, McpInv, McpTypes, ConnRec
  <2> QED
    BY <2>1, <2>2
<1>3. ASSUME NEW q \in Owner PROVE OwnerGood(q)'
  <2>1. CASE q = o \/ owner[q].conn = c
    BY <2>1
  <2>2. CASE q # o /\ owner[q].conn # c
    <3>1. OwnerGood(q) /\ owner'[q] = owner[q]
      BY <2>2 DEF McpInv
    <3>2. CASE owner[q] = NoOwner
      BY <3>1, <3>2 DEF OwnerGood, NoOwner, Live
    <3>3. CASE owner[q] # NoOwner
      <4> DEFINE d == owner[q].conn
      <4>1. d \in Conn /\ d # c /\ conn'[d] = conn[d]
        BY <2>2, <3>1, <3>3 DEF OwnerGood, McpInv, McpTypes, OwnerRec
      <4>2. \A y \in Request : conn[d].lock = y /\ op[y].conn = d /\ op[y].pc \in {"ready", "fail"} =>
              op'[y].conn = d /\ op'[y].pc \in {"ready", "fail"}
        BY <4>1
      <4> QED
        BY <3>1, <4>1, <4>2 DEF OwnerGood, Live
    <3> QED
      BY <3>2, <3>3
  <2> QED
    BY <2>1, <2>2
<1> QED
  BY <1>1, <1>2, <1>3 DEF McpInv
Gone == [NoOp EXCEPT !.pc = "over"]
LEMMA GoneIs == Gone \in OpRec /\ Gone.pc = "over" /\ Gone.conn = 0 /\ Gone.kind = "none"
BY DEF Gone, NoOp, OpRec

(* The end of a call brings the names of its connection up to date.            *)
LEMMA NamesSynced ==
  ASSUME McpInv, NEW c \in Conn, tool_map' = Synced(c), UNCHANGED reg, conn[c].srv \in Server,
         \A d \in Conn : (\E s \in Server : reg[s] = d) => conn'[d].prefix = conn[d].prefix /\ conn'[d].tools = conn[d].tools,
         \A d \in Conn : d # c /\ CalledIn(op, d) => CalledIn(op', d)
  PROVE  NamesGood'
<1>1. IsRegistered(c) => conn'[c].prefix = conn[c].prefix /\ conn'[c].tools = conn[c].tools
  BY DEF IsRegistered
<1> QED
  BY <1>1, NamesTaken DEF Synced

LEMMA ManagerTypes ==
  ASSUME McpInv
  PROVE  /\ \A x \in Request : op[x] \in OpRec
         /\ \A c \in Conn : conn[c] \in ConnRec
         /\ server_lock \in [Server -> Request \cup {NoOne}]
BY DEF McpInv, McpTypes

(* An operation that is over.                                                  *)
LEMMA OpEnds ==
  ASSUME McpInv, NEW x \in Request, Ends(x), op[x].pc \notin {"ready", "fail"},
         UNCHANGED <<reg, conn, owner, offer, expired, blamed>>,
         (Unlock(x) /\ server_lock[op[x].srv] = x) \/ UNCHANGED server_lock,
         NamesGood'
  PROVE  McpInv'
<1>1. op' = [op EXCEPT ![x] = Gone]
  BY DEF Ends, Gone
<1>2. op'[x] = Gone
  BY <1>1 DEF McpInv, McpTypes
<1>3. OpGood(x)'
  BY <1>2, GoneIs DEF OpGood
<1>4. /\ server_lock' \in [Server -> Request \cup {NoOne}]
      /\ \A s \in Server : server_lock[s] \notin {x, NoOne} => server_lock'[s] = server_lock[s]
  BY ManagerTypes DEF Unlock
<1>5. expired' \subseteq blamed'
  BY DEF McpInv, McpTypes
<1> QED
  BY <1>1, <1>3, <1>4, <1>5, GoneIs, OpOnly

LEMMA AskSteps ==
  ASSUME McpInv, NEW x \in Request, NEW s \in Server,
         AskRemove(x, s) \/ AskRefresh(x, s) \/ \E p \in Prefix : AskAdd(x, s, p)
  PROVE  McpInv'
<1>1. PICK pc \in {"lock", "relist"}, kind \in {"remove", "refresh", "add"}, p \in Prefix \cup {NoOne} :
         /\ op' = [op EXCEPT ![x].pc = pc, ![x].kind = kind, ![x].srv = s, ![x].prefix = p]
         /\ pc = "relist" <=> kind = "refresh"
         /\ At(x, "new") /\ UNCHANGED <<manager, conn, owner, offer, expired, blamed, upsets>>
  <2>1. op[x].prefix \in Prefix \cup {NoOne} /\ op[x] \in OpRec
    BY ManagerTypes DEF OpRec
  <2>2. CASE AskRemove(x, s)
    <3>1. op' = [op EXCEPT ![x].pc = "lock", ![x].kind = "remove", ![x].srv = s, ![x].prefix = op[x].prefix]
      BY <2>1, <2>2 DEF AskRemove, McpInv, McpTypes, OpRec
    <3> QED
      BY <2>1, <2>2, <3>1 DEF AskRemove
  <2>3. CASE AskRefresh(x, s)
    <3>1. op' = [op EXCEPT ![x].pc = "relist", ![x].kind = "refresh", ![x].srv = s, ![x].prefix = op[x].prefix]
      BY <2>1, <2>3 DEF AskRefresh, McpInv, McpTypes, OpRec
    <3> QED
      BY <2>1, <2>3, <3>1 DEF AskRefresh
  <2>4. CASE \E p \in Prefix : AskAdd(x, s, p)
    BY <2>4 DEF AskAdd
  <2> QED
    BY <2>2, <2>3, <2>4
<1> DEFINE r == [op[x] EXCEPT !.pc = pc, !.kind = kind, !.srv = s, !.prefix = p]
<1>2. op' = [op EXCEPT ![x] = r] /\ op[x] \in OpRec /\ op[x].pc = "new"
  BY <1>1, ManagerTypes DEF At, McpInv, McpTypes
<1>3. r \in OpRec /\ r.pc = pc /\ r.kind = kind /\ r.srv = s /\ r.conn = op[x].conn
  BY <1>2 DEF OpRec
<1> HIDE DEF r
<1>4. op'[x] = r
  BY <1>2 DEF McpInv, McpTypes
<1>5. OpGood(x)'
  BY <1>1, <1>3, <1>4 DEF OpGood, McpInv
<1>6. NamesGood'
  <2>1. \A c \in Conn : CalledIn(op, c) => CalledIn(op', c)
    <3>1. op[x].kind # "call"
      BY <1>2 DEF McpInv, OpGood
    <3> QED
      BY <1>2, <3>1 DEF CalledIn, McpInv, McpTypes
  <2> QED
    BY <1>1, <2>1, NamesStay DEF manager
<1> QED
  BY <1>1, <1>2, <1>3, <1>5, <1>6, OpOnly, ManagerTypes DEF manager, McpInv, McpTypes

(* The names after a call on a connection is over.                             *)
LEMMA CallEnds ==
  ASSUME McpInv, NEW x \in Request, CallOver(x), op[x].pc \notin {"new", "over"}, op[x].kind = "call",
         op[x].conn # 0, UNCHANGED reg,
         \A d \in Conn : (\E s \in Server : reg[s] = d) => conn'[d].prefix = conn[d].prefix /\ conn'[d].tools = conn[d].tools
  PROVE  NamesGood'
<1> DEFINE c == op[x].conn
<1>1. c \in Conn /\ conn[c].srv \in Server
  BY ManagerTypes DEF McpInv, OpGood, OpRec
<1>2. op' = [op EXCEPT ![x] = Gone] /\ tool_map' = Synced(c)
  BY DEF CallOver, Ends, Gone
<1>3. \A d \in Conn : d # c /\ CalledIn(op, d) => CalledIn(op', d)
  BY <1>2 DEF CalledIn, McpInv, McpTypes
<1> HIDE DEF c
<1> QED
  BY <1>1, <1>2, <1>3, NamesSynced

(* The calls under way are not fewer.                                          *)
LEMMA CallsStay ==
  ASSUME McpInv, NEW x \in Request, NEW p, op' = [op EXCEPT ![x] = p],
         op[x].kind = "call" => p.kind = "call" /\ p.conn = op[x].conn
  PROVE  \A c \in Conn : CalledIn(op, c) => CalledIn(op', c)
BY DEF CalledIn, McpInv, McpTypes

LEMMA CallSteps ==
  ASSUME McpInv, NEW x \in Request, NEW n \in DOMAIN tool_map, CallTool(x, n)
  PROVE  McpInv'
<1> DEFINE c == reg[tool_map[n]]
           p == [op[x] EXCEPT !.pc = "sent", !.kind = "call", !.conn = c, !.failed = conn[c].session]
<1>1. c \in Conn /\ tool_map[n] \in Server /\ conn[c].srv \in Server
  BY DEF McpInv, McpTypes, NamesGood, RegGood
<1>2. op[x].kind = "none" /\ op[x].pc = "new" /\ op[x] \in OpRec
  BY ManagerTypes DEF CallTool, At, McpInv, OpGood
<1>3. CASE Ends(x)
  <2>1. NamesGood'
    <3>1. op' = [op EXCEPT ![x] = Gone]
      BY <1>3 DEF Ends, Gone
    <3>2. \A d \in Conn : CalledIn(op, d) => CalledIn(op', d)
      BY <1>2, <3>1, CallsStay
    <3> QED
      BY <3>2, NamesStay DEF CallTool, manager
  <2> QED
    BY <1>2, <1>3, <2>1, OpEnds DEF CallTool, manager
<1>4. CASE op' = [op EXCEPT ![x] = p]
  <2>1. p \in OpRec /\ p.pc = "sent" /\ p.kind = "call" /\ p.conn = c
    <3>1. conn[c].session \in Owner \cup {0}
      BY <1>1, ManagerTypes DEF ConnRec
    <3> QED
      BY <1>1, <1>2, <3>1 DEF OpRec
  <2>2. op'[x] = p
    BY <1>4 DEF McpInv, McpTypes
  <2> HIDE DEF p, c
  <2>3. OpGood(x)'
    BY <1>1, <2>1, <2>2 DEF OpGood, CallTool, Conn
  <2>4. NamesGood'
    BY <1>2, <1>4, CallsStay, NamesStay DEF CallTool, manager
  <2> QED
    BY <1>2, <1>4, <2>1, <2>3, <2>4, OpOnly, ManagerTypes DEF CallTool, manager, McpInv, McpTypes
<1>5. op' = [op EXCEPT ![x] = p] \/ Ends(x)
  <2>1. \/ Ends(x)
        \/ op' = [op EXCEPT ![x].pc = "sent", ![x].kind = "call", ![x].conn = c, ![x].failed = conn[c].session]
    BY DEF CallTool
  <2> QED
    BY <1>2, <2>1 DEF McpInv, McpTypes, OpRec
<1> QED
  BY <1>3, <1>4, <1>5

(* An operation at a step where only its own place changes.                    *)
LEMMA PlaceOnly ==
  ASSUME McpInv, NEW x \in Request, op[x].pc \notin {"ready", "fail"}, NEW p \in OpRec, op' = [op EXCEPT ![x] = p],
         p.kind = op[x].kind, p.conn = op[x].conn, UNCHANGED <<reg, tool_map, conn, owner, offer, expired, server_lock>>,
         blamed \subseteq blamed', OpGood(x)'
  PROVE  McpInv'
<1>1. \A c \in Conn : CalledIn(op, c) => CalledIn(op', c)
  BY CallsStay
<1>2. NamesGood'
  BY <1>1, NamesStay
<1>3. expired' \subseteq blamed'
  BY DEF McpInv, McpTypes
<1> QED
  BY <1>2, <1>3, OpOnly, ManagerTypes

LEMMA FailStep ==
  ASSUME McpInv, NEW x \in Request, SessionFails(x)
  PROVE  McpInv'
<1> DEFINE p == [op[x] EXCEPT !.pc = "relock"]
<1>1. op[x].pc = "sent" /\ op[x] \in OpRec /\ op' = [op EXCEPT ![x] = p] /\ op[x].failed \in blamed'
  BY ManagerTypes DEF SessionFails, At, Goes, McpInv, McpTypes
<1>2. p \in OpRec /\ p.pc = "relock" /\ p.kind = op[x].kind /\ p.conn = op[x].conn /\ p.failed = op[x].failed
  BY <1>1 DEF OpRec
<1>3. op'[x] = p
  BY <1>1 DEF McpInv, McpTypes
<1> HIDE DEF p
<1>4. UNCHANGED <<reg, tool_map, conn, owner, offer, expired, server_lock>> /\ blamed \subseteq blamed'
  BY DEF SessionFails, manager
<1>5. OpGood(x)'
  <2>1. OpGood(x)
    BY DEF McpInv
  <2> QED
    BY <1>1, <1>2, <1>3, <1>4, <2>1 DEF OpGood
<1> QED
  BY <1>1, <1>2, <1>4, <1>5, PlaceOnly

(* An operation that is not a call is over without a change of the names.      *)
LEMMA QuietEnd ==
  ASSUME McpInv, NEW x \in Request, Ends(x), op[x].pc \notin {"ready", "fail"}, op[x].kind # "call",
         UNCHANGED <<reg, tool_map, conn, owner, offer, expired, blamed>>,
         (Unlock(x) /\ server_lock[op[x].srv] = x) \/ UNCHANGED server_lock
  PROVE  McpInv'
<1>1. op' = [op EXCEPT ![x] = Gone]
  BY DEF Ends, Gone
<1>2. NamesGood'
  BY <1>1, CallsStay, NamesStay
<1> QED
  BY <1>2, OpEnds

(* A call is over.                                                             *)
LEMMA CallEnd ==
  ASSUME McpInv, NEW x \in Request, CallOver(x), op[x].pc \in {"sent", "again", "relock"},
         UNCHANGED <<reg, conn, owner, offer, expired, blamed, server_lock>>
  PROVE  McpInv'
<1>1. op[x].kind = "call" /\ op[x].conn # 0
  BY DEF McpInv, OpGood
<1>2. NamesGood'
  BY <1>1, CallEnds
<1> QED
  BY <1>2, OpEnds DEF CallOver

LEMMA QuietSteps ==
  ASSUME McpInv, NEW x \in Request, Closed(x) \/ Removed(x) \/ Answered(x) \/ NotListed(x) \/ LockRefresh(x)
  PROVE  McpInv'
<1>0. op[x] \in OpRec /\ OpGood(x)
  BY ManagerTypes DEF McpInv
<1>1. CASE Closed(x) /\ op[x].raising
  BY <1>0, <1>1, QuietEnd DEF Closed, At, OpGood
<1>2. CASE Closed(x) /\ ~op[x].raising
  <2> DEFINE p == [op[x] EXCEPT !.pc = "open", !.conn = 0]
  <2>1. p \in OpRec /\ p.pc = "open" /\ p.conn = 0 /\ p.kind = op[x].kind /\ p.srv = op[x].srv
    BY <1>0 DEF OpRec
  <2>2. op[x].pc = "close" /\ op' = [op EXCEPT ![x] = p] /\ op'[x] = p
    BY <1>0, <1>2 DEF Closed, At, McpInv, McpTypes
  <2> HIDE DEF p
  <2>3. op[x].kind # "call" /\ OpGood(x)'
    BY <1>0, <1>2, <2>1, <2>2 DEF OpGood, Closed
  <2>4. NamesGood'
    BY <1>2, <2>2, <2>3, CallsStay, NamesStay DEF Closed
  <2> QED
    BY <1>2, <2>1, <2>2, <2>3, <2>4, OpOnly, ManagerTypes DEF Closed, McpInv, McpTypes
<1>3. CASE Removed(x)
  BY <1>0, <1>3, QuietEnd DEF Removed, At, OpGood
<1>4. CASE Answered(x)
  BY <1>4, CallEnd DEF Answered
<1>5. CASE NotListed(x)
  BY <1>0, <1>5, QuietEnd DEF NotListed, RefreshEnds, At, OpGood
<1>6. CASE LockRefresh(x) /\ RefreshEnds(x)
  BY <1>0, <1>6, QuietEnd DEF LockRefresh, RefreshEnds, At, OpGood
<1>7. CASE LockRefresh(x) /\ ~RefreshEnds(x)
  <2> DEFINE c == reg[op[x].srv]
             p == [op[x] EXCEPT !.pc = "list", !.conn = c, !.failed = conn[c].session]
  <2>1. op[x].pc = "relist" /\ op[x].kind = "refresh" /\ op[x].srv \in Server /\ c # 0
        /\ op' = [op EXCEPT ![x] = p] /\ UNCHANGED <<reg, tool_map, server_lock, conn, owner, offer, expired, blamed>>
    <3>1. c # 0 /\ op' = [op EXCEPT ![x].pc = "list", ![x].conn = c, ![x].failed = conn[c].session]
      BY <1>7 DEF LockRefresh
    <3>2. op' = [op EXCEPT ![x] = p]
      BY <1>0, <3>1 DEF OpRec, McpInv, McpTypes
    <3> QED
      BY <1>0, <1>7, <3>1, <3>2 DEF LockRefresh, At, OpGood
  <2>2. c \in Conn /\ conn[c].srv = op[x].srv /\ conn[c].session \in Owner \cup {0}
    BY <2>1, ManagerTypes DEF McpInv, McpTypes, RegGood, ConnRec
  <2>3. p \in OpRec /\ p.pc = "list" /\ p.conn = c /\ p.kind = "refresh" /\ p.srv = op[x].srv
    BY <1>0, <2>1, <2>2 DEF OpRec
  <2>4. op'[x] = p
    BY <2>1 DEF McpInv, McpTypes
  <2> HIDE DEF p, c
  <2>5. OpGood(x)'
    BY <2>1, <2>2, <2>3, <2>4 DEF OpGood
  <2>6. NamesGood'
    <3>1. \A d \in Conn : CalledIn(op, d) => CalledIn(op', d)
      BY <2>1, CallsStay
    <3> QED
      BY <2>1, <3>1, NamesStay
  <2> QED
    BY <2>1, <2>3, <2>5, <2>6, OpOnly, ManagerTypes DEF McpInv, McpTypes
<1> QED
  BY <1>1, <1>2, <1>3, <1>4, <1>5, <1>6, <1>7

LEMMA GivenUp ==
  ASSUME McpInv, NEW x \in Request, Cancelled(x), op[x].pc # "ready"
  PROVE  McpInv'
<1>0. op[x] \in OpRec /\ OpGood(x) /\ UNCHANGED <<reg, server_lock, owner, offer, expired>>
  BY ManagerTypes DEF McpInv, Cancelled
<1>1. CASE op[x].pc = "lock"
  BY <1>0, <1>1, QuietEnd DEF Cancelled, OpGood
<1>2. CASE op[x].pc \in {"sent", "again", "relock"}
  BY <1>0, <1>2, CallEnd DEF Cancelled
<1>3. CASE op[x].pc = "list"
  BY <1>0, <1>3, QuietEnd DEF Cancelled, RefreshEnds, OpGood
<1>4. CASE op[x].pc \in {"close", "join"}
  <2> DEFINE p == [op[x] EXCEPT !.raising = TRUE]
  <2>1. p \in OpRec /\ p.pc = op[x].pc /\ p.conn = op[x].conn /\ p.kind = op[x].kind /\ p.srv = op[x].srv
        /\ p.failed = op[x].failed
    BY <1>0 DEF OpRec
  <2>2. op' = [op EXCEPT ![x] = p] /\ op'[x] = p /\ UNCHANGED <<tool_map, conn, blamed>>
    BY <1>0, <1>4 DEF Cancelled, McpInv, McpTypes
  <2> HIDE DEF p
  <2>3. OpGood(x)'
    BY <1>0, <2>1, <2>2 DEF OpGood
  <2> QED
    BY <1>0, <1>4, <2>1, <2>2, <2>3, PlaceOnly
<1> QED
  BY <1>1, <1>2, <1>3, <1>4 DEF Cancelled

(* Reconnect where nothing is replaced: the connection was closed, or has a    *)
(* session that is not the one that failed.                                    *)
LEMMA NotReplaced ==
  ASSUME McpInv, NEW x \in Request, Reconnect(x), MyConn(x).closed \/ Replaced(x)
  PROVE  McpInv'
<1>0. op[x] \in OpRec /\ OpGood(x) /\ op[x].pc = "relock"
  BY ManagerTypes DEF McpInv, Reconnect, At
<1>1. CASE MyConn(x).closed
  BY <1>0, <1>1, CallEnd DEF Reconnect
<1>2. CASE ~MyConn(x).closed
  <2> DEFINE p == [op[x] EXCEPT !.pc = "again"]
  <2>1. p \in OpRec /\ p.pc = "again" /\ p.conn = op[x].conn /\ p.kind = op[x].kind
    BY <1>0 DEF OpRec
  <2>2. op' = [op EXCEPT ![x] = p] /\ op'[x] = p
    BY <1>0, <1>2 DEF Reconnect, Goes, McpInv, McpTypes
  <2>3. UNCHANGED <<reg, tool_map, conn, owner, offer, expired, server_lock, blamed>>
    BY <1>2 DEF Reconnect
  <2> HIDE DEF p
  <2>4. OpGood(x)'
    BY <1>0, <2>1, <2>2, <2>3 DEF OpGood
  <2> QED
    BY <1>0, <2>1, <2>2, <2>3, <2>4, PlaceOnly
<1> QED
  BY <1>1, <1>2

(* The lock of a server that has no connection.                                *)
LEMMA LockEmpty ==
  ASSUME McpInv, NEW x \in Request, LockServer(x), reg[op[x].srv] = 0
  PROVE  McpInv'
<1> DEFINE p == [op[x] EXCEPT !.pc = "open"]
           s == op[x].srv
<1>0. op[x] \in OpRec /\ OpGood(x) /\ op[x].pc = "lock" /\ s \in Server /\ op[x].kind \in {"add", "remove"}
  BY ManagerTypes DEF McpInv, LockServer, At, OpGood
<1>1. p \in OpRec /\ p.pc = "open" /\ p.conn = op[x].conn /\ p.kind = op[x].kind /\ p.srv = s
  BY <1>0 DEF OpRec
<1>2. op' = [op EXCEPT ![x] = p] /\ op'[x] = p /\ UNCHANGED <<reg, tool_map, conn, owner, offer, expired, blamed>>
  BY <1>0 DEF LockServer, Goes, McpInv, McpTypes
<1>3. server_lock[s] = NoOne /\ server_lock' = [server_lock EXCEPT ![s] = x]
  BY DEF LockServer
<1> HIDE DEF p, s
<1>4. OpGood(x)'
  BY <1>0, <1>1, <1>2, <1>3, ManagerTypes DEF OpGood, s
<1>5. \A d \in Conn : CalledIn(op, d) => CalledIn(op', d)
  BY <1>1, <1>2, CallsStay
<1>6. NamesGood'
  BY <1>2, <1>5, NamesStay
<1>7. /\ server_lock' \in [Server -> Request \cup {NoOne}] /\ expired' \subseteq blamed'
      /\ \A q \in Server : server_lock[q] \notin {x, NoOne} => server_lock'[q] = server_lock[q]
  BY <1>0, <1>2, <1>3, ManagerTypes DEF McpInv, McpTypes
<1> QED
  BY <1>0, <1>1, <1>2, <1>4, <1>6, <1>7, OpOnly

(* The owner o comes to pc, and with it its connection becomes r.              *)
LEMMA OwnerMoves ==
  ASSUME McpInv, NEW o \in Owner, Live(o), NEW c, c = owner[o].conn, NEW pc \in {"init", "open", "over"},
         NEW w \in OwnerRec, w.pc = pc, w.conn = c, owner' = [owner EXCEPT ![o] = w],
         NEW r \in ConnRec, conn' = [conn EXCEPT ![c] = r],
         UNCHANGED <<manager, op, offer, expired>>, blamed \subseteq blamed',
         r.srv = conn[c].srv, r.prefix = conn[c].prefix, r.owner = conn[c].owner, r.stop = conn[c].stop,
         r.closed = conn[c].closed, r.lock = conn[c].lock, r.closer = conn[c].closer,
         r.tools = conn[c].tools \/ owner[o].pc = "init",
         r.up <=> pc = "open", pc # "over" => r.session = o,
         pc = "init" => owner[o].pc = "start" /\ ~r.ready, pc = "over" => o \in blamed' \/ conn[c].closed
  PROVE  McpInv'
<1>1. /\ c \in Conn /\ conn[c].owner = o /\ conn[c].srv \in Server /\ OwnerGood(o) /\ ConnGood(c)
      /\ owner[o] \in OwnerRec /\ conn[c] \in ConnRec
  BY DEF McpInv, McpTypes, OwnerGood, OwnerRec, Live, NoOwner
<1>2. /\ owner'[o].pc = pc /\ owner'[o].conn = c /\ owner'[o] \in OwnerRec
      /\ conn'[c] = r /\ \A q \in Owner : q # o => owner'[q] = owner[q]
      /\ \A d \in Conn : d # c => conn'[d] = conn[d]
  BY <1>1 DEF McpInv, McpTypes, OwnerRec
<1>3. McpTypes'
  BY <1>1, <1>2 DEF McpInv, McpTypes, manager
<1>4. OwnerGood(o)'
  BY <1>1, <1>2 DEF OwnerGood, Live, NoOwner
<1>5. ConnGood(c)'
  <2>1. r.srv \in Server => reg'[r.srv] = c \/ r.closed \/ \E x \in Request : Adding(x, c)'
    BY <1>1 DEF ConnGood, manager, Adding
  <2>2. r.srv \in Server /\ (r.closed <=> r.closer # "none") /\ (r.closer = "join" => r.lock = "closer")
        /\ (r.closer = "over" => r.lock = NoOne /\ r.owner = 0)
    BY <1>1 DEF ConnGood
  <2>3. r.owner = o /\ o # 0 /\ owner'[r.owner].conn = c /\ owner'[r.owner].pc = pc
    BY <1>1, <1>2 DEF Owner
  <2>4. r.stop => r.closed \/ r.owner = 0 \/ r.owner \in blamed'
    BY <1>1 DEF ConnGood
  <2> QED
    BY <1>2, <2>1, <2>2, <2>3, <2>4 DEF ConnGood, Adding
<1>6. ASSUME NEW q \in Owner, owner[q].conn = c PROVE OwnerGood(q)'
  <2>1. CASE q = o
    BY <1>4, <2>1
  <2>2. CASE q # o
    <3>1. owner'[q] = owner[q] /\ ~Live(q) /\ OwnerGood(q)
      BY <1>1, <1>2, <1>6, <2>2 DEF McpInv, OwnerGood
    <3>2. PICK v : v = owner[q] /\ v = owner'[q] /\ v.conn = c
      BY <1>6, <3>1
    <3>3. v.pc \notin {"start", "init", "open"} /\ (v.pc = "over" => q \in blamed \/ conn[c].closed)
      BY <3>1, <3>2 DEF OwnerGood, Live
    <3>4. conn'[c].closed = conn[c].closed /\ conn'[c].srv = conn[c].srv
      BY <1>2
    <3>5. v = NoOwner \/ (c # 0 /\ conn[c].srv \in Server /\ v.pc # "none")
      BY <3>1, <3>2 DEF OwnerGood
    <3> QED
      BY ONLY <3>2, <3>3, <3>4, <3>5, blamed \subseteq blamed' DEF OwnerGood, Live
  <2> QED
    BY <2>1, <2>2
<1>7. ASSUME NEW s \in Server PROVE RegGood(s)'
  BY <1>1, <1>2 DEF McpInv, McpTypes, RegGood, manager
<1>8. NamesGood'
  <2>1. CASE r.tools = conn[c].tools
    BY <1>1, <1>2, <2>1, NamesStay DEF manager
  <2>2. CASE owner[o].pc = "init"
    <3>1. PICK x \in Request : conn[c].lock = x /\ op[x].conn = c /\ op[x].pc \in {"ready", "fail"}
      BY <1>1, <2>2 DEF OwnerGood
    <3>2. ASSUME NEW s \in Server, reg[s] = c PROVE CalledIn(op, c)
      <4>1. conn[c].srv = s
        BY <1>1, <3>2 DEF McpInv, RegGood, Conn
      <4>2. op[x].kind # "add"
        BY <1>1, <3>1, <3>2, <4>1 DEF McpInv, OpGood, Conn
      <4> QED
        BY <3>1, <4>2 DEF CalledIn, McpInv, OpGood
    <3> SUFFICES ASSUME NEW n \in DOMAIN tool_map
                 PROVE  LET d == reg[tool_map[n]] IN
                        tool_map[n] \in Server /\ d # 0 /\ (~CalledIn(op, d) => n \in NamesOf(conn', d))
      BY DEF NamesGood, manager
    <3> DEFINE d == reg[tool_map[n]]
    <3>3. tool_map[n] \in Server /\ d \in Conn /\ d # 0 /\ (~CalledIn(op, d) => n \in NamesOf(conn, d))
      BY DEF McpInv, McpTypes, NamesGood
    <3>4. d = c => CalledIn(op, d)
      BY <3>2, <3>3
    <3>5. d # c => NamesOf(conn', d) = NamesOf(conn, d)
      BY <1>2, <3>3 DEF NamesOf
    <3> HIDE DEF d
    <3>6. d # 0 /\ (~CalledIn(op, d) => n \in NamesOf(conn', d))
      BY <3>3, <3>4, <3>5
    <3> QED
      BY <3>3, <3>6 DEF d
  <2> QED
    BY <2>1, <2>2
<1>9a. PICK z \in Request \cup {NoOne} : z = NoOne
  OBVIOUS
<1>9. /\ z \in Request \cup {NoOne} /\ o \in Owner \cup {0} /\ z \notin Request /\ owner[o].conn \in {0, c}
      /\ \A s \in Server : /\ server_lock[s] \notin {z, NoOne} => server_lock'[s] = server_lock[s]
                           /\ reg'[s] # reg[s] => server_lock[s] \in {z, NoOne} /\ reg[s] \in {0, c}
  BY <1>9a, McpAssumption DEF NoOne, manager
<1>10. \A y \in Request : y # z => op'[y] = op[y] /\ (conn[c].lock = y => conn'[c].lock = y)
  BY <1>2
<1>11. /\ conn'[c].srv = conn[c].srv
       /\ conn[c].closed => conn'[c].closed
       /\ conn'[c].closed => conn[c].closed \/ \A y \in Request : y # z => ~Adding(y, c)
  BY <1>2
<1>12. /\ z \in Request /\ op[z].pc \in {"ready", "fail"} => op[z].conn = c \/ op'[z] = op[z]
       /\ z \in Request => OpGood(z)'
       /\ conn[c].srv \in Server => conn'[c].srv = conn[c].srv
       /\ o \in Owner => owner[o].conn \in {0, c}
       /\ o \in Owner => OwnerGood(o)'
  BY <1>4, <1>9, <1>11
<1>13. \A d \in Conn : d # c => conn'[d] = conn[d]
  BY <1>2
<1>14. \A q \in Owner : q # o => owner'[q] = owner[q]
  BY <1>2
<1>15. c \in Conn
  BY <1>1
<1>16. \A q \in Owner : owner[q].conn = c => OwnerGood(q)'
  BY <1>6
<1>17. \A s \in Server : RegGood(s)'
  BY <1>7
<1> QED
  BY <1>3, <1>5, <1>16, <1>17, <1>8, <1>9, <1>10, <1>11, <1>12, <1>13, <1>14, <1>15, OneStep

LEMMA OwnerSteps ==
  ASSUME McpInv, NEW o \in Owner, Entered(o) \/ Ready(o) \/ Stops(o) \/ Fails(o)
  PROVE  McpInv'
<1> DEFINE c == owner[o].conn
           To(pc) == [owner[o] EXCEPT !.pc = pc]
<1>0. Live(o)
  BY DEF Entered, Ready, Stops, Fails, Exits, Live
<1>1. /\ c \in Conn /\ conn[c] \in ConnRec /\ conn[c].owner = o /\ conn[c].srv \in Server /\ OwnerGood(o) /\ ConnGood(c)
      /\ owner[o] \in OwnerRec
  BY <1>0 DEF McpInv, McpTypes, OwnerGood, OwnerRec, Live, NoOwner
<1>5. ASSUME NEW pc \in {"init", "open", "over"}
      PROVE  /\ To(pc) \in OwnerRec /\ To(pc).pc = pc /\ To(pc).conn = c
             /\ [owner EXCEPT ![o].pc = pc] = [owner EXCEPT ![o] = To(pc)]
  BY <1>1 DEF OwnerRec, McpInv, McpTypes
<1> HIDE DEF To
<1>2. CASE Entered(o)
  <2> DEFINE r == [conn[c] EXCEPT !.session = o]
  <2>1. owner[o].pc = "start" /\ conn' = [conn EXCEPT ![c] = r] /\ owner' = [owner EXCEPT ![o] = To("init")]
        /\ UNCHANGED <<manager, op, offer, expired, blamed>>
    BY <1>1, <1>2, <1>5 DEF Entered, McpInv, McpTypes, ConnRec
  <2>2. /\ r \in ConnRec /\ r.session = o /\ r.srv = conn[c].srv /\ r.prefix = conn[c].prefix /\ r.owner = conn[c].owner
        /\ r.stop = conn[c].stop /\ r.closed = conn[c].closed /\ r.lock = conn[c].lock /\ r.closer = conn[c].closer
        /\ r.tools = conn[c].tools /\ r.up = conn[c].up /\ r.ready = conn[c].ready
    BY <1>1 DEF ConnRec
  <2>3. ~conn[c].up /\ ~conn[c].ready
    BY <1>1, <2>1 DEF ConnGood, OwnerGood
  <2> HIDE DEF r
  <2> QED
    BY <1>0, <1>1, <2>1, <2>2, <2>3, <1>5, OwnerMoves
<1>3. CASE Ready(o)
  <2> DEFINE r == [conn[c] EXCEPT !.tools = offer[conn[c].srv], !.up = TRUE, !.ready = TRUE]
  <2>1. owner[o].pc = "init" /\ conn' = [conn EXCEPT ![c] = r] /\ owner' = [owner EXCEPT ![o] = To("open")]
        /\ UNCHANGED <<manager, op, offer, expired, blamed>>
    BY <1>1, <1>3, <1>5 DEF Ready, McpInv, McpTypes, ConnRec
  <2>2. offer[conn[c].srv] \in SUBSET McpTool
    BY <1>1 DEF McpInv, McpTypes
  <2>3. /\ r \in ConnRec /\ r.session = conn[c].session /\ r.srv = conn[c].srv /\ r.prefix = conn[c].prefix
        /\ r.owner = conn[c].owner /\ r.stop = conn[c].stop /\ r.closed = conn[c].closed /\ r.lock = conn[c].lock
        /\ r.closer = conn[c].closer /\ r.up = TRUE
    BY <1>1, <2>2 DEF ConnRec
  <2>4. conn[c].session = o
    BY <1>1, <2>1 DEF OwnerGood
  <2> HIDE DEF r
  <2>5. /\ r.session = o /\ (r.tools = conn[c].tools \/ owner[o].pc = "init") /\ (r.up <=> "open" = "open")
        /\ "open" # "init" /\ "open" # "over" /\ blamed \subseteq blamed'
    BY <2>1, <2>3, <2>4
  <2>6. To("open") \in OwnerRec /\ To("open").pc = "open" /\ To("open").conn = c
    BY <1>5
  <2> HIDE DEF c
  <2> QED
    BY <1>0, <2>1, <2>3, <2>5, <2>6, OwnerMoves DEF c
<1>4. CASE Stops(o) \/ Fails(o)
  <2> DEFINE r == [conn[c] EXCEPT !.up = FALSE, !.session = 0, !.ready = TRUE]
  <2>1. conn' = [conn EXCEPT ![c] = r] /\ owner' = [owner EXCEPT ![o] = To("over")]
        /\ UNCHANGED <<manager, op, offer, expired>> /\ blamed \subseteq blamed'
    <3>1. conn' = [conn EXCEPT ![c].up = FALSE, ![c].session = 0, ![c].ready = TRUE]
      BY <1>4 DEF Stops, Fails, Exits
    <3>2. conn' = [conn EXCEPT ![c] = r]
      BY <1>1, <3>1 DEF McpInv, McpTypes, ConnRec
    <3> QED
      BY <1>4, <1>5, <3>2 DEF Stops, Fails, Exits
  <2>2. /\ r \in ConnRec /\ r.session = 0 /\ r.srv = conn[c].srv /\ r.prefix = conn[c].prefix
        /\ r.owner = conn[c].owner /\ r.stop = conn[c].stop /\ r.closed = conn[c].closed /\ r.lock = conn[c].lock
        /\ r.closer = conn[c].closer /\ r.up = FALSE /\ r.tools = conn[c].tools
    BY <1>1 DEF ConnRec
  <2>3. o \in blamed' \/ conn[c].closed
    <3>1. CASE Stops(o)
      <4>1. conn[c].stop /\ blamed' = blamed /\ o # 0
        BY <3>1 DEF Stops, Told, Owner
      <4> QED
        BY <1>1, <4>1 DEF ConnGood
    <3>2. CASE Fails(o)
      BY <3>2 DEF Fails
    <3> QED
      BY <1>4, <3>1, <3>2
  <2> HIDE DEF r
  <2> QED
    BY <1>0, <1>1, <2>1, <2>2, <2>3, <1>5, OwnerMoves
<1> QED
  BY <1>2, <1>3, <1>4

(* A session expires, or a server has other tools.                             *)
LEMMA WorldSteps ==
  ASSUME McpInv, \/ \E o \in Owner : Expires(o)
                 \/ \E s \in Server, tools \in SUBSET McpTool : Republish(s, tools)
  PROVE  McpInv'
<1>1. UNCHANGED <<manager, conn, owner, op>> /\ blamed \subseteq blamed' /\ expired' \subseteq blamed'
      /\ offer' \in [Server -> SUBSET McpTool]
  BY DEF Expires, Republish, McpInv, McpTypes
<1>2. McpTypes'
  BY <1>1 DEF McpInv, McpTypes, manager
<1>3. NamesGood'
  BY <1>1 DEF McpInv, NamesGood, NamesOf, CalledIn, manager
<1>4. ASSUME NEW x \in Request PROVE OpGood(x)'
  BY <1>1 DEF McpInv, OpGood, manager
<1>5. ASSUME NEW c \in Conn PROVE ConnGood(c)'
  BY <1>1 DEF McpInv, ConnGood, manager, Adding
<1>6. ASSUME NEW s \in Server PROVE RegGood(s)'
  BY <1>1 DEF McpInv, RegGood, manager
<1>7. ASSUME NEW o \in Owner PROVE OwnerGood(o)'
  BY <1>1 DEF McpInv, OwnerGood, Live, NoOwner
<1> QED
  BY <1>2, <1>3, <1>4, <1>5, <1>6, <1>7 DEF McpInv

(* The operation x does something to its connection c, which becomes r.        *)
LEMMA ConnMoves ==
  ASSUME McpInv, NEW x \in Request, NEW c \in Conn, c = op[x].conn, NEW p \in OpRec, NEW r \in ConnRec,
         op' = [op EXCEPT ![x] = p], conn' = [conn EXCEPT ![c] = r],
         UNCHANGED <<reg, server_lock, owner, offer, expired>>, blamed \subseteq blamed',
         conn[c].lock \in {x, NoOne} \/ r.lock = conn[c].lock, r.srv = conn[c].srv,
         \/ r.closed = conn[c].closed
         \/ r.closed /\ (\A s \in Server : reg[s] # c) /\ \A y \in Request : y # x => ~Adding(y, c),
         OpGood(x)', ConnGood(c)', \A q \in Owner : owner[q].conn = c => OwnerGood(q)', NamesGood'
  PROVE  McpInv'
<1>1. /\ op'[x] = p /\ conn'[c] = r /\ \A y \in Request : y # x => op'[y] = op[y]
      /\ \A d \in Conn : d # c => conn'[d] = conn[d]
  BY DEF McpInv, McpTypes
<1>2. McpTypes'
  BY DEF McpInv, McpTypes
<1>3. ASSUME NEW s \in Server PROVE RegGood(s)'
  <2>1. reg[s] \in Conn \cup {0} /\ RegGood(s) /\ c # 0
    BY DEF McpInv, McpTypes, Conn
  <2>2. CASE reg[s] # c
    BY <1>1, <2>1, <2>2 DEF RegGood
  <2>3. CASE reg[s] = c
    BY <1>1, <2>1, <2>3 DEF RegGood
  <2> QED
    BY <2>2, <2>3
<1>4. \A y \in Request : y # x => op'[y] = op[y] /\ (conn[c].lock = y => conn'[c].lock = y)
  <2>1. NoOne \notin Request
    BY McpAssumption DEF NoOne
  <2> QED
    BY <1>1, <2>1
<1>5. /\ conn[c].closed => conn'[c].closed
      /\ conn'[c].closed => conn[c].closed \/ \A y \in Request : y # x => ~Adding(y, c)
      /\ conn[c].srv \in Server => conn'[c].srv = conn[c].srv
  BY <1>1
<1>6. /\ x \in Request \cup {NoOne} /\ 0 \in Owner \cup {0} /\ 0 \notin Owner
      /\ 0 \in Owner => owner[0].conn \in {0, c}
      /\ 0 \in Owner => OwnerGood(0)'
      /\ \A q \in Owner : q # 0 => owner'[q] = owner[q]
      /\ x \in Request => OpGood(x)'
  BY DEF Owner
<1>7. x \in Request /\ op[x].pc \in {"ready", "fail"} => op[x].conn = c \/ op'[x] = op[x]
  OBVIOUS
<1>8. \A s \in Server : /\ server_lock[s] \notin {x, NoOne} => server_lock'[s] = server_lock[s]
                        /\ reg'[s] # reg[s] => server_lock[s] \in {x, NoOne} /\ reg[s] \in {0, c}
  OBVIOUS
<1>9. \A s \in Server : RegGood(s)'
  BY <1>3
<1> QED
  BY <1>1, <1>2, <1>4, <1>5, <1>6, <1>7, <1>8, <1>9, OneStep

(* No owner of a connection is live when the one that it knows has ended.      *)
LEMMA NoneLive ==
  ASSUME McpInv, NEW c \in Conn, Joined(conn[c])
  PROVE  \A q \in Owner : owner[q].conn = c => ~Live(q)
BY DEF McpInv, OwnerGood, Joined, Live

(* An owner that is not live says little of its connection.                    *)
LEMMA Ceased ==
  ASSUME McpInv, NEW q \in Owner, ~Live(q), owner'[q] = owner[q], NEW c \in Conn, owner[q].conn = c,
         conn'[c].srv = conn[c].srv, conn[c].closed => conn'[c].closed, blamed \subseteq blamed'
  PROVE  OwnerGood(q)'
BY DEF McpInv, OwnerGood, Live, Conn, NoOwner

(* The locks are of one kind each.                                             *)
LEMMA Holder ==
  ASSUME McpInv, NEW x \in Request, op[x].conn # 0
  PROVE  /\ op[x].conn \in Conn /\ conn[op[x].conn] \in ConnRec /\ conn[op[x].conn].srv \in Server
         /\ OpGood(x) /\ ConnGood(op[x].conn) /\ op[x] \in OpRec /\ x # NoOne /\ x # "closer"
BY McpAssumption DEF McpInv, McpTypes, OpGood, OpRec, NoOne

(* An owner that the connection knows and that has not opened its session has  *)
(* ended, if the connection's lock is free or the connection is ready.         *)
LEMMA Unopened ==
  ASSUME McpInv, NEW c \in Conn, ~conn[c].up, conn[c].owner # 0, conn[c].lock = NoOne \/ conn[c].ready
  PROVE  conn[c].owner \in blamed \/ conn[c].closed
<1> DEFINE q == conn[c].owner
<1>1. q \in Owner /\ owner[q].conn = c /\ owner[q] \in OwnerRec /\ owner[q].pc # "none" /\ OwnerGood(q)
  BY DEF McpInv, McpTypes, ConnGood, ConnRec
<1> HIDE DEF q
<1>2. owner[q].pc # "open"
  BY <1>1 DEF OwnerGood
<1>3. owner[q].pc \notin {"start", "init"}
  BY <1>1, McpAssumption DEF OwnerGood, NoOne
<1>4. owner[q].pc = "over"
  BY <1>1, <1>2, <1>3 DEF OwnerRec
<1>5. q \in blamed \/ conn[c].closed
  BY <1>1, <1>4 DEF OwnerGood
<1> QED
  BY <1>5 DEF q

(* The owner of a connection is told to stop while x holds the lock.           *)
LEMMA Telling ==
  ASSUME McpInv, NEW x \in Request, NEW c \in Conn, c = op[x].conn,
         NEW p \in OpRec, op' = [op EXCEPT ![x] = p], p.kind = op[x].kind, p.conn = c, p.srv = op[x].srv,
         NEW r \in ConnRec, conn' = [conn EXCEPT ![c] = r], r.srv = conn[c].srv, r.prefix = conn[c].prefix,
         r.owner = conn[c].owner, r.session = conn[c].session, r.up = conn[c].up, r.ready = conn[c].ready,
         r.closed = conn[c].closed, r.tools = conn[c].tools, r.lock = x, r.closer = conn[c].closer,
         UNCHANGED <<reg, server_lock, tool_map, owner, offer, expired>>, blamed \subseteq blamed',
         \/ p.pc = "join" /\ op[x].pc = "relock" /\ conn[c].lock = NoOne /\ ~conn[c].closed
         \/ p.pc = "fail" /\ op[x].pc = "ready",
         conn[c].closed \/ conn[c].owner = 0 \/ conn[c].owner \in blamed'
  PROVE  McpInv'
<1>0. c \in Conn /\ conn[c] \in ConnRec /\ conn[c].srv \in Server /\ OpGood(x) /\ ConnGood(c) /\ op[x] \in OpRec
      /\ x # NoOne /\ x # "closer"
  BY Holder DEF Conn
<1>4. op'[x] = p /\ conn'[c] = r
  BY <1>0 DEF McpInv, McpTypes
<1>6. conn[c].lock \in {x, NoOne}
  BY <1>0 DEF OpGood
<1>7. OpGood(x)'
  BY <1>0, <1>4 DEF OpGood
<1>8. ConnGood(c)'
  <2>1. r.srv \in Server => reg'[r.srv] = c \/ r.closed \/ \E y \in Request : Adding(y, c)'
    <3>1. ASSUME NEW y \in Request, Adding(y, c) PROVE Adding(y, c)'
      <4>1. y # x => op'[y] = op[y]
        BY DEF McpInv, McpTypes
      <4>2. y = x => p.pc = "fail"
        BY <1>0, <3>1 DEF Adding, OpGood
      <4> QED
        BY <1>4, <3>1, <4>1, <4>2 DEF Adding
    <3> QED
      BY <1>0, <3>1 DEF ConnGood
  <2>2. r.srv \in Server /\ (r.closed <=> r.closer # "none")
    BY <1>0 DEF ConnGood
  <2>3. r.closer \notin {"join", "over"}
    BY <1>0 DEF ConnGood, OpGood
  <2>4. r.owner # 0 => owner'[r.owner].conn = c /\ owner'[r.owner].pc # "none"
    BY <1>0 DEF ConnGood
  <2>5. r.up => r.owner # 0 /\ owner'[r.owner].pc = "open" /\ r.session = r.owner
    BY <1>0 DEF ConnGood
  <2>6. r.closed \/ r.owner = 0 \/ r.owner \in blamed'
    OBVIOUS
  <2> QED
    BY <1>4, <2>1, <2>2, <2>3, <2>4, <2>5, <2>6 DEF ConnGood
<1>9. ASSUME NEW q \in Owner, owner[q].conn = c PROVE OwnerGood(q)'
  <2>1. OwnerGood(q) /\ owner'[q] = owner[q] /\ c # 0
    BY DEF McpInv, Conn
  <2>2. owner[q].pc \in {"start", "init"} => op[x].pc = "ready" /\ p.pc = "fail"
    BY <1>0, <1>6, <1>9, <2>1, McpAssumption DEF OwnerGood, NoOne
  <2> QED
    BY <1>0, <1>4, <1>9, <2>1, <2>2 DEF OwnerGood, Live
<1>10. NamesGood'
  <2>1. \A d \in Conn : CalledIn(op, d) => CalledIn(op', d)
    <3>1. op[x].kind = "call" => p.kind = "call" /\ p.conn = op[x].conn
      OBVIOUS
    <3> QED
      BY <3>1, CallsStay
  <2>2. \A d \in Conn : conn'[d].prefix = conn[d].prefix /\ conn'[d].tools = conn[d].tools
    BY DEF McpInv, McpTypes
  <2> QED
    BY <2>1, <2>2, NamesStay
<1> QED
  BY <1>6, <1>7, <1>8, <1>9, <1>10, ConnMoves
(* The connection of x, told to stop under the lock of x.                      *)
Still(x, c) == [conn[c] EXCEPT !.stop = TRUE, !.lock = x]
LEMMA ToldIs ==
  ASSUME McpInv, NEW x \in Request, NEW c \in Conn
  PROVE  LET r == Still(x, c) IN
         /\ r \in ConnRec /\ r.srv = conn[c].srv /\ r.prefix = conn[c].prefix /\ r.owner = conn[c].owner
         /\ r.session = conn[c].session /\ r.up = conn[c].up /\ r.ready = conn[c].ready
         /\ r.closed = conn[c].closed /\ r.tools = conn[c].tools /\ r.lock = x /\ r.closer = conn[c].closer
<1>1. conn[c] \in ConnRec
  BY ManagerTypes
<1> QED
  BY <1>1 DEF Still, ConnRec

LEMMA ReconnectStep ==
  ASSUME McpInv, NEW x \in Request, Reconnect(x)
  PROVE  McpInv'
<1>0. op[x].conn # 0
  BY DEF McpInv, OpGood, Reconnect, At
<1>1. PICK c \in Conn : c = op[x].conn
  BY <1>0, Holder
<1>2. conn[c] \in ConnRec /\ OpGood(x) /\ ConnGood(c) /\ MyConn(x) = conn[c] /\ op[x] \in OpRec
  BY <1>0, <1>1, Holder DEF MyConn
<1>3. CASE conn[c].closed \/ Replaced(x)
  BY <1>2, <1>3, NotReplaced
<1>4. CASE ~(conn[c].closed \/ Replaced(x))
  <2>1. /\ op[x].pc = "relock" /\ conn[c].lock = NoOne /\ ~conn[c].closed /\ ~Replaced(x)
        /\ op' = [op EXCEPT ![x].pc = "join"] /\ conn' = [conn EXCEPT ![c] = [Dismissed(conn[c]) EXCEPT !.lock = x]]
        /\ UNCHANGED <<reg, server_lock, tool_map, owner, offer, expired, blamed>>
    BY <1>1, <1>2, <1>4 DEF Reconnect, At, Goes, Set
  <2>2. conn[c].closed \/ conn[c].owner = 0 \/ conn[c].owner \in blamed'
    <3>1. op[x].failed \in blamed
      BY <1>2, <2>1 DEF OpGood
    <3>2. CASE conn[c].up
      BY <1>2, <2>1, <3>1, <3>2 DEF Replaced, ConnGood
    <3>3. CASE ~conn[c].up
      BY <2>1, <3>3, Unopened
    <3> QED
      BY <3>2, <3>3
  <2> DEFINE p == [op[x] EXCEPT !.pc = "join"]
             r == Still(x, c)
  <2>3. p \in OpRec /\ p.pc = "join" /\ p.kind = op[x].kind /\ p.conn = c /\ p.srv = op[x].srv
    BY <1>1, <1>2 DEF OpRec
  <2>4. op' = [op EXCEPT ![x] = p]
    BY <2>1
  <2>5. conn' = [conn EXCEPT ![c] = Still(x, c)]
    BY <2>1 DEF Dismissed, Still
  <2>7. /\ r \in ConnRec /\ r.srv = conn[c].srv /\ r.prefix = conn[c].prefix /\ r.owner = conn[c].owner
        /\ r.session = conn[c].session /\ r.up = conn[c].up /\ r.ready = conn[c].ready
        /\ r.closed = conn[c].closed /\ r.tools = conn[c].tools /\ r.lock = x /\ r.closer = conn[c].closer
        /\ conn' = [conn EXCEPT ![c] = r]
    BY <2>5, ToldIs
  <2> HIDE DEF p, r
  <2>6. /\ op[x].pc = "relock" /\ conn[c].lock = NoOne /\ ~conn[c].closed
        /\ UNCHANGED <<reg, server_lock, tool_map, owner, offer, expired>> /\ blamed \subseteq blamed'
    BY <2>1
  <2> QED
    BY <1>1, <2>2, <2>3, <2>4, <2>6, <2>7, Telling
<1> QED
  BY <1>3, <1>4

LEMMA TellSteps ==
  ASSUME McpInv, NEW x \in Request, NotOpened(x) \/ Cancelled(x), op[x].pc = "ready"
  PROVE  McpInv'
<1>0. op[x].conn # 0
  BY DEF McpInv, OpGood
<1>1. PICK c \in Conn : c = op[x].conn
  BY <1>0, Holder
<1>2. conn[c] \in ConnRec /\ OpGood(x) /\ ConnGood(c) /\ MyConn(x) = conn[c] /\ op[x] \in OpRec
  BY <1>0, <1>1, Holder DEF MyConn
<1>3. conn[c].lock = x
  BY <1>1, <1>2 DEF OpGood
<1>4. /\ conn' = [conn EXCEPT ![c] = Dismissed(conn[c])] /\ op' = [op EXCEPT ![x].pc = "fail"]
      /\ blamed \subseteq blamed' /\ UNCHANGED <<reg, server_lock, tool_map, owner, offer, expired>>
  BY <1>1, <1>2 DEF NotOpened, Cancelled, manager, Set, Goes
<1>5. conn[c].closed \/ conn[c].owner = 0 \/ conn[c].owner \in blamed'
  <2>1. CASE NotOpened(x)
    <3>1. ~conn[c].up /\ conn[c].ready /\ blamed' = blamed
      BY <1>2, <2>1 DEF NotOpened
    <3> QED
      BY <3>1, Unopened
  <2>2. CASE Cancelled(x)
    BY <1>2, <2>2 DEF Cancelled
  <2> QED
    BY <2>1, <2>2
<1> DEFINE p == [op[x] EXCEPT !.pc = "fail"]
           r == Still(x, c)
<1>6. p \in OpRec /\ p.pc = "fail" /\ p.kind = op[x].kind /\ p.conn = c /\ p.srv = op[x].srv
  BY <1>1, <1>2 DEF OpRec
<1>7. op' = [op EXCEPT ![x] = p]
  BY <1>4
<1>8. conn' = [conn EXCEPT ![c] = Still(x, c)]
  BY <1>2, <1>3, <1>4 DEF Dismissed, Still, ConnRec
<1>10. /\ r \in ConnRec /\ r.srv = conn[c].srv /\ r.prefix = conn[c].prefix /\ r.owner = conn[c].owner
      /\ r.session = conn[c].session /\ r.up = conn[c].up /\ r.ready = conn[c].ready
      /\ r.closed = conn[c].closed /\ r.tools = conn[c].tools /\ r.lock = x /\ r.closer = conn[c].closer
      /\ conn' = [conn EXCEPT ![c] = r]
  BY <1>8, ToldIs
<1> HIDE DEF p, r
<1>9. blamed \subseteq blamed' /\ UNCHANGED <<reg, server_lock, tool_map, owner, offer, expired>>
  BY <1>4
<1> QED
  BY <1>1, <1>5, <1>6, <1>7, <1>9, <1>10, Telling

(* A connection whose owner has ended loses it, and x lets the lock go.        *)
LEMMA LettingGo ==
  ASSUME McpInv, NEW x \in Request, NEW c \in Conn, c = op[x].conn, conn[c].lock = x, Joined(conn[c]),
         op[x].pc \in {"join", "fail"}, NEW p \in OpRec, op' = [op EXCEPT ![x] = p],
         NEW r \in ConnRec, conn' = [conn EXCEPT ![c] = r],
         UNCHANGED <<reg, server_lock, owner, offer, expired, blamed>>,
         r.srv = conn[c].srv, r.owner = 0, ~r.up, r.lock = NoOne,
         IF op[x].kind = "call" THEN r.closed = conn[c].closed /\ r.closer = conn[c].closer ELSE r.closed /\ r.closer = "lock",
         OpGood(x)', NamesGood'
  PROVE  McpInv'
<1>0. conn[c] \in ConnRec /\ conn[c].srv \in Server /\ OpGood(x) /\ ConnGood(c) /\ op[x] \in OpRec
      /\ x # NoOne /\ x # "closer" /\ c # 0
  BY Holder DEF Conn
<1>1. op'[x] = p /\ conn'[c] = r
  BY <1>0 DEF McpInv, McpTypes
<1>2. op[x].kind # "call" => (\A s \in Server : reg[s] # c) /\ \A y \in Request : y # x => ~Adding(y, c)
  <2>1. ASSUME op[x].kind # "call", NEW s \in Server PROVE reg[s] # c
    BY <1>0, <2>1 DEF McpInv, OpGood, RegGood
  <2>2. ASSUME NEW y \in Request, y # x PROVE ~Adding(y, c)
    BY <2>2 DEF McpInv, OpGood, Adding
  <2> QED
    BY <2>1, <2>2
<1>3. ConnGood(c)'
  <2>1. r.srv \in Server => reg'[r.srv] = c \/ r.closed \/ \E y \in Request : Adding(y, c)'
    <3>1. CASE op[x].kind = "call"
      <4>1. ASSUME NEW y \in Request, Adding(y, c) PROVE Adding(y, c)'
        <5>1. y # x => op'[y] = op[y]
          BY DEF McpInv, McpTypes
        <5> QED
          BY <3>1, <4>1, <5>1 DEF Adding
      <4> QED
        BY <1>0, <3>1, <4>1 DEF ConnGood
    <3>2. CASE op[x].kind # "call"
      BY <3>2
    <3> QED
      BY <3>1, <3>2
  <2>2. (r.closed <=> r.closer # "none") /\ r.closer # "join"
    BY <1>0 DEF ConnGood
  <2> QED
    BY <1>0, <1>1, <2>1, <2>2 DEF ConnGood
<1>4. ASSUME NEW q \in Owner, owner[q].conn = c PROVE OwnerGood(q)'
  <2>1. ~Live(q)
    BY <1>4, NoneLive
  <2>2. conn[c].closed => conn'[c].closed
    BY <1>1
  <2> QED
    BY <1>1, <1>4, <2>1, <2>2, Ceased
<1>5. \/ r.closed = conn[c].closed
      \/ r.closed /\ (\A s \in Server : reg[s] # c) /\ \A y \in Request : y # x => ~Adding(y, c)
  BY <1>2
<1> QED
  BY <1>3, <1>4, <1>5, ConnMoves
LEMMA ReconnectedStep ==
  ASSUME McpInv, NEW x \in Request, Reconnected(x)
  PROVE  McpInv'
<1>0. op[x].pc = "ready" /\ op[x].kind = "call" /\ op[x].conn # 0
  BY DEF McpInv, OpGood, Reconnected, At
<1>1. PICK c \in Conn : c = op[x].conn
  BY <1>0, Holder
<1>2. conn[c] \in ConnRec /\ OpGood(x) /\ ConnGood(c) /\ MyConn(x) = conn[c] /\ op[x] \in OpRec /\ conn[c].srv \in Server
      /\ x # NoOne /\ x # "closer"
  BY <1>0, <1>1, Holder DEF MyConn
<1>3. conn[c].lock = x /\ conn[c].up /\ ~(conn[c].closer \in {"join", "over"})
  BY <1>0, <1>1, <1>2 DEF OpGood, Reconnected, ConnGood
<1> DEFINE p == [op[x] EXCEPT !.pc = "again"]
           r == [conn[c] EXCEPT !.lock = NoOne]
<1>4. p \in OpRec /\ p.pc = "again" /\ p.kind = "call" /\ p.conn = c
  BY <1>0, <1>1, <1>2 DEF OpRec
<1>5. /\ r \in ConnRec /\ r.srv = conn[c].srv /\ r.prefix = conn[c].prefix /\ r.owner = conn[c].owner
      /\ r.session = conn[c].session /\ r.up = conn[c].up /\ r.closed = conn[c].closed /\ r.tools = conn[c].tools
      /\ r.stop = conn[c].stop /\ r.lock = NoOne /\ r.closer = conn[c].closer
  BY <1>2 DEF ConnRec
<1>6. /\ op' = [op EXCEPT ![x] = p] /\ conn' = [conn EXCEPT ![c] = r]
      /\ UNCHANGED <<reg, server_lock, tool_map, owner, offer, expired, blamed>>
  BY <1>1, <1>2 DEF Reconnected, manager, Set, Goes
<1> HIDE DEF p, r
<1>7. op'[x] = p /\ conn'[c] = r /\ \A y \in Request : y # x => op'[y] = op[y]
  BY <1>6 DEF McpInv, McpTypes
<1>8. OpGood(x)'
  BY <1>0, <1>1, <1>2, <1>4, <1>5, <1>7 DEF OpGood
<1>9. ConnGood(c)'
  <2>1. \A y \in Request : Adding(y, c) => Adding(y, c)'
    BY <1>0, <1>7 DEF Adding
  <2>2. r.srv \in Server => reg'[r.srv] = c \/ r.closed \/ \E y \in Request : Adding(y, c)'
    BY <1>2, <1>5, <1>6, <2>1 DEF ConnGood
  <2>3. (r.closed <=> r.closer # "none") /\ r.closer \notin {"join", "over"}
    BY <1>2, <1>3, <1>5 DEF ConnGood
  <2>4. r.owner # 0 => owner'[r.owner].conn = c /\ owner'[r.owner].pc # "none"
    BY <1>2, <1>5, <1>6 DEF ConnGood
  <2>5. r.up => r.owner # 0 /\ owner'[r.owner].pc = "open" /\ r.session = r.owner
    BY <1>2, <1>5, <1>6 DEF ConnGood
  <2>6. r.stop => r.closed \/ r.owner = 0 \/ r.owner \in blamed'
    BY <1>2, <1>5, <1>6 DEF ConnGood
  <2> QED
    BY <1>2, <1>5, <1>7, <2>2, <2>3, <2>4, <2>5, <2>6 DEF ConnGood
<1>10. ASSUME NEW q \in Owner, owner[q].conn = c PROVE OwnerGood(q)'
  <2>1. OwnerGood(q) /\ owner'[q] = owner[q] /\ c # 0 /\ blamed' = blamed
    BY <1>6 DEF McpInv, Conn
  <2>2. owner[q].pc \notin {"start", "init"}
    BY <1>2, <1>3, <1>10, <2>1 DEF OwnerGood, ConnGood, Live
  <2> QED
    BY <1>2, <1>5, <1>7, <1>10, <2>1, <2>2 DEF OwnerGood, Live
<1>11. NamesGood'
  <2>1. op[x].kind = "call" => p.kind = "call" /\ p.conn = op[x].conn
    BY <1>1, <1>4
  <2>2. \A d \in Conn : CalledIn(op, d) => CalledIn(op', d)
    BY <1>6, <2>1, CallsStay
  <2>3. \A d \in Conn : conn'[d].prefix = conn[d].prefix /\ conn'[d].tools = conn[d].tools
    BY <1>5, <1>6 DEF McpInv, McpTypes
  <2> QED
    BY <1>6, <2>2, <2>3, NamesStay
<1>12. conn[c].lock \in {x, NoOne} /\ r.srv = conn[c].srv /\ r.closed = conn[c].closed
  BY <1>3, <1>5
<1> QED
  BY <1>1, <1>4, <1>5, <1>6, <1>8, <1>9, <1>10, <1>11, <1>12, ConnMoves

(* A reconnection whose caller has gone, or one that did not open.             *)
LEMMA GivesUp ==
  ASSUME McpInv, NEW x \in Request, (Rehire(x) /\ op[x].raising) \/ CleanedUp(x)
  PROVE  McpInv'
<1>0. op[x].pc \in {"join", "fail"} /\ op[x].conn # 0 /\ (op[x].pc = "join" => op[x].kind = "call")
      /\ op[x].kind \in {"call", "add"}
  BY DEF McpInv, OpGood, Rehire, CleanedUp, At
<1>1. PICK c \in Conn : c = op[x].conn
  BY <1>0, Holder
<1>2. conn[c] \in ConnRec /\ OpGood(x) /\ MyConn(x) = conn[c] /\ op[x] \in OpRec /\ conn[c].srv \in Server
  BY <1>0, <1>1, Holder DEF MyConn
<1>3. conn[c].lock = x /\ Joined(conn[c])
  BY <1>0, <1>1, <1>2 DEF OpGood, Rehire, CleanedUp
<1>4. UNCHANGED <<reg, server_lock, owner, offer, expired, blamed>>
  BY DEF Rehire, CleanedUp
<1> DEFINE r == [Bare(conn[c]) EXCEPT !.lock = NoOne]
<1>5. /\ r \in ConnRec /\ r.srv = conn[c].srv /\ r.prefix = conn[c].prefix /\ r.owner = 0 /\ ~r.up
      /\ r.tools = conn[c].tools /\ r.lock = NoOne /\ r.closed = conn[c].closed /\ r.closer = conn[c].closer
  BY <1>2 DEF ConnRec, Bare
<1>6. CASE op[x].kind = "call"
  <2>1. conn' = [conn EXCEPT ![c] = r] /\ CallOver(x)
    BY <1>1, <1>2, <1>6 DEF Rehire, CleanedUp, Set
  <2> HIDE DEF r
  <2>2. op' = [op EXCEPT ![x] = Gone]
    BY <2>1 DEF CallOver, Ends, Gone
  <2>3. \A d \in Conn : conn'[d].prefix = conn[d].prefix /\ conn'[d].tools = conn[d].tools
    BY <1>5, <2>1 DEF McpInv, McpTypes
  <2>4. NamesGood'
    BY <1>0, <1>4, <1>6, <2>1, <2>3, CallEnds
  <2>5. op'[x] = Gone
    BY <2>2 DEF McpInv, McpTypes
  <2>6. OpGood(x)'
    BY <2>5, GoneIs DEF OpGood
  <2> QED
    BY <1>0, <1>1, <1>3, <1>4, <1>5, <1>6, <2>1, <2>2, <2>4, <2>6, GoneIs, LettingGo
<1>7. CASE op[x].kind = "add"
  <2> DEFINE s == Closing(r)
             p == [op[x] EXCEPT !.pc = "close", !.raising = TRUE]
  <2>0. /\ conn' = [conn EXCEPT ![op[x].conn] = Closing([Bare(MyConn(x)) EXCEPT !.lock = NoOne])] /\ tool_map' = tool_map
        /\ op' = [op EXCEPT ![x].pc = "close", ![x].raising = TRUE]
    BY <1>0, <1>7 DEF Rehire, CleanedUp, At, Set
  <2>1. /\ s \in ConnRec /\ s.srv = r.srv /\ s.prefix = r.prefix /\ s.owner = r.owner /\ s.up = r.up
        /\ s.tools = r.tools /\ s.lock = r.lock /\ s.closed = TRUE /\ s.closer = "lock"
    BY <1>2 DEF ConnRec, Bare, Closing
  <2>2. conn' = [conn EXCEPT ![c] = s] /\ tool_map' = tool_map
    BY <1>1, <1>2, <2>0
  <2>3. p \in OpRec /\ p.pc = "close" /\ p.kind = "add" /\ p.conn = c /\ p.srv = op[x].srv
    BY <1>1, <1>2, <1>7 DEF OpRec
  <2>4. op' = [op EXCEPT ![x] = p]
    BY <1>2, <2>0 DEF McpInv, McpTypes, OpRec
  <2> HIDE DEF r, s, p
  <2>5. op'[x] = p /\ conn'[c] = s
    BY <2>2, <2>4 DEF McpInv, McpTypes
  <2>6. OpGood(x)'
    BY <1>0, <1>1, <1>2, <1>4, <1>5, <1>7, <2>1, <2>3, <2>5 DEF OpGood
  <2>7. NamesGood'
    <3>1. op[x].kind # "call"
      BY <1>7
    <3>2. \A d \in Conn : CalledIn(op, d) => CalledIn(op', d)
      BY <2>4, <3>1, CallsStay
    <3>3. \A d \in Conn : conn'[d].prefix = conn[d].prefix /\ conn'[d].tools = conn[d].tools
      BY <1>5, <2>1, <2>2 DEF McpInv, McpTypes
    <3> QED
      BY <1>4, <2>2, <3>2, <3>3, NamesStay
  <2>8. IF op[x].kind = "call" THEN s.closed = conn[c].closed /\ s.closer = conn[c].closer ELSE s.closed /\ s.closer = "lock"
    BY <1>7, <2>1
  <2>9. s.srv = conn[c].srv /\ s.owner = 0 /\ ~s.up /\ s.lock = NoOne /\ s \in ConnRec
    BY <1>5, <2>1
  <2> QED
    BY <1>0, <1>1, <1>3, <1>4, <2>2, <2>3, <2>4, <2>6, <2>7, <2>8, <2>9, LettingGo
<1> QED
  BY <1>0, <1>6, <1>7

(* disconnect: the lock, and then what is left when the owner has ended.       *)
LEMMA CloserSteps ==
  ASSUME McpInv, NEW c \in Conn, Closer(c)
  PROVE  McpInv'
<1>1. conn[c] \in ConnRec /\ ConnGood(c) /\ c # 0 /\ conn[c].closed
  BY ManagerTypes DEF McpInv, ConnGood, Closer, Conn
<1>2. /\ UNCHANGED <<reg, tool_map, server_lock, owner, op, offer, expired, blamed>>
  BY DEF Closer, manager
<1>3. PICK r \in ConnRec :
        /\ conn' = [conn EXCEPT ![c] = r] /\ r.srv = conn[c].srv /\ r.closed
        /\ \/ /\ conn[c].closer = "lock" /\ conn[c].lock = NoOne /\ r.closer = "join" /\ r.lock = "closer"
              /\ r.prefix = conn[c].prefix /\ r.tools = conn[c].tools /\ r.owner = conn[c].owner
              /\ r.up = conn[c].up /\ r.session = conn[c].session /\ r.ready = conn[c].ready
           \/ /\ conn[c].closer = "join" /\ Joined(conn[c]) /\ r.closer = "over" /\ r.lock = NoOne
              /\ r.owner = 0 /\ ~r.up
  <2>1. CASE conn[c].closer = "lock"
    <3> DEFINE r == [conn[c] EXCEPT !.stop = TRUE, !.lock = "closer", !.closer = "join"]
    <3>1. conn' = [conn EXCEPT ![c] = r] /\ conn[c].lock = NoOne
      BY <1>1, <2>1 DEF Closer, Dismissed, McpInv, McpTypes
    <3>2. /\ r \in ConnRec /\ r.srv = conn[c].srv /\ r.closed /\ r.closer = "join" /\ r.lock = "closer"
          /\ r.prefix = conn[c].prefix /\ r.tools = conn[c].tools /\ r.owner = conn[c].owner
          /\ r.up = conn[c].up /\ r.session = conn[c].session /\ r.ready = conn[c].ready
      BY <1>1 DEF ConnRec
    <3> HIDE DEF r
    <3> QED
      BY <2>1, <3>1, <3>2
  <2>2. CASE conn[c].closer = "join"
    <3> DEFINE r == [Bare(conn[c]) EXCEPT !.tools = {}, !.lock = NoOne, !.closer = "over"]
    <3>1. conn' = [conn EXCEPT ![c] = r] /\ Joined(conn[c])
      BY <1>1, <2>2 DEF Closer, McpInv, McpTypes
    <3>2. r \in ConnRec /\ r.srv = conn[c].srv /\ r.closed /\ r.closer = "over" /\ r.lock = NoOne /\ r.owner = 0 /\ ~r.up
      BY <1>1 DEF ConnRec, Bare
    <3> HIDE DEF r
    <3> QED
      BY <2>2, <3>1, <3>2
  <2> QED
    BY <2>1, <2>2 DEF Closer
<1>4. conn'[c] = r /\ \A d \in Conn : d # c => conn'[d] = conn[d]
  BY <1>3 DEF McpInv, McpTypes
<1>5. McpTypes'
  BY <1>2, <1>3 DEF McpInv, McpTypes
<1>6. ConnGood(c)'
  <2>1. conn[c].srv \in Server
    BY <1>1 DEF ConnGood, NoConn
  <2>2. CASE r.closer = "join"
    BY <1>1, <1>2, <1>3, <1>4, <2>1, <2>2 DEF ConnGood
  <2>3. CASE r.closer = "over"
    BY <1>1, <1>2, <1>3, <1>4, <2>1, <2>3 DEF ConnGood
  <2> QED
    BY <1>3, <2>2, <2>3
<1>7. ASSUME NEW q \in Owner, owner[q].conn = c PROVE OwnerGood(q)'
  <2>1. CASE conn[c].closer = "join"
    <3>1. ~Live(q)
      BY <1>3, <1>7, <2>1, NoneLive
    <3> QED
      BY <1>1, <1>2, <1>3, <1>4, <1>7, <3>1, Ceased
  <2>2. CASE conn[c].closer = "lock"
    <3>1. OwnerGood(q) /\ owner'[q] = owner[q]
      BY <1>2 DEF McpInv
    <3>2. owner[q].pc \notin {"start", "init"}
      BY <1>1, <1>3, <1>7, <2>2, <3>1, McpAssumption DEF OwnerGood, NoOne
    <3> QED
      BY <1>1, <1>2, <1>3, <1>4, <1>7, <2>2, <3>1, <3>2 DEF OwnerGood, Live
  <2> QED
    BY <1>3, <2>1, <2>2
<1>8. ASSUME NEW s \in Server PROVE reg[s] # c
  BY <1>1 DEF McpInv, RegGood
<1>9. ASSUME NEW s \in Server PROVE RegGood(s)'
  BY <1>2, <1>4, <1>8 DEF McpInv, McpTypes, RegGood
<1>10. NamesGood'
  BY <1>2, <1>4, <1>8, NamesStay
<1>11. PICK z \in Request \cup {NoOne} : z = NoOne
  OBVIOUS
<1>12. /\ z \notin Request /\ 0 \in Owner \cup {0} /\ 0 \notin Owner
       /\ \A s \in Server : /\ server_lock[s] \notin {z, NoOne} => server_lock'[s] = server_lock[s]
                            /\ reg'[s] # reg[s] => server_lock[s] \in {z, NoOne} /\ reg[s] \in {0, c}
  BY <1>2, <1>11, McpAssumption DEF NoOne, Owner
<1>13. \A y \in Request : y # z => op'[y] = op[y] /\ (conn[c].lock = y => conn'[c].lock = y)
  BY <1>1, <1>2, <1>3, McpAssumption DEF NoOne, ConnGood
<1>14. /\ conn[c].closed => conn'[c].closed
       /\ conn'[c].closed => conn[c].closed \/ \A y \in Request : y # z => ~Adding(y, c)
       /\ conn[c].srv \in Server => conn'[c].srv = conn[c].srv
  BY <1>1, <1>3, <1>4
<1>15. /\ z \in Request /\ op[z].pc \in {"ready", "fail"} => op[z].conn = c \/ op'[z] = op[z]
       /\ z \in Request => OpGood(z)'
       /\ 0 \in Owner => owner[0].conn \in {0, c}
       /\ 0 \in Owner => OwnerGood(0)'
       /\ \A q \in Owner : q # 0 => owner'[q] = owner[q]
       /\ \A q \in Owner : owner[q].conn = c => OwnerGood(q)'
       /\ \A s \in Server : RegGood(s)'
       /\ blamed \subseteq blamed'
  BY <1>2, <1>7, <1>9, <1>12
<1> QED
  BY <1>4, <1>5, <1>6, <1>10, <1>12, <1>13, <1>14, <1>15, OneStep

(* A refresh has the list of tools of its connection.                          *)
LEMMA ListedStep ==
  ASSUME McpInv, NEW x \in Request, Listed(x)
  PROVE  McpInv'
<1>0. op[x].pc = "list" /\ op[x].conn # 0 /\ op[x].kind = "refresh"
  BY DEF McpInv, OpGood, Listed, At
<1>1. PICK c \in Conn : c = op[x].conn
  BY <1>0, Holder
<1>2. conn[c] \in ConnRec /\ ConnGood(c) /\ conn[c].srv \in Server /\ conn[c].srv = op[x].srv
  BY <1>0, <1>1, Holder DEF OpGood
<1> DEFINE tools == offer[conn[c].srv]
           r == [conn[c] EXCEPT !.tools = tools]
<1>3. tools \in SUBSET McpTool
  BY <1>2 DEF McpInv, McpTypes
<1>4. /\ conn' = [conn EXCEPT ![c] = r] /\ op' = [op EXCEPT ![x] = Gone]
      /\ tool_map' = IF IsRegistered(c) THEN Mapped(Unmapped(conn[c].srv), Named(c, tools), conn[c].srv) ELSE tool_map
      /\ UNCHANGED <<reg, server_lock, owner, offer, expired, blamed>>
  BY <1>1, <1>2 DEF Listed, RefreshEnds, Ends, Gone, McpInv, McpTypes
<1>5. /\ r \in ConnRec /\ r.srv = conn[c].srv /\ r.prefix = conn[c].prefix /\ r.owner = conn[c].owner
      /\ r.session = conn[c].session /\ r.up = conn[c].up /\ r.ready = conn[c].ready /\ r.stop = conn[c].stop
      /\ r.closed = conn[c].closed /\ r.tools = tools /\ r.lock = conn[c].lock /\ r.closer = conn[c].closer
  BY <1>2, <1>3 DEF ConnRec
<1> HIDE DEF r, tools
<1>6. op'[x] = Gone /\ conn'[c] = r /\ (\A y \in Request : y # x => op'[y] = op[y])
      /\ \A d \in Conn : d # c => conn'[d] = conn[d]
  BY <1>4 DEF McpInv, McpTypes
<1>7. OpGood(x)'
  BY <1>6, GoneIs DEF OpGood
<1>8. ConnGood(c)'
  <2>1. \A y \in Request : Adding(y, c) => Adding(y, c)'
    BY <1>0, <1>6 DEF Adding
  <2>2. r.srv \in Server => reg'[r.srv] = c \/ r.closed \/ \E y \in Request : Adding(y, c)'
    BY <1>2, <1>4, <1>5, <2>1 DEF ConnGood
  <2>3. /\ r.closed <=> r.closer # "none"
        /\ r.closer = "join" => r.lock = "closer"
        /\ r.closer = "over" => r.lock = NoOne /\ r.owner = 0
    BY <1>2, <1>5 DEF ConnGood
  <2>4. /\ r.owner # 0 => owner'[r.owner].conn = c /\ owner'[r.owner].pc # "none"
        /\ r.up => r.owner # 0 /\ owner'[r.owner].pc = "open" /\ r.session = r.owner
        /\ r.stop => r.closed \/ r.owner = 0 \/ r.owner \in blamed'
    BY <1>2, <1>4, <1>5 DEF ConnGood
  <2> QED
    BY <1>2, <1>5, <1>6, <2>2, <2>3, <2>4 DEF ConnGood
<1>9. ASSUME NEW q \in Owner, owner[q].conn = c PROVE OwnerGood(q)'
  <2>1. OwnerGood(q) /\ owner'[q] = owner[q] /\ blamed' = blamed /\ c # 0
    BY <1>4 DEF McpInv, Conn
  <2>2. owner[q].pc \in {"start", "init"} =>
          ~conn[c].ready /\ \E y \in Request : conn[c].lock = y /\ op[y].conn = c /\ op[y].pc \in {"ready", "fail"}
    BY <1>9, <2>1 DEF OwnerGood
  <2>3. owner[q].pc \in {"start", "init"} =>
          \E y \in Request : r.lock = y /\ op'[y].conn = c /\ op'[y].pc \in {"ready", "fail"}
    BY <1>0, <1>5, <1>6, <2>2
  <2> QED
    BY <1>2, <1>5, <1>6, <1>9, <2>1, <2>2, <2>3 DEF OwnerGood, Live
<1>10. NamesGood'
  <2>1. \A d \in Conn : d # c /\ CalledIn(op, d) => CalledIn(op', d)
    BY <1>0, <1>6 DEF CalledIn
  <2>2. IsRegistered(c) => conn'[c].prefix = conn[c].prefix /\ conn'[c].tools = tools
    BY <1>5, <1>6
  <2>3. \A d \in Conn : d # c /\ (\E s \in Server : reg[s] = d) =>
          conn'[d].prefix = conn[d].prefix /\ conn'[d].tools = conn[d].tools
    BY <1>6
  <2>4. UNCHANGED reg /\ conn[c].srv \in Server
    BY <1>2, <1>4
  <2>5. tool_map' = IF IsRegistered(c) THEN Mapped(Unmapped(conn[c].srv), Named(c, tools), conn[c].srv) ELSE tool_map
    BY <1>4
  <2> QED
    BY <2>1, <2>2, <2>3, <2>4, <2>5, NamesTaken
<1>11. r.srv = conn[c].srv /\ r.closed = conn[c].closed /\ r.lock = conn[c].lock /\ r \in ConnRec
  BY <1>5
<1>12. /\ op' = [op EXCEPT ![x] = Gone] /\ conn' = [conn EXCEPT ![c] = r]
       /\ UNCHANGED <<reg, server_lock, owner, offer, expired>> /\ blamed \subseteq blamed'
  BY <1>4
<1>13. \A q \in Owner : owner[q].conn = c => OwnerGood(q)'
  BY <1>9
<1> QED
  BY <1>1, <1>7, <1>8, <1>10, <1>11, <1>12, <1>13, GoneIs, ConnMoves

(* The lock of a server whose connection is replaced or removed.               *)
LEMMA LockClosing ==
  ASSUME McpInv, NEW x \in Request, LockServer(x), reg[op[x].srv] # 0
  PROVE  McpInv'
<1>0. op[x] \in OpRec /\ OpGood(x) /\ op[x].pc = "lock" /\ op[x].srv \in Server /\ op[x].kind \in {"add", "remove"}
  BY ManagerTypes DEF McpInv, LockServer, At, OpGood
<1>1. PICK s \in Server : s = op[x].srv
  BY <1>0
<1>2. PICK c \in Conn : c = reg[s]
  BY <1>1 DEF McpInv, McpTypes
<1>3. /\ conn[c] \in ConnRec /\ ConnGood(c) /\ conn[c].srv = s /\ ~conn[c].closed /\ c # 0
      /\ \A t \in Server : reg[t] = c => t = s
  BY <1>1, <1>2 DEF McpInv, McpTypes, RegGood, Conn
<1> DEFINE p == [op[x] EXCEPT !.pc = "close", !.conn = c]
           r == Closing(conn[c])
<1>4. p \in OpRec /\ p.pc = "close" /\ p.kind = op[x].kind /\ p.conn = c /\ p.srv = s
  BY <1>0, <1>1 DEF OpRec
<1>5. /\ r \in ConnRec /\ r.srv = conn[c].srv /\ r.prefix = conn[c].prefix /\ r.owner = conn[c].owner
      /\ r.session = conn[c].session /\ r.up = conn[c].up /\ r.ready = conn[c].ready /\ r.stop = conn[c].stop
      /\ r.closed = TRUE /\ r.tools = conn[c].tools /\ r.lock = conn[c].lock /\ r.closer = "lock"
  BY <1>3 DEF ConnRec, Closing
<1>6. /\ conn' = [conn EXCEPT ![c] = r] /\ op' = [op EXCEPT ![x] = p] /\ reg' = [reg EXCEPT ![s] = 0]
      /\ server_lock' = [server_lock EXCEPT ![s] = x] /\ server_lock[s] = NoOne /\ tool_map' = Unmapped(s)
      /\ UNCHANGED <<owner, offer, expired, blamed>>
  BY <1>0, <1>1, <1>2 DEF LockServer, McpInv, McpTypes, OpRec
<1> HIDE DEF p, r
<1>7. /\ op'[x] = p /\ conn'[c] = r /\ (\A y \in Request : y # x => op'[y] = op[y])
      /\ (\A d \in Conn : d # c => conn'[d] = conn[d])
      /\ reg'[s] = 0 /\ (\A t \in Server : t # s => reg'[t] = reg[t] /\ server_lock'[t] = server_lock[t])
      /\ server_lock'[s] = x
  BY <1>6 DEF McpInv, McpTypes
<1>8. McpTypes'
  BY <1>4, <1>5, <1>6 DEF McpInv, McpTypes
<1>9. OpGood(x)'
  BY <1>0, <1>3, <1>4, <1>5, <1>7 DEF OpGood
<1>10. ConnGood(c)'
  <2>1. /\ r.owner # 0 => owner'[r.owner].conn = c /\ owner'[r.owner].pc # "none"
        /\ r.up => r.owner # 0 /\ owner'[r.owner].pc = "open" /\ r.session = r.owner
    BY <1>3, <1>5, <1>6 DEF ConnGood
  <2> QED
    BY <1>3, <1>5, <1>7, <2>1 DEF ConnGood
<1>11. ASSUME NEW q \in Owner, owner[q].conn = c PROVE OwnerGood(q)'
  <2>1. OwnerGood(q) /\ owner'[q] = owner[q] /\ blamed' = blamed
    BY <1>6 DEF McpInv
  <2>2. owner[q].pc \in {"start", "init"} =>
          ~conn[c].ready /\ \E y \in Request : conn[c].lock = y /\ op[y].conn = c /\ op[y].pc \in {"ready", "fail"}
    BY <1>11, <2>1 DEF OwnerGood
  <2>3. owner[q].pc \in {"start", "init"} =>
          \E y \in Request : r.lock = y /\ op'[y].conn = c /\ op'[y].pc \in {"ready", "fail"}
    BY <1>0, <1>5, <1>7, <2>2
  <2> QED
    BY <1>3, <1>5, <1>7, <1>11, <2>1, <2>2, <2>3 DEF OwnerGood, Live
<1>12. ASSUME NEW t \in Server PROVE RegGood(t)'
  BY <1>3, <1>7 DEF McpInv, McpTypes, RegGood
<1>13. \A y \in Request : ~Adding(y, c)
  BY <1>1, <1>2, <1>3 DEF McpInv, OpGood, Adding
<1>14. NamesGood'
  <2> SUFFICES ASSUME NEW n \in DOMAIN tool_map'
               PROVE  LET d == reg'[tool_map'[n]] IN
                      tool_map'[n] \in Server /\ d # 0 /\ (~CalledIn(op', d) => n \in NamesOf(conn', d))
    BY DEF NamesGood
  <2>1. n \in DOMAIN tool_map /\ tool_map[n] # s /\ tool_map'[n] = tool_map[n]
    BY <1>6 DEF Unmapped
  <2>2. PICK t \in Server : t = tool_map[n]
    BY <2>1 DEF McpInv, NamesGood
  <2>3. PICK d \in Conn : d = reg[t]
    BY <2>1, <2>2 DEF McpInv, McpTypes, NamesGood
  <2>4. d # 0 /\ d # c /\ reg'[t] = d /\ conn'[d] = conn[d]
    BY <1>3, <1>7, <2>1, <2>2, <2>3 DEF Conn
  <2>5. ~CalledIn(op, d) => n \in NamesOf(conn, d)
    BY <2>1, <2>2, <2>3 DEF McpInv, NamesGood
  <2>6. CalledIn(op, d) => CalledIn(op', d)
    BY <1>0, <1>7 DEF CalledIn
  <2>7. ~CalledIn(op', d) => n \in NamesOf(conn', d)
    BY <2>4, <2>5, <2>6 DEF NamesOf
  <2> QED
    BY <2>1, <2>2, <2>4, <2>7
<1>15. /\ x \in Request \cup {NoOne} /\ 0 \in Owner \cup {0} /\ 0 \notin Owner
       /\ \A t \in Server : /\ server_lock[t] \notin {x, NoOne} => server_lock'[t] = server_lock[t]
                            /\ reg'[t] # reg[t] => server_lock[t] \in {x, NoOne} /\ reg[t] \in {0, c}
       /\ \A y \in Request : y # x => op'[y] = op[y] /\ (conn[c].lock = y => conn'[c].lock = y)
       /\ conn[c].closed => conn'[c].closed
       /\ conn'[c].closed => conn[c].closed \/ \A y \in Request : y # x => ~Adding(y, c)
       /\ conn[c].srv \in Server => conn'[c].srv = conn[c].srv
       /\ x \in Request /\ op[x].pc \in {"ready", "fail"} => op[x].conn = c \/ op'[x] = op[x]
  BY <1>0, <1>2, <1>5, <1>6, <1>7, <1>13 DEF Owner
<1>16. /\ x \in Request => OpGood(x)'
       /\ 0 \in Owner => owner[0].conn \in {0, c}
       /\ 0 \in Owner => OwnerGood(0)'
       /\ \A q \in Owner : q # 0 => owner'[q] = owner[q]
       /\ \A q \in Owner : owner[q].conn = c => OwnerGood(q)'
       /\ \A t \in Server : RegGood(t)'
       /\ blamed \subseteq blamed'
  BY <1>6, <1>9, <1>11, <1>12, <1>15
<1> QED
  BY <1>7, <1>8, <1>10, <1>14, <1>15, <1>16, OneStep

(* A connection that is open becomes the server's.                             *)
LEMMA RegisterStep ==
  ASSUME McpInv, NEW x \in Request, Register(x)
  PROVE  McpInv'
<1>0. /\ op[x] \in OpRec /\ OpGood(x) /\ op[x].pc = "ready" /\ op[x].kind = "add" /\ op[x].srv \in Server
      /\ op[x].conn # 0
  BY ManagerTypes DEF McpInv, Register, At, OpGood
<1>1. PICK s \in Server : s = op[x].srv
  BY <1>0
<1>2. PICK c \in Conn : c = op[x].conn
  BY <1>0, Holder
<1>3. /\ conn[c] \in ConnRec /\ ConnGood(c) /\ conn[c].srv = s /\ ~conn[c].closed /\ c # 0 /\ conn[c].lock = x
      /\ reg[s] = 0 /\ server_lock[s] = x /\ conn[c].up /\ x # NoOne
      /\ \A t \in Server : reg[t] # c
  <2>1. conn[c] \in ConnRec /\ ConnGood(c) /\ conn[c].srv = s /\ ~conn[c].closed /\ c # 0 /\ conn[c].lock = x
        /\ reg[s] = 0 /\ server_lock[s] = x /\ conn[c].up /\ x # NoOne
    BY <1>0, <1>1, <1>2, Holder DEF OpGood, Register, Conn
  <2> QED
    BY <2>1 DEF McpInv, RegGood
<1> DEFINE r == [conn[c] EXCEPT !.lock = NoOne]
<1>5. /\ r \in ConnRec /\ r.srv = conn[c].srv /\ r.prefix = conn[c].prefix /\ r.owner = conn[c].owner
      /\ r.session = conn[c].session /\ r.up = conn[c].up /\ r.ready = conn[c].ready /\ r.stop = conn[c].stop
      /\ r.closed = conn[c].closed /\ r.tools = conn[c].tools /\ r.lock = NoOne /\ r.closer = conn[c].closer
  BY <1>3 DEF ConnRec
<1>6. /\ conn' = [conn EXCEPT ![c] = r] /\ op' = [op EXCEPT ![x] = Gone] /\ reg' = [reg EXCEPT ![s] = c]
      /\ server_lock' = [server_lock EXCEPT ![s] = NoOne]
      /\ tool_map' = Mapped(tool_map, Named(c, conn[c].tools), s)
      /\ UNCHANGED <<owner, offer, expired, blamed>>
  BY <1>0, <1>1, <1>2 DEF Register, Ends, Unlock, Gone, McpInv, McpTypes, ConnRec
<1> HIDE DEF r
<1>7. /\ op'[x] = Gone /\ conn'[c] = r /\ (\A y \in Request : y # x => op'[y] = op[y])
      /\ (\A d \in Conn : d # c => conn'[d] = conn[d])
      /\ reg'[s] = c /\ (\A t \in Server : t # s => reg'[t] = reg[t] /\ server_lock'[t] = server_lock[t])
  BY <1>6 DEF McpInv, McpTypes
<1>8. McpTypes'
  BY <1>5, <1>6, GoneIs DEF McpInv, McpTypes
<1>9. OpGood(x)'
  BY <1>7, GoneIs DEF OpGood
<1>10. ConnGood(c)'
  <2>1. /\ r.owner # 0 => owner'[r.owner].conn = c /\ owner'[r.owner].pc # "none"
        /\ r.up => r.owner # 0 /\ owner'[r.owner].pc = "open" /\ r.session = r.owner
        /\ r.stop => r.closed \/ r.owner = 0 \/ r.owner \in blamed'
    BY <1>3, <1>5, <1>6 DEF ConnGood
  <2>2. ~r.closed /\ r.closer = "none"
    BY <1>3, <1>5 DEF ConnGood
  <2> QED
    BY <1>3, <1>5, <1>7, <2>1, <2>2 DEF ConnGood
<1>11. ASSUME NEW q \in Owner, owner[q].conn = c PROVE OwnerGood(q)'
  <2>1. OwnerGood(q) /\ owner'[q] = owner[q] /\ blamed' = blamed
    BY <1>6 DEF McpInv
  <2>2. owner[q].pc \notin {"start", "init"}
    BY <1>3, <1>11, <2>1 DEF OwnerGood, ConnGood, Live
  <2>3. r.up /\ r.srv = s /\ r.owner = conn[c].owner /\ r.session = conn[c].session
    BY <1>3, <1>5
  <2>4. owner[q].pc = "over" => q \in blamed
    BY <1>3, <1>11, <2>1 DEF OwnerGood
  <2> QED
    BY <1>3, <1>7, <1>11, <2>1, <2>2, <2>3, <2>4 DEF OwnerGood, Live
<1>12. ASSUME NEW t \in Server PROVE RegGood(t)'
  BY <1>3, <1>5, <1>7 DEF McpInv, McpTypes, RegGood
<1>14. NamesGood'
  <2> SUFFICES ASSUME NEW n \in DOMAIN tool_map'
               PROVE  LET d == reg'[tool_map'[n]] IN
                      tool_map'[n] \in Server /\ d # 0 /\ (~CalledIn(op', d) => n \in NamesOf(conn', d))
    BY DEF NamesGood
  <2>1. \/ n \in Named(c, conn[c].tools) /\ tool_map'[n] = s
        \/ n \in DOMAIN tool_map /\ tool_map'[n] = tool_map[n]
    BY <1>6 DEF Mapped
  <2>2. CASE n \in Named(c, conn[c].tools) /\ tool_map'[n] = s
    <3>1. n \in NamesOf(conn', c)
      BY <1>5, <1>7, <2>2 DEF Named, NamesOf
    <3> QED
      BY <1>3, <1>7, <2>2, <3>1
  <2>3. CASE n \in DOMAIN tool_map /\ tool_map'[n] = tool_map[n]
    <3>2. PICK t \in Server : t = tool_map[n]
      BY <2>3 DEF McpInv, NamesGood
    <3>3. PICK d \in Conn : d = reg[t]
      BY <2>3, <3>2 DEF McpInv, McpTypes, NamesGood
    <3>4. t # s /\ d # 0 /\ d # c /\ reg'[t] = d /\ conn'[d] = conn[d]
      BY <1>3, <1>7, <3>2, <3>3 DEF Conn
    <3>5. ~CalledIn(op, d) => n \in NamesOf(conn, d)
      BY <2>3, <3>2, <3>3 DEF McpInv, NamesGood
    <3>6. CalledIn(op, d) => CalledIn(op', d)
      BY <1>0, <1>7 DEF CalledIn
    <3>7. ~CalledIn(op', d) => n \in NamesOf(conn', d)
      BY <3>4, <3>5, <3>6 DEF NamesOf
    <3> QED
      BY <2>3, <3>2, <3>4, <3>7
  <2> QED
    BY <2>1, <2>2, <2>3
<1>15. /\ x \in Request \cup {NoOne} /\ 0 \in Owner \cup {0} /\ 0 \notin Owner
       /\ \A t \in Server : /\ server_lock[t] \notin {x, NoOne} => server_lock'[t] = server_lock[t]
                            /\ reg'[t] # reg[t] => server_lock[t] \in {x, NoOne} /\ reg[t] \in {0, c}
       /\ \A y \in Request : y # x => op'[y] = op[y] /\ (conn[c].lock = y => conn'[c].lock = y)
       /\ conn[c].closed => conn'[c].closed
       /\ conn'[c].closed => conn[c].closed \/ \A y \in Request : y # x => ~Adding(y, c)
       /\ conn[c].srv \in Server => conn'[c].srv = conn[c].srv
       /\ x \in Request /\ op[x].pc \in {"ready", "fail"} => op[x].conn = c \/ op'[x] = op[x]
  BY <1>2, <1>3, <1>5, <1>6, <1>7 DEF Owner
<1>16. /\ x \in Request => OpGood(x)'
       /\ 0 \in Owner => owner[0].conn \in {0, c}
       /\ 0 \in Owner => OwnerGood(0)'
       /\ \A q \in Owner : q # 0 => owner'[q] = owner[q]
       /\ \A q \in Owner : owner[q].conn = c => OwnerGood(q)'
       /\ \A t \in Server : RegGood(t)'
       /\ blamed \subseteq blamed'
  BY <1>6, <1>9, <1>11, <1>12, <1>15
<1> QED
  BY <1>7, <1>8, <1>10, <1>14, <1>15, <1>16, OneStep

(* A new owner for the connection c, which x opens under its lock.             *)
LEMMA Hiring ==
  ASSUME McpInv, NEW x \in Request, NEW c \in Conn, Hires(c), NEW r \in ConnRec, conn' = [conn EXCEPT ![c] = r],
         NEW p \in OpRec, op' = [op EXCEPT ![x] = p], p.pc = "ready", p.conn = c,
         UNCHANGED <<reg, server_lock, offer, expired, blamed>>,
         r.owner = NextOwner, ~r.ready, ~r.stop, ~r.up, r.lock = x,
         r.closed = conn[c].closed, r.closer = conn[c].closer, r.closer \notin {"join", "over"},
         r.srv \in Server, conn[c].srv \in Server => r.srv = conn[c].srv,
         \A y \in Request : y # x => conn[c].lock # y,
         op[x].pc \in {"ready", "fail"} => op[x].conn = c,
         reg[r.srv] = c \/ r.closed \/ \E y \in Request : Adding(y, c)', r.closed <=> r.closer # "none",
         \A q \in Owner : owner[q].conn = c => ~Live(q) /\ conn[c].srv \in Server,
         OpGood(x)', NamesGood'
  PROVE  McpInv'
<1>1. PICK o \in Owner : o = NextOwner /\ owner[o] = NoOwner
  BY Newest DEF Hires, Unused
<1> DEFINE w == [conn |-> c, pc |-> "start"]
<1>2. owner' = [owner EXCEPT ![o] = w] /\ w \in OwnerRec /\ w.conn = c /\ w.pc = "start"
  BY <1>1 DEF Hires, OwnerRec
<1> HIDE DEF w
<1>3. /\ op'[x] = p /\ conn'[c] = r /\ owner'[o] = w /\ (\A y \in Request : y # x => op'[y] = op[y])
      /\ (\A d \in Conn : d # c => conn'[d] = conn[d]) /\ (\A q \in Owner : q # o => owner'[q] = owner[q])
  BY <1>2 DEF McpInv, McpTypes
<1>4. McpTypes'
  BY <1>2 DEF McpInv, McpTypes
<1>5. c # 0 /\ o # 0 /\ conn[c] \in ConnRec /\ owner[o].conn = 0
  BY <1>1, ManagerTypes DEF Conn, Owner, NoOwner
<1>6. ConnGood(c)'
  BY <1>1, <1>2, <1>3, <1>5 DEF ConnGood
<1>7. OwnerGood(o)'
  BY <1>1, <1>2, <1>3, <1>5 DEF OwnerGood, Live
<1>8. ASSUME NEW q \in Owner, owner[q].conn = c PROVE OwnerGood(q)'
  <2>1. q # o /\ owner'[q] = owner[q] /\ ~Live(q) /\ conn[c].srv \in Server
    BY <1>3, <1>5, <1>8
  <2>2. (conn[c].closed => conn'[c].closed) /\ conn'[c].srv = conn[c].srv
    BY <1>3, <2>1
  <2> QED
    BY <1>8, <2>1, <2>2, Ceased
<1>9. ASSUME NEW s \in Server PROVE RegGood(s)'
  BY <1>3, <1>5 DEF McpInv, McpTypes, RegGood
<1>10. /\ x \in Request \cup {NoOne} /\ o \in Owner \cup {0}
       /\ \A t \in Server : /\ server_lock[t] \notin {x, NoOne} => server_lock'[t] = server_lock[t]
                            /\ reg'[t] # reg[t] => server_lock[t] \in {x, NoOne} /\ reg[t] \in {0, c}
       /\ \A y \in Request : y # x => op'[y] = op[y] /\ (conn[c].lock = y => conn'[c].lock = y)
       /\ conn[c].closed => conn'[c].closed
       /\ conn'[c].closed => conn[c].closed \/ \A y \in Request : y # x => ~Adding(y, c)
       /\ conn[c].srv \in Server => conn'[c].srv = conn[c].srv
       /\ x \in Request /\ op[x].pc \in {"ready", "fail"} => op[x].conn = c \/ op'[x] = op[x]
  BY <1>3
<1>11. /\ x \in Request => OpGood(x)'
       /\ o \in Owner => owner[o].conn \in {0, c}
       /\ o \in Owner => OwnerGood(o)'
       /\ \A q \in Owner : owner[q].conn = c => OwnerGood(q)'
       /\ \A t \in Server : RegGood(t)'
       /\ blamed \subseteq blamed'
  BY <1>5, <1>7, <1>8, <1>9
<1> QED
  BY <1>3, <1>4, <1>6, <1>10, <1>11, OneStep

LEMMA ConnectStep ==
  ASSUME McpInv, NEW x \in Request, Connect(x)
  PROVE  McpInv'
<1>0. /\ op[x] \in OpRec /\ OpGood(x) /\ op[x].pc = "open" /\ op[x].kind = "add" /\ op[x].srv \in Server
      /\ server_lock[op[x].srv] = x /\ reg[op[x].srv] = 0
  BY ManagerTypes DEF McpInv, Connect, At, OpGood
<1>1. PICK c \in Conn : c = NextConn /\ conn[c] = NoConn
  BY Newest DEF Connect, Unmade
<1>2. c # 0 /\ NoOne \notin Server \cup Request /\ NextOwner \in Owner
  BY Newest, McpAssumption DEF Conn, NoOne, Connect, Hires, Unused
<1> DEFINE r == [Hired(Opened(op[x].srv, op[x].prefix)) EXCEPT !.lock = x]
           p == [op[x] EXCEPT !.pc = "ready", !.conn = c]
<1>3. /\ r \in ConnRec /\ r.srv = op[x].srv /\ r.owner = NextOwner /\ ~r.ready /\ ~r.stop /\ ~r.up /\ r.lock = x
      /\ r.closed = FALSE /\ r.closer = "none"
  <2>1. op[x].prefix \in Prefix \cup {NoOne}
    BY <1>0 DEF OpRec
  <2> QED
    BY <1>0, <1>2, <2>1 DEF Hired, Opened, NoConn, ConnRec
<1>4. p \in OpRec /\ p.pc = "ready" /\ p.conn = c /\ p.kind = "add" /\ p.srv = op[x].srv
  BY <1>0 DEF OpRec
<1>5. /\ conn' = [conn EXCEPT ![c] = r] /\ op' = [op EXCEPT ![x] = p] /\ Hires(c)
      /\ UNCHANGED <<reg, server_lock, tool_map, offer, expired, blamed>>
  BY <1>0, <1>1 DEF Connect, manager, McpInv, McpTypes, OpRec
<1> HIDE DEF r, p
<1>6. op'[x] = p /\ conn'[c] = r
  BY <1>5 DEF McpInv, McpTypes
<1>7. OpGood(x)'
  BY <1>0, <1>2, <1>3, <1>4, <1>5, <1>6 DEF OpGood
<1>8. \E y \in Request : Adding(y, c)'
  BY <1>4, <1>6 DEF Adding
<1>9. conn[c].lock = NoOne /\ conn[c].closed = FALSE /\ conn[c].closer = "none" /\ conn[c].srv \notin Server
  BY <1>1, <1>2 DEF NoConn
<1>10. \A q \in Owner : owner[q].conn # c
  BY <1>2, <1>9 DEF McpInv, OwnerGood, NoOwner
<1>11. NamesGood'
  <2>1. \A d \in Conn : CalledIn(op, d) => CalledIn(op', d)
    BY <1>0, <1>5, CallsStay
  <2>2. \A d \in Conn : (\E s \in Server : reg[s] = d) => d # c
    BY <1>2, <1>9 DEF McpInv, RegGood
  <2>3. \A d \in Conn : d # c => conn'[d] = conn[d]
    BY <1>5 DEF McpInv, McpTypes
  <2> QED
    BY <1>5, <2>1, <2>2, <2>3, NamesStay
<1>12. /\ r.closed = conn[c].closed /\ r.closer = conn[c].closer /\ r.closer \notin {"join", "over"}
       /\ r.srv \in Server /\ (conn[c].srv \in Server => r.srv = conn[c].srv)
       /\ \A y \in Request : y # x => conn[c].lock # y
       /\ op[x].pc \in {"ready", "fail"} => op[x].conn = c
       /\ r.closed <=> r.closer # "none"
       /\ \A q \in Owner : owner[q].conn = c => ~Live(q) /\ conn[c].srv \in Server
  BY <1>0, <1>2, <1>3, <1>9, <1>10
<1> QED
  BY <1>3, <1>4, <1>5, <1>7, <1>8, <1>11, <1>12, Hiring

LEMMA RehireStep ==
  ASSUME McpInv, NEW x \in Request, Rehire(x), ~op[x].raising
  PROVE  McpInv'
<1>0. op[x].pc = "join" /\ op[x].kind = "call" /\ op[x].conn # 0
  BY DEF McpInv, OpGood, Rehire, At
<1>1. PICK c \in Conn : c = op[x].conn
  BY <1>0, Holder
<1>2. conn[c] \in ConnRec /\ OpGood(x) /\ ConnGood(c) /\ MyConn(x) = conn[c] /\ op[x] \in OpRec /\ conn[c].srv \in Server
      /\ x # NoOne /\ x # "closer"
  BY <1>0, <1>1, Holder DEF MyConn
<1>3. conn[c].lock = x /\ Joined(conn[c]) /\ NextOwner \in Owner /\ conn[c].closer \notin {"join", "over"}
  BY <1>0, <1>1, <1>2, Newest DEF OpGood, ConnGood, Rehire, Hires, Unused
<1> DEFINE r == Hired(Bare(conn[c]))
           p == [op[x] EXCEPT !.pc = "ready"]
<1>4. /\ r \in ConnRec /\ r.srv = conn[c].srv /\ r.owner = NextOwner /\ ~r.ready /\ ~r.stop /\ ~r.up
      /\ r.lock = conn[c].lock /\ r.closed = conn[c].closed /\ r.closer = conn[c].closer
      /\ r.prefix = conn[c].prefix /\ r.tools = conn[c].tools
  BY <1>2, <1>3 DEF Hired, Bare, ConnRec
<1>5. p \in OpRec /\ p.pc = "ready" /\ p.conn = c /\ p.kind = "call" /\ p.srv = op[x].srv
  BY <1>0, <1>1, <1>2 DEF OpRec
<1>6. /\ conn' = [conn EXCEPT ![c] = r] /\ op' = [op EXCEPT ![x] = p] /\ Hires(c)
      /\ UNCHANGED <<reg, server_lock, tool_map, offer, expired, blamed>>
  BY <1>1, <1>2 DEF Rehire, Set, Goes
<1> HIDE DEF r, p
<1>7. op'[x] = p /\ conn'[c] = r /\ \A y \in Request : y # x => op'[y] = op[y]
  BY <1>6 DEF McpInv, McpTypes
<1>8. OpGood(x)'
  BY <1>0, <1>1, <1>2, <1>3, <1>4, <1>5, <1>6, <1>7 DEF OpGood
<1>9. reg[r.srv] = c \/ r.closed \/ \E y \in Request : Adding(y, c)'
  <2>1. \A y \in Request : Adding(y, c) => Adding(y, c)'
    BY <1>0, <1>7 DEF Adding
  <2> QED
    BY <1>2, <1>4, <2>1 DEF ConnGood
<1>10. NamesGood'
  <2>1. op[x].kind = "call" => p.kind = "call" /\ p.conn = op[x].conn
    BY <1>1, <1>5
  <2>2. \A d \in Conn : CalledIn(op, d) => CalledIn(op', d)
    BY <1>6, <2>1, CallsStay
  <2>3. \A d \in Conn : conn'[d].prefix = conn[d].prefix /\ conn'[d].tools = conn[d].tools
    BY <1>4, <1>6 DEF McpInv, McpTypes
  <2> QED
    BY <1>6, <2>2, <2>3, NamesStay
<1>11. /\ r.lock = x /\ r.closer \notin {"join", "over"} /\ r.srv \in Server
       /\ conn[c].srv \in Server => r.srv = conn[c].srv
       /\ \A y \in Request : y # x => conn[c].lock # y
       /\ op[x].pc \in {"ready", "fail"} => op[x].conn = c
       /\ r.closed <=> r.closer # "none"
       /\ \A q \in Owner : owner[q].conn = c => ~Live(q) /\ conn[c].srv \in Server
  BY <1>0, <1>2, <1>3, <1>4, NoneLive DEF ConnGood
<1> QED
  BY <1>4, <1>5, <1>6, <1>8, <1>9, <1>10, <1>11, Hiring
LEMMA ServersInit == McpInit => McpInv
<1> SUFFICES ASSUME McpInit PROVE McpInv
  OBVIOUS
<1>1. PICK s \in Server, p \in Prefix, tools \in SUBSET McpTool :
         /\ reg = [o \in Server |-> IF o = s THEN 1 ELSE 0]
         /\ conn = [o \in Conn |-> IF o = 1 THEN [Opened(s, p) EXCEPT !.owner = 1, !.session = 1,
                         !.up = TRUE, !.ready = TRUE, !.tools = tools] ELSE NoConn]
         /\ owner = [o \in Owner |-> IF o = 1 THEN [conn |-> 1, pc |-> "open"] ELSE NoOwner]
         /\ tool_map = [n \in {<<p, t>> : t \in tools} |-> s]
         /\ offer = [o \in Server |-> IF o = s THEN tools ELSE McpTool]
  BY DEF McpInit
<1>2. server_lock = [t \in Server |-> NoOne] /\ op = [o \in Request |-> NoOp] /\ expired = {} /\ blamed = {}
  BY DEF McpInit
<1>3. 1 \in Conn /\ 1 \in Owner /\ NoOne \notin Server \cup Request
  BY McpAssumption DEF Conn, Owner, NoOne
<1> DEFINE r == [Opened(s, p) EXCEPT !.owner = 1, !.session = 1, !.up = TRUE, !.ready = TRUE, !.tools = tools]
<1>4. /\ r \in ConnRec /\ r.srv = s /\ r.prefix = p /\ r.owner = 1 /\ r.session = 1 /\ r.up = TRUE /\ r.ready = TRUE
      /\ r.stop = FALSE /\ r.closed = FALSE /\ r.tools = tools /\ r.lock = NoOne /\ r.closer = "none"
  BY <1>3 DEF Opened, NoConn, ConnRec
<1>5. NoConn \in ConnRec /\ NoOp \in OpRec /\ NoOwner \in OwnerRec /\ [conn |-> 1, pc |-> "open"] \in OwnerRec
  BY <1>3 DEF NoConn, NoOp, NoOwner, ConnRec, OpRec, OwnerRec
<1>6. conn = [o \in Conn |-> IF o = 1 THEN r ELSE NoConn]
  BY <1>1
<1> HIDE DEF r
<1>7. conn[1] = r /\ owner[1] = [conn |-> 1, pc |-> "open"] /\ reg[s] = 1
      /\ (\A c \in Conn : c # 1 => conn[c] = NoConn) /\ (\A o \in Owner : o # 1 => owner[o] = NoOwner)
      /\ (\A t \in Server : t # s => reg[t] = 0) /\ \A x \in Request : op[x] = NoOp
  BY <1>1, <1>2, <1>3, <1>6
<1>8. McpTypes
  <2>1. offer \in [Server -> SUBSET McpTool]
    BY <1>1
  <2>2. conn \in [Conn -> ConnRec] /\ owner \in [Owner -> OwnerRec] /\ op \in [Request -> OpRec]
    BY <1>1, <1>2, <1>4, <1>5, <1>6
  <2>3. reg \in [Server -> Conn \cup {0}] /\ server_lock \in [Server -> Request \cup {NoOne}]
    BY <1>1, <1>2, <1>3
  <2> QED
    BY <1>2, <2>1, <2>2, <2>3 DEF McpTypes
<1>9. NamesGood
  <2> SUFFICES ASSUME NEW n \in DOMAIN tool_map
               PROVE  LET c == reg[tool_map[n]] IN
                      tool_map[n] \in Server /\ c # 0 /\ (~CalledIn(op, c) => n \in NamesOf(conn, c))
    BY DEF NamesGood
  <2>1. tool_map[n] = s /\ \E t \in tools : n = <<p, t>>
    BY <1>1
  <2>2. n \in NamesOf(conn, 1)
    BY <1>4, <1>7, <2>1 DEF NamesOf
  <2> QED
    BY <1>7, <2>1, <2>2
<1>10. ASSUME NEW x \in Request PROVE OpGood(x)
  BY <1>7 DEF OpGood, NoOp
<1>11. ASSUME NEW c \in Conn PROVE ConnGood(c)
  <2>1. CASE c = 1
    BY <1>4, <1>7, <2>1 DEF ConnGood
  <2>2. CASE c # 1
    <3>1. /\ NoConn.srv = NoOne /\ NoConn.closed = FALSE /\ NoConn.closer = "none" /\ NoConn.owner = 0
          /\ NoConn.up = FALSE /\ NoConn.stop = FALSE
      BY DEF NoConn
    <3>2. conn[c] = NoConn /\ NoOne \notin Server
      BY <1>3, <1>7, <2>2
    <3> QED
      BY <3>1, <3>2 DEF ConnGood
  <2> QED
    BY <2>1, <2>2
<1>12. ASSUME NEW t \in Server PROVE RegGood(t)
  BY <1>4, <1>7 DEF RegGood
<1>13. ASSUME NEW o \in Owner PROVE OwnerGood(o)
  <2>1. CASE o = 1
    BY <1>4, <1>7, <2>1 DEF OwnerGood, Live
  <2>2. CASE o # 1
    BY <1>7, <2>2 DEF OwnerGood, NoOwner, Live
  <2> QED
    BY <2>1, <2>2
<1> QED
  BY <1>8, <1>9, <1>10, <1>11, <1>12, <1>13 DEF McpInv

LEMMA ServersStep ==
  ASSUME McpInv, [McpNext]_mvars
  PROVE  McpInv'
<1>1. CASE UNCHANGED mvars
  <2>1. McpTypes' /\ NamesGood'
    BY <1>1 DEF mvars, McpInv, McpTypes, NamesGood, NamesOf, CalledIn
  <2>2. \A x \in Request : OpGood(x)'
    BY <1>1 DEF mvars, McpInv, OpGood
  <2>3. \A c \in Conn : ConnGood(c)'
    BY <1>1 DEF mvars, McpInv, ConnGood, Adding
  <2>4. \A s \in Server : RegGood(s)'
    BY <1>1 DEF mvars, McpInv, RegGood
  <2>5. \A o \in Owner : OwnerGood(o)'
    BY <1>1 DEF mvars, McpInv, OwnerGood, Live
  <2> QED
    BY <2>1, <2>2, <2>3, <2>4, <2>5 DEF McpInv
<1>2. ASSUME NEW x \in Request, Runs(x) \/ Answered(x) \/ SessionFails(x) \/ Cancelled(x)
      PROVE  McpInv'
  <2>1. CASE LockServer(x)
    BY <2>1, LockEmpty, LockClosing
  <2>2. CASE Rehire(x)
    BY <2>2, RehireStep, GivesUp
  <2>3. CASE NotOpened(x)
    BY <2>3, TellSteps DEF NotOpened, At
  <2>4. CASE Cancelled(x)
    BY <2>4, TellSteps, GivenUp
  <2>5. CASE \/ Closed(x) \/ Removed(x) \/ Answered(x) \/ NotListed(x) \/ LockRefresh(x)
    BY <2>5, QuietSteps
  <2>6. CASE SessionFails(x)
    BY <2>6, FailStep
  <2>7. CASE Connect(x) \/ Register(x) \/ Reconnect(x) \/ Reconnected(x) \/ CleanedUp(x) \/ Listed(x)
    BY <2>7, ConnectStep, RegisterStep, ReconnectStep, ReconnectedStep, GivesUp, ListedStep
  <2> QED
    BY <1>2, <2>1, <2>2, <2>3, <2>4, <2>5, <2>6, <2>7 DEF Runs
<1>3. CASE \E x \in Request, s \in Server : AskRemove(x, s) \/ AskRefresh(x, s) \/ \E p \in Prefix : AskAdd(x, s, p)
  BY <1>3, AskSteps
<1>4. CASE \E x \in Request, n \in DOMAIN tool_map : CallTool(x, n)
  BY <1>4, CallSteps
<1>5. CASE \E o \in Owner : Entered(o) \/ Ready(o) \/ Stops(o) \/ Fails(o) \/ Expires(o)
  BY <1>5, OwnerSteps, WorldSteps
<1>6. CASE \E s \in Server, tools \in SUBSET McpTool : Republish(s, tools)
  BY <1>6, WorldSteps
<1>7. CASE \E c \in Conn : Closer(c)
  BY <1>7, CloserSteps
<1> QED
  BY <1>1, <1>2, <1>3, <1>4, <1>5, <1>6, <1>7 DEF McpNext

LEMMA ServersImply == McpInv => McpWhole
<1> SUFFICES ASSUME McpInv PROVE McpWhole
  OBVIOUS
<1>1. ASSUME NEW o \in Owner, Live(o)
      PROVE  conn[owner[o].conn].owner = o /\ Managed(owner[o].conn)
  <2> DEFINE c == owner[o].conn
  <2>1. c \in Conn /\ conn[c].owner = o /\ conn[c].srv \in Server /\ o # 0 /\ conn[c] \in ConnRec
    BY <1>1 DEF McpInv, McpTypes, OwnerGood, OwnerRec, NoOwner, Live, Owner
  <2> HIDE DEF c
  <2>2. ConnGood(c)
    BY <2>1 DEF McpInv
  <2>3. Managed(c)
    BY <2>1, <2>2 DEF ConnGood, Managed, Adding, ConnRec
  <2> QED
    BY <2>1, <2>3 DEF c
<1>2. SharedReconnect
  BY DEF McpInv, OwnerGood, SharedReconnect
<1>3. ASSUME NEW n \in DOMAIN tool_map
      PROVE  LET c == reg[tool_map[n]] IN c # 0 /\ (~InUse(c) => n \in Named(c, conn[c].tools))
  BY DEF McpInv, NamesGood, InUse, CalledIn, NamesOf, Named
<1> QED
  BY <1>1, <1>2, <1>3 DEF McpWhole, NoOrphan, NamesLead

(* No session is without a manager and none is given up that nobody blamed,    *)
(* and names lead to connected servers, whatever is replaced, cancelled,       *)
(* failing or reconnected at the same time (tools/mcp/manager.py).             *)
THEOREM ServersWhole == McpSpec => []McpWhole
BY ServersInit, ServersStep, ServersImply, PTL DEF McpSpec
=============================================================================
