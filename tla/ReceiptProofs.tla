--------------------------- MODULE ReceiptProofs ---------------------------
(***************************************************************************)
(* ParseHandleOpsReceipt, for bundles and receipts of any length: what the *)
(* watcher writes is what the EntryPoint reported.                         *)
(***************************************************************************)
EXTENDS ReceiptLogs, SequenceProofs, SequenceTheorems

-----------------------------------------------------------------------------
(* The loop over the logs.  FoldLeft recurs over sets of positions.        *)

NothingRead == [o \in Ops |-> NoOutcome]

(* h[s] is what the parser has after the logs at the positions in s.       *)
Reads(ls, n, h) ==
    h = [s \in SUBSET (1 .. n) |->
           IF s = {} THEN NothingRead ELSE ReadLog(h[s \ {Max(s)}], ls[Max(s)])]

LEMMA LastIsMax ==
    ASSUME NEW n \in Nat, NEW s \in SUBSET (1 .. (n + 1))
    PROVE  /\ n + 1 \in s => Max(s) = n + 1 /\ s \ {Max(s)} \in SUBSET (1 .. n)
           /\ n + 1 \notin s => s \in SUBSET (1 .. n)
<1>1. ASSUME n + 1 \in s PROVE Max(s) = n + 1
  <2>1. \A y \in s : n + 1 >= y
    OBVIOUS
  <2>2. \A x \in s : (\A y \in s : x >= y) => x = n + 1
    BY <1>1
  <2> QED
    BY <1>1, <2>1, <2>2 DEF Max
<1>2. \A y \in s : y # n + 1 => y \in 1 .. n
  OBVIOUS
<1> QED
  BY <1>1, <1>2

(* One more log.                                                           *)
LEMMA ReadsGrow ==
    ASSUME NEW n \in Nat, NEW ls, NEW g, Reads(ls, n, g)
    PROVE  \E h : Reads(ls, n + 1, h)
<1> DEFINE T == SUBSET (1 .. (n + 1))
           h == [s \in T |-> IF n + 1 \in s THEN ReadLog(g[s \ {n + 1}], ls[n + 1]) ELSE g[s]]
           value(s) == IF s = {} THEN NothingRead ELSE ReadLog(h[s \ {Max(s)}], ls[Max(s)])
<1>1. ASSUME NEW s \in T, n + 1 \in s PROVE h[s] = value(s)
  <2>1. Max(s) = n + 1 /\ s \ {n + 1} \in SUBSET (1 .. n) /\ s # {}
    BY <1>1, LastIsMax
  <2>2. s \ {n + 1} \in T /\ n + 1 \notin s \ {n + 1}
    OBVIOUS
  <2>3. h[s \ {n + 1}] = g[s \ {n + 1}]
    BY <2>2
  <2>4. h[s] = ReadLog(g[s \ {n + 1}], ls[n + 1])
    BY <1>1
  <2>5. value(s) = ReadLog(h[s \ {Max(s)}], ls[Max(s)])
    BY <2>1
  <2> HIDE DEF h, value
  <2> QED
    BY <2>1, <2>3, <2>4, <2>5
<1>2. ASSUME NEW s \in T, n + 1 \notin s PROVE h[s] = value(s)
  <2>1. s \in SUBSET (1 .. n) /\ h[s] = g[s]
    BY <1>2, LastIsMax
  <2>2. g[s] = IF s = {} THEN NothingRead ELSE ReadLog(g[s \ {Max(s)}], ls[Max(s)])
    BY <2>1 DEF Reads
  <2>3. s \ {Max(s)} \in T /\ n + 1 \notin s \ {Max(s)}
    BY <1>2
  <2>4. h[s \ {Max(s)}] = g[s \ {Max(s)}]
    BY <2>3
  <2>5. value(s) = IF s = {} THEN NothingRead ELSE ReadLog(h[s \ {Max(s)}], ls[Max(s)])
    OBVIOUS
  <2> HIDE DEF h, value
  <2> QED
    BY <2>1, <2>2, <2>4, <2>5
<1>3. \A s \in T : h[s] = value(s)
  BY <1>1, <1>2
<1>4. h = [s \in T |-> h[s]]
  OBVIOUS
<1>5. h = [s \in T |-> IF s = {} THEN NothingRead
                       ELSE ReadLog(h[s \ {Max(s)}], ls[Max(s)])]
  <2>1. \A s \in T : h[s] = IF s = {} THEN NothingRead
                            ELSE ReadLog(h[s \ {Max(s)}], ls[Max(s)])
    BY <1>3
  <2> HIDE DEF h, value
  <2> QED
    BY <1>4, <2>1
<1> HIDE DEF h
<1> QED
  BY <1>5 DEF Reads

LEMMA ReadsExists ==
    ASSUME NEW ls, NEW n \in Nat
    PROVE  \E h : Reads(ls, n, h)
<1> DEFINE T == {m \in Nat : \E h : Reads(ls, m, h)}
<1>1. 0 \in T
  <2> DEFINE h == [s \in SUBSET (1 .. 0) |-> NothingRead]
  <2>1. \A s \in SUBSET (1 .. 0) : s = {}
    OBVIOUS
  <2>2. h = [s \in SUBSET (1 .. 0) |-> IF s = {} THEN NothingRead
                                       ELSE ReadLog(h[s \ {Max(s)}], ls[Max(s)])]
    BY <2>1
  <2> HIDE DEF h
  <2>3. Reads(ls, 0, h)
    BY <2>2 DEF Reads
  <2> QED
    BY <2>3
<1>2. ASSUME NEW m \in T PROVE m + 1 \in T
  BY ReadsGrow
<1> HIDE DEF T
<1>3. T \in SUBSET Nat
  BY DEF T
<1>4. T = Nat
  BY <1>1, <1>2, <1>3, SetInduction
<1> QED
  BY <1>4 DEF T

(* Two readings agree on the logs they have in common.                     *)
LEMMA ReadsAgree ==
    ASSUME NEW n \in Nat, NEW ls, NEW g, Reads(ls, n, g),
           NEW m \in Nat, NEW us, NEW h, Reads(us, m, h),
           n <= m, \A i \in 1 .. n : ls[i] = us[i]
    PROVE  \A s \in SUBSET (1 .. n) : g[s] = h[s]
<1> DEFINE T == {k \in Nat : k <= n => \A s \in SUBSET (1 .. k) : g[s] = h[s]}
<1>0. ASSUME NEW s \in SUBSET (1 .. n)
      PROVE  /\ g[s] = IF s = {} THEN NothingRead ELSE ReadLog(g[s \ {Max(s)}], ls[Max(s)])
             /\ h[s] = IF s = {} THEN NothingRead ELSE ReadLog(h[s \ {Max(s)}], us[Max(s)])
  <2>1. s \in SUBSET (1 .. m)
    OBVIOUS
  <2> QED
    BY <2>1 DEF Reads
<1>1. 0 \in T
  <2>1. \A s \in SUBSET (1 .. 0) : s = {}
    OBVIOUS
  <2>2. {} \in SUBSET (1 .. n)
    OBVIOUS
  <2>3. g[{}] = h[{}]
    BY <1>0, <2>2
  <2> QED
    BY <2>1, <2>3
<1>2. ASSUME NEW k \in T PROVE k + 1 \in T
  <2> SUFFICES ASSUME k + 1 <= n, NEW s \in SUBSET (1 .. (k + 1)) PROVE g[s] = h[s]
    OBVIOUS
  <2>1. k \in Nat /\ \A u \in SUBSET (1 .. k) : g[u] = h[u]
    OBVIOUS
  <2>2. s \in SUBSET (1 .. n)
    OBVIOUS
  <2>3. CASE k + 1 \in s
    <3>1. Max(s) = k + 1 /\ s \ {Max(s)} \in SUBSET (1 .. k)
      BY <2>1, <2>3, LastIsMax
    <3>2. g[s \ {Max(s)}] = h[s \ {Max(s)}]
      BY <2>1, <3>1
    <3>3. ls[Max(s)] = us[Max(s)] /\ s # {}
      BY <2>1, <2>3, <3>1
    <3> QED
      BY <1>0, <2>2, <3>2, <3>3
  <2>4. CASE k + 1 \notin s
    <3>1. s \in SUBSET (1 .. k)
      BY <2>1, <2>4, LastIsMax
    <3> QED
      BY <2>1, <3>1
  <2> QED
    BY <2>3, <2>4
<1> HIDE DEF T
<1>3. T \in SUBSET Nat
  BY DEF T
<1>4. n \in T
  BY <1>1, <1>2, <1>3, SetInduction
<1> QED
  BY <1>4 DEF T

LEMMA ReadOneMore ==
    ASSUME NEW n \in Nat, NEW ls, NEW g, Reads(ls, n, g),
           NEW us, NEW h, Reads(us, n + 1, h), \A i \in 1 .. n : ls[i] = us[i]
    PROVE  h[1 .. (n + 1)] = ReadLog(g[1 .. n], us[n + 1])
<1> DEFINE all == 1 .. (n + 1)
<1>1. n + 1 \in Nat /\ n <= n + 1
  OBVIOUS
<1>2. \A s \in SUBSET (1 .. n) : g[s] = h[s]
  BY <1>1, ReadsAgree
<1>3. all \in SUBSET (1 .. (n + 1)) /\ n + 1 \in all
  OBVIOUS
<1>4. Max(all) = n + 1
  BY <1>3, LastIsMax
<1>5. all \ {n + 1} = 1 .. n
  OBVIOUS
<1>6. h[all] = IF all = {} THEN NothingRead ELSE ReadLog(h[all \ {Max(all)}], us[Max(all)])
  BY <1>3 DEF Reads
<1>7. g[1 .. n] = h[1 .. n]
  BY <1>2
<1> HIDE DEF all
<1>8. h[all] = ReadLog(g[1 .. n], us[n + 1])
  BY <1>3, <1>4, <1>5, <1>6, <1>7
<1> QED
  BY <1>8 DEF all

LEMMA ParseReads ==
    ASSUME NEW ls, IsSeq(ls)
    PROVE  \E h : /\ Reads(ls, Len(ls), h)
                  /\ ParseHandleOpsReceipt(ls) = h[1 .. Len(ls)]
<1>1. Len(ls) \in Nat /\ DOMAIN ls = 1 .. Len(ls)
  BY DEF IsSeq
<1> DEFINE f == CHOOSE h : Reads(ls, Len(ls), h)
<1>2. Reads(ls, Len(ls), f)
  <2>1. \E h : Reads(ls, Len(ls), h)
    BY <1>1, ReadsExists
  <2> QED
    BY <2>1
<1>3. ParseHandleOpsReceipt(ls) = f[1 .. Len(ls)]
  BY <1>1 DEF ParseHandleOpsReceipt, FoldLeft, MapThenFoldSet, Reads, NothingRead
<1> QED
  BY <1>2, <1>3

(* What the parser makes of nothing, and of a log more.                    *)
LEMMA ParseAppend ==
    ASSUME NEW ls, IsSeq(ls), NEW l
    PROVE  /\ IsSeq(Append(ls, l))
           /\ ParseHandleOpsReceipt(Append(ls, l)) = ReadLog(ParseHandleOpsReceipt(ls), l)
<1> DEFINE us == Append(ls, l)
           n == Len(ls)
<1>1. n \in Nat /\ ls \in Seq(Range(ls) \cup {l})
  BY DEF IsSeq
<1>2. us \in Seq(Range(ls) \cup {l}) /\ Len(us) = n + 1 /\ us[n + 1] = l
      /\ \A i \in 1 .. n : us[i] = ls[i]
  BY <1>1
<1>3. IsSeq(us)
  BY <1>2, AnySeq
<1> HIDE DEF us
<1>4. PICK g : Reads(ls, n, g) /\ ParseHandleOpsReceipt(ls) = g[1 .. n]
  BY ParseReads
<1>5. PICK h : Reads(us, Len(us), h) /\ ParseHandleOpsReceipt(us) = h[1 .. Len(us)]
  BY <1>3, ParseReads
<1> HIDE DEF n
<1>6. Reads(us, n + 1, h) /\ ParseHandleOpsReceipt(us) = h[1 .. (n + 1)]
  BY <1>2, <1>5
<1>7. h[1 .. (n + 1)] = ReadLog(g[1 .. n], us[n + 1])
  <2>1. n \in Nat /\ \A i \in 1 .. n : ls[i] = us[i]
    BY <1>1, <1>2
  <2>2. Reads(ls, n, g) /\ Reads(us, n + 1, h)
    BY <1>4, <1>6
  <2> QED
    BY <2>1, <2>2, ReadOneMore
<1> QED
  BY <1>2, <1>3, <1>4, <1>6, <1>7 DEF us

LEMMA ParseNothing == ParseHandleOpsReceipt(<<>>) = NothingRead
<1>1. IsSeq(<<>>) /\ Len(<<>>) = 0
  <2>1. <<>> \in Seq({})
    OBVIOUS
  <2> QED
    BY <2>1, AnySeq
<1>2. PICK h : Reads(<<>>, Len(<<>>), h) /\ ParseHandleOpsReceipt(<<>>) = h[1 .. Len(<<>>)]
  BY <1>1, ParseReads
<1>3. 1 .. 0 = {} /\ {} \in SUBSET (1 .. 0)
  OBVIOUS
<1>4. h[{}] = NothingRead
  BY <1>1, <1>2, <1>3 DEF Reads
<1> QED
  BY <1>1, <1>2, <1>3, <1>4

-----------------------------------------------------------------------------
(* The inductive invariant.                                                *)

Outcome == [found : BOOLEAN, success : BOOLEAN, reason : BOOLEAN]

(* The receipt so far: the parser's outcomes are those of the EntryPoint.  *)
ReceiptInv ==
    /\ IsSeq(logs)
    /\ ParseHandleOpsReceipt(logs) \in [Ops -> Outcome]
    /\ result \in [Ops -> Results \cup {"none"}]
    /\ OutcomesAreTruthful

LogsInv == ReceiptInv /\ todo \in Seq(Ops)

LEMMA LogsInitial == LogsInit => LogsInv
<1> SUFFICES ASSUME LogsInit PROVE LogsInv
  OBVIOUS
<1>1. ReceiptInv
  <2>1. IsSeq(<<>>)
    <3>1. <<>> \in Seq({})
      OBVIOUS
    <3> QED
      BY <3>1, AnySeq
  <2>2. ParseHandleOpsReceipt(logs) = NothingRead
    BY ParseNothing DEF LogsInit
  <2>3. NothingRead \in [Ops -> Outcome]
    BY DEF NothingRead, NoOutcome, Outcome
  <2>4. result \in [Ops -> Results \cup {"none"}] /\ \A o \in Ops : result[o] = "none"
    BY DEF LogsInit
  <2>5. \A o \in Ops : NothingRead[o].found = FALSE /\ NothingRead[o].success = FALSE
    BY DEF NothingRead, NoOutcome
  <2>6. OutcomesAreTruthful
    BY <2>2, <2>4, <2>5 DEF OutcomesAreTruthful
  <2> QED
    BY <2>1, <2>2, <2>3, <2>4, <2>6 DEF ReceiptInv, LogsInit
<1>2. todo \in Seq(Ops)
  <2>1. PICK S \in SUBSET Ops : IsFiniteSet(S) /\ todo \in SetToSeqs(S)
    BY DEF LogsInit
  <2>2. Cardinality(S) \in Nat
    BY <2>1, FS_CardinalityType
  <2>3. todo \in [1 .. Cardinality(S) -> S]
    BY <2>1 DEF SetToSeqs
  <2> QED
    BY <2>2, <2>3
<1> QED
  BY <1>1, <1>2 DEF LogsInv

(* A reason touches the outcome of its own operation only.                 *)
LEMMA ReasonIsLocal ==
    ASSUME NEW p \in [Ops -> Outcome], NEW o \in Ops, NEW l,
           l.address = "entryPoint", l.topic = "reason", l.op = o, Readable(l)
    PROVE  /\ ReadLog(p, l) \in [Ops -> Outcome]
           /\ \A q \in Ops \ {o} : ReadLog(p, l)[q] = p[q]
<1> DEFINE e == [found |-> TRUE, success |-> p[o].success, reason |-> TRUE]
<1>1. ReadLog(p, l) = [p EXCEPT ![o] = e]
  BY DEF ReadLog, OutcomeOf
<1>2. e \in Outcome
  BY DEF Outcome
<1> HIDE DEF e
<1> QED
  BY <1>1, <1>2


LEMMA ConcatIsAppend ==
    ASSUME NEW ls, IsSeq(ls), NEW a, NEW b
    PROVE  /\ ls \o <<a>> = Append(ls, a)
           /\ ls \o <<a, b>> = Append(Append(ls, a), b)
<1> DEFINE S == Range(ls) \cup {a, b}
           x == <<a>>
           y == <<a, b>>
           n == Len(ls)
<1>1. ls \in Seq(S) /\ a \in S /\ b \in S /\ n \in Nat
  BY DEF IsSeq
<1>2. x \in Seq(S) /\ Len(x) = 1 /\ x[1] = a
  OBVIOUS
<1>3. y \in Seq(S) /\ Len(y) = 2 /\ y[1] = a /\ y[2] = b
  OBVIOUS
<1> DEFINE s == Append(ls, a)
           t == Append(s, b)
<1>6. s \in Seq(S) /\ Len(s) = n + 1 /\ s[n + 1] = a /\ \A i \in 1 .. n : s[i] = ls[i]
  BY <1>1, AppendProperties
<1> HIDE DEF S, x, y, s, n
<1>7. t \in Seq(S) /\ Len(t) = n + 2 /\ t[n + 2] = b /\ \A i \in 1 .. (n + 1) : t[i] = s[i]
  <2>1. t \in Seq(S) /\ Len(t) = Len(s) + 1 /\ t[Len(s) + 1] = b
        /\ \A i \in 1 .. Len(s) : t[i] = s[i]
    BY <1>1, <1>6, AppendProperties
  <2> HIDE DEF t
  <2>2. (n + 1) + 1 = n + 2
    BY <1>1
  <2> QED
    BY <1>6, <2>1, <2>2
<1> HIDE DEF t
<1>8. ASSUME NEW z \in Seq(S)
      PROVE  /\ ls \o z \in Seq(S) /\ Len(ls \o z) = n + Len(z)
             /\ \A i \in 1 .. (n + Len(z)) : (ls \o z)[i] = IF i <= n THEN ls[i] ELSE z[i - n]
  BY <1>1, ConcatProperties DEF n
<1>4. ls \o x = s
  <2> DEFINE u == ls \o x
  <2>1. u \in Seq(S) /\ Len(u) = n + Len(x)
        /\ \A i \in 1 .. (n + Len(x)) : u[i] = IF i <= n THEN ls[i] ELSE x[i - n]
    BY <1>2, <1>8
  <2> HIDE DEF u
  <2>2. Len(u) = n + 1 /\ \A i \in 1 .. (n + 1) : u[i] = IF i <= n THEN ls[i] ELSE a
    BY <1>1, <1>2, <2>1
  <2>3. \A i \in 1 .. (n + 1) : u[i] = s[i]
    BY <1>1, <1>6, <2>2
  <2>4. u = s
    BY <1>1, <1>6, <2>1, <2>2, <2>3, SeqEqual
  <2> QED
    BY <2>4 DEF u
<1>5. ls \o y = t
  <2> DEFINE u == ls \o y
  <2>1. u \in Seq(S) /\ Len(u) = n + Len(y)
        /\ \A i \in 1 .. (n + Len(y)) : u[i] = IF i <= n THEN ls[i] ELSE y[i - n]
    BY <1>3, <1>8
  <2> HIDE DEF u
  <2>2. Len(u) = n + 2 /\ \A i \in 1 .. n : u[i] = ls[i]
    BY <1>1, <1>3, <2>1
  <2>3. u[n + 1] = a /\ u[n + 2] = b
    BY <1>1, <1>3, <2>1
  <2>4. \A i \in 1 .. (n + 2) : u[i] = t[i]
    BY <1>1, <1>6, <1>7, <2>2, <2>3
  <2>5. u = t
    BY <1>1, <1>7, <2>1, <2>2, <2>4, SeqEqual
  <2> QED
    BY <2>5 DEF u
<1> QED
  BY <1>4, <1>5 DEF x, y, s, t

LEMMA ReceiptExecute ==
    ASSUME ReceiptInv, todo \in Seq(Ops), ExecuteOp
    PROVE  ReceiptInv'
<1> DEFINE p == ParseHandleOpsReceipt(logs)
           o == Head(todo)
<1>1. o \in Ops
  BY DEF ExecuteOp
<1>2. IsSeq(logs) /\ p \in [Ops -> Outcome] /\ result \in [Ops -> Results \cup {"none"}]
  BY DEF ReceiptInv
<1>3. \A q \in Ops : (p[q].found <=> result[q] # "none") /\ (p[q].success <=> result[q] = "ok")
  BY DEF ReceiptInv, OutcomesAreTruthful
<1>4. PICK r \in Results : result' = [result EXCEPT ![o] = r] /\ logs' = logs \o Emits(o, r)
  BY DEF ExecuteOp
<1> DEFINE event == EventLog(o, r = "ok")
           reason == ReasonLog(o)
           p2 == ParseHandleOpsReceipt(logs')
<1> HIDE DEF o, p
<1>5. /\ event.address = "entryPoint" /\ event.topic = "event" /\ event.op = o
      /\ event.success \in BOOLEAN /\ (event.success <=> r = "ok")
  BY Zenon DEF EventLog
<1>6. reason.address = "entryPoint" /\ reason.topic = "reason" /\ reason.op = o
  BY DEF ReasonLog
<1>0. Readable(event) /\ Readable(reason)
  BY DEF Readable, EventLog, ReasonLog
<1>7. Emits(o, r) = IF r = "failedWithReason" THEN <<reason, event>> ELSE <<event>>
  BY DEF Emits
<1> HIDE DEF event, reason
<1>8. IsSeq(logs') /\ \E b \in [Ops -> Outcome] :
          /\ \A q \in Ops \ {o} : b[q] = p[q]
          /\ p2 = ReadLog(b, event)
  <2>1. CASE r = "failedWithReason"
    <3>1. logs' = Append(Append(logs, reason), event)
      BY <1>2, <1>4, <1>7, <2>1, ConcatIsAppend
    <3>2. IsSeq(Append(logs, reason)) /\ ParseHandleOpsReceipt(Append(logs, reason)) = ReadLog(p, reason)
      BY <1>2, ParseAppend DEF p
    <3>3. IsSeq(logs') /\ p2 = ReadLog(ReadLog(p, reason), event)
      BY <3>1, <3>2, ParseAppend
    <3>4. /\ ReadLog(p, reason) \in [Ops -> Outcome]
          /\ \A q \in Ops \ {o} : ReadLog(p, reason)[q] = p[q]
      BY <1>0, <1>1, <1>2, <1>6, ReasonIsLocal
    <3> QED
      BY <3>3, <3>4
  <2>2. CASE r # "failedWithReason"
    <3>1. logs' = Append(logs, event)
      BY <1>2, <1>4, <1>7, <2>2, ConcatIsAppend
    <3>2. IsSeq(logs') /\ p2 = ReadLog(p, event)
      BY <1>2, <3>1, ParseAppend DEF p
    <3> QED
      BY <1>2, <3>2
  <2> QED
    BY <2>1, <2>2
<1>9. PICK b \in [Ops -> Outcome] : (\A q \in Ops \ {o} : b[q] = p[q]) /\ p2 = ReadLog(b, event)
  BY <1>8
(* The event of an operation settles its outcome, whatever came before.    *)
<1>10. /\ p2 \in [Ops -> Outcome] /\ p2[o].found = TRUE /\ p2[o].success = event.success
       /\ \A q \in Ops \ {o} : p2[q] = b[q]
  <2> DEFINE e == [found |-> TRUE, success |-> event.success, reason |-> FALSE]
  <2>1. event.success \in BOOLEAN
    BY <1>5
  <2>2. p2 = [b EXCEPT ![o] = e]
    BY <1>0, <1>5, <1>9 DEF ReadLog, OutcomeOf
  <2>3. e \in Outcome /\ e.found = TRUE /\ e.success = event.success
    BY <2>1 DEF Outcome
  <2> HIDE DEF e, p2
  <2> QED
    BY <1>1, <2>2, <2>3
<1>11. /\ result' \in [Ops -> Results \cup {"none"}] /\ result'[o] = r
       /\ \A q \in Ops \ {o} : result'[q] = result[q]
  BY <1>1, <1>2, <1>4
<1> HIDE DEF p2
<1>12. r # "none"
  BY DEF Results
<1>13. ASSUME NEW q \in Ops
       PROVE  (p2[q].found <=> result'[q] # "none") /\ (p2[q].success <=> result'[q] = "ok")
  <2>1. CASE q = o
    BY <1>5, <1>10, <1>11, <1>12, <2>1, Zenon
  <2>2. CASE q # o
    <3>1. p2[q] = p[q] /\ result'[q] = result[q]
      BY <1>9, <1>10, <1>11, <2>2
    <3> QED
      BY <1>3, <3>1, Zenon
  <2> QED
    BY <2>1, <2>2
<1> QED
  BY <1>8, <1>10, <1>11, <1>13 DEF ReceiptInv, OutcomesAreTruthful, p2

LEMMA ReceiptOther ==
    ASSUME ReceiptInv, OtherLog
    PROVE  ReceiptInv'
<1>1. PICK l \in Logs({"other"}, {"event", "reason", "other"}) \cup Logs({"entryPoint"}, {"other"}) :
          logs' = Append(logs, l)
  BY DEF OtherLog
<1>2. ~ (l.address = "entryPoint" /\ Readable(l))
  BY DEF Logs, Readable
<1>3. IsSeq(logs') /\ ParseHandleOpsReceipt(logs') = ReadLog(ParseHandleOpsReceipt(logs), l)
  BY <1>1, ParseAppend DEF ReceiptInv
<1>4. ParseHandleOpsReceipt(logs') = ParseHandleOpsReceipt(logs)
  BY <1>2, <1>3 DEF ReadLog
<1>5. result' = result
  BY DEF OtherLog
<1> QED
  BY <1>3, <1>4, <1>5 DEF ReceiptInv, OutcomesAreTruthful

LEMMA LogsStep == LogsInv /\ [LogsNext]_logVars => LogsInv'
<1> SUFFICES ASSUME ReceiptInv, todo \in Seq(Ops), [LogsNext]_logVars PROVE LogsInv'
  BY DEF LogsInv
<1>1. CASE OtherLog
  BY <1>1, ReceiptOther DEF LogsInv, OtherLog
<1>2. CASE ExecuteOp
  <2>1. todo' \in Seq(Ops)
    BY <1>2 DEF ExecuteOp
  <2> QED
    BY <1>2, <2>1, ReceiptExecute DEF LogsInv
<1>3. CASE UNCHANGED logVars
  BY <1>3 DEF LogsInv, logVars, ReceiptInv, OutcomesAreTruthful
<1> QED
  BY <1>1, <1>2, <1>3 DEF LogsNext

LEMMA LogsInvariant == LogsSpec => []LogsInv
BY LogsInitial, LogsStep, PTL DEF LogsSpec

(* However many operations the bundle has and whatever other contracts log *)
(* between them, the parser's outcomes are those the EntryPoint reported.  *)
THEOREM OutcomesHold == LogsSpec => []OutcomesAreTruthful
<1>1. LogsInv => OutcomesAreTruthful
  BY DEF LogsInv, ReceiptInv
<1> QED
  BY <1>1, LogsInvariant, PTL
=============================================================================
