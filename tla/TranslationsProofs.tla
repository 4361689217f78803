-------------------------- MODULE TranslationsProofs --------------------------
(***************************************************************************)
(* Proofs about translations and images.  The limiter of DeepL requests    *)
(* loses no slot and hands none out twice, and a broadcast sends every     *)
(* locale the translation of its own text, for every number of handlers,   *)
(* broadcasts, locales and slots.  Rows and galleries show no image that   *)
(* is not in the store, for any number of requests.                        *)
(***************************************************************************)
EXTENDS Translations, Images, FiniteSetTheorems, SequenceTheorems, TLAPS

-----------------------------------------------------------------------------
(* Queues without repetition                                               *)

\* The queue s holds each element of S once.
Lists(s, S) ==
    /\ {s[i] : i \in 1..Len(s)} = S
    /\ \A i, k \in 1..Len(s) : s[i] = s[k] => i = k

\* An empty queue lists nobody.
LEMMA ListsNone == Lists(<<>>, {})
  BY DEF Lists

\* A queue is empty if it lists nothing, and as long as its set is large.
LEMMA ListsLength ==
    ASSUME NEW T, NEW s \in Seq(T), NEW S, Lists(s, S)
    PROVE  /\ Len(s) = Cardinality(S) /\ IsFiniteSet(S)
           /\ s = <<>> <=> S = {}
<1>1. Len(s) \in Nat /\ s \in [1..Len(s) -> T]
  BY LenProperties
<1>2. s \in Bijection(1..Len(s), S)
  BY <1>1 DEF Lists, Bijection, Injection, Surjection, IsInjective
<1>3. IsFiniteSet(1..Len(s)) /\ Cardinality(1..Len(s)) = Len(s)
  BY <1>1, FS_Interval
<1>4. IsFiniteSet(S) /\ Cardinality(S) = Len(s)
  BY <1>2, <1>3, FS_Bijection DEF ExistsBijection
<1>5. s = <<>> <=> Len(s) = 0
  BY <1>1, EmptySeq
<1>6. S = {} <=> Cardinality(S) = 0
  BY <1>4, FS_EmptySet
<1> QED
  BY <1>4, <1>5, <1>6

\* Who joins a queue is listed once.
LEMMA ListsAppend ==
    ASSUME NEW T, NEW s \in Seq(T), NEW S, Lists(s, S), NEW x \in T \ S
    PROVE  Lists(Append(s, x), S \cup {x})
<1>1. /\ Len(s) \in Nat
      /\ Len(Append(s, x)) = Len(s) + 1
      /\ \A i \in 1..Len(s) : Append(s, x)[i] = s[i] /\ s[i] # x
      /\ Append(s, x)[Len(s) + 1] = x
  BY AppendProperties, LenProperties DEF Lists
<1>2. 1..Len(Append(s, x)) = 1..Len(s) \cup {Len(s) + 1}
  BY <1>1
<1> QED
  BY <1>1, <1>2 DEF Lists

\* The head of a queue leaves it.
LEMMA ListsTail ==
    ASSUME NEW T, NEW s \in Seq(T), NEW S, Lists(s, S), s # <<>>
    PROVE  Head(s) \in S /\ Lists(Tail(s), S \ {Head(s)})
<1>1. /\ Len(s) \in Nat \ {0}
      /\ Len(Tail(s)) = Len(s) - 1
      /\ \A i \in 1..Len(s) - 1 : Tail(s)[i] = s[i + 1]
  BY HeadTailProperties, EmptySeq
<1>2. Head(s) = s[1]
  OBVIOUS
<1>3. Head(s) \in S
  BY <1>1, <1>2 DEF Lists
<1>4. {Tail(s)[i] : i \in 1..Len(Tail(s))} = S \ {Head(s)}
  <2>1. ASSUME NEW i \in 1..Len(s) - 1 PROVE Tail(s)[i] \in S \ {Head(s)}
    <3>1. i + 1 \in 1..Len(s) /\ i + 1 # 1 /\ 1 \in 1..Len(s)
      BY <1>1
    <3> QED
      BY <1>1, <1>2, <3>1 DEF Lists
  <2>2. ASSUME NEW x \in S \ {Head(s)} PROVE \E i \in 1..Len(s) - 1 : x = Tail(s)[i]
    <3>1. PICK k \in 1..Len(s) : x = s[k]
      BY DEF Lists
    <3>2. k - 1 \in 1..Len(s) - 1 /\ (k - 1) + 1 = k
      BY <1>1, <1>2, <3>1
    <3> QED
      BY <1>1, <3>1, <3>2
  <2> QED
    BY <1>1, <2>1, <2>2
<1>5. ASSUME NEW i \in 1..Len(Tail(s)), NEW k \in 1..Len(Tail(s)), Tail(s)[i] = Tail(s)[k]
      PROVE  i = k
  <2>1. i + 1 \in 1..Len(s) /\ k + 1 \in 1..Len(s) /\ s[i + 1] = s[k + 1]
    BY <1>1, <1>5
  <2> QED
    BY <2>1 DEF Lists
<1> QED
  BY <1>3, <1>4, <1>5 DEF Lists

\* Two queues about different waiters, one behind the other.
LEMMA ListsConcat ==
    ASSUME NEW T, NEW s \in Seq(T), NEW u \in Seq(T), NEW S, NEW U,
           Lists(s, S), Lists(u, U), S \cap U = {}
    PROVE  Lists(s \o u, S \cup U)
<1>1. /\ Len(s) \in Nat /\ Len(u) \in Nat
      /\ Len(s \o u) = Len(s) + Len(u)
      /\ \A i \in 1..Len(s) + Len(u) :
            (s \o u)[i] = IF i <= Len(s) THEN s[i] ELSE u[i - Len(s)]
  BY ConcatProperties, LenProperties
<1> DEFINE n == Len(s)
           m == Len(u)
           c == s \o u
<1>2. /\ \A i \in 1..n : i \in 1..n + m /\ c[i] = s[i]
      /\ \A i \in 1..m : n + i \in 1..n + m /\ c[n + i] = u[i]
      /\ \A i \in 1..n + m : i \in 1..n \/ (i - n \in 1..m /\ i = n + (i - n))
      /\ \A i \in 1..n + m, k \in 1..n + m : i - n = k - n => i = k
  BY <1>1
<1> HIDE DEF n, m, c
<1>3. {c[i] : i \in 1..n + m} = {s[i] : i \in 1..n} \cup {u[i] : i \in 1..m}
  <2>1. \A i \in 1..n + m : c[i] \in {s[k] : k \in 1..n} \cup {u[k] : k \in 1..m}
    BY <1>2
  <2>2. \A i \in 1..n : s[i] \in {c[k] : k \in 1..n + m}
    BY <1>2
  <2>3. \A i \in 1..m : u[i] \in {c[k] : k \in 1..n + m}
    BY <1>2
  <2> QED
    BY <2>1, <2>2, <2>3
<1>4. ASSUME NEW i \in 1..n + m, NEW k \in 1..n + m, c[i] = c[k]
      PROVE  i = k
  <2>1. CASE i \in 1..n /\ k \in 1..n
    BY <1>2, <1>4, <2>1 DEF Lists, n
  <2>2. CASE i - n \in 1..m /\ k - n \in 1..m
    <3>1. c[i] = u[i - n] /\ c[k] = u[k - n]
      <4>1. n + (i - n) = i /\ n + (k - n) = k
        BY <1>1, <2>2 DEF n
      <4> QED
        BY <1>2, <2>2, <4>1
    <3>2. i - n = k - n
      BY <1>4, <2>2, <3>1 DEF Lists, m
    <3> QED
      BY <1>2, <3>2
  <2>3. ASSUME NEW p \in 1..n, NEW q \in 1..m PROVE s[p] # u[q]
    <3>1. s[p] \in S /\ u[q] \in U
      BY DEF Lists, n, m
    <3> QED
      BY <3>1
  <2> QED
    BY <1>2, <1>4, <2>1, <2>2, <2>3
<1> QED
  BY <1>1, <1>3, <1>4 DEF Lists, n, m, c

\* The first n of a queue, and what remains when they have been served.
FirstOf(s, n) == {s[i] : i \in 1..n}

\* A queue whose first n have left.
LEMMA ListsRest ==
    ASSUME NEW T, NEW s \in Seq(T), NEW S, Lists(s, S), NEW n \in 0..Len(s)
    PROVE  /\ Cardinality(FirstOf(s, n)) = n /\ FirstOf(s, n) \subseteq S
           /\ SubSeq(s, n + 1, Len(s)) \in Seq(T)
           /\ Lists(SubSeq(s, n + 1, Len(s)), S \ FirstOf(s, n))
<1> DEFINE first == {s[i] : i \in 1..n}
           m == Len(s) - n
           r == SubSeq(s, n + 1, Len(s))
<1>1. Len(s) \in Nat /\ n \in Nat /\ n <= Len(s) /\ m \in Nat /\ s \in [1..Len(s) -> T]
  BY LenProperties
<1>2. \A i \in 1..n : i \in 1..Len(s)
  BY <1>1
<1>3. /\ r \in Seq(T) /\ Len(r) = m
      /\ \A i \in 1..m : r[i] = s[n + i] /\ n + i \in 1..Len(s) /\ n + i \notin 1..n
  <2>1. \A i \in n + 1..Len(s) : s[i] \in T
    BY <1>1
  <2>2. /\ r \in Seq(T)
        /\ Len(r) = IF n + 1 <= Len(s) THEN Len(s) - (n + 1) + 1 ELSE 0
        /\ \A i \in 1..Len(s) - (n + 1) + 1 : r[i] = s[(n + 1) + i - 1]
    BY <1>1, <2>1, SubSeqProperties
  <2>3. Len(r) = m
    <3>1. CASE n = Len(s)
      BY <1>1, <2>2, <3>1
    <3>2. CASE n # Len(s)
      <4>1. n + 1 <= Len(s) /\ Len(s) - (n + 1) + 1 = Len(s) - n
        <5>1. \A i, k \in Nat : i <= k /\ i # k => i + 1 <= k
          OBVIOUS
        <5>2. \A i, k \in Nat : k - (i + 1) + 1 = k - i
          OBVIOUS
        <5> QED
          BY <1>1, <3>2, <5>1, <5>2
      <4> QED
        BY <2>2, <4>1
    <3> QED
      BY <3>1, <3>2
  <2>4. ASSUME NEW i \in 1..m
        PROVE  r[i] = s[n + i] /\ n + i \in 1..Len(s) /\ n + i \notin 1..n
    <3>1. i \in 1..Len(s) - (n + 1) + 1 /\ (n + 1) + i - 1 = n + i
      BY <1>1
    <3>2. r[i] = s[(n + 1) + i - 1]
      BY <2>2, <3>1
    <3>3. r[i] = s[n + i]
      BY <3>1, <3>2
    <3> QED
      BY <1>1, <3>3
  <2> QED
    BY <2>2, <2>3, <2>4
<1>4. Cardinality(first) = n
  <2>1. SubSeq(s, 1, n) \in Seq(T) /\ Len(SubSeq(s, 1, n)) = n
        /\ \A i \in 1..n : SubSeq(s, 1, n)[i] = s[i]
    <3>1. \A i \in 1..n : s[i] \in T
      BY <1>1
    <3>2. /\ SubSeq(s, 1, n) \in Seq(T)
          /\ Len(SubSeq(s, 1, n)) = IF 1 <= n THEN n - 1 + 1 ELSE 0
          /\ \A i \in 1..n - 1 + 1 : SubSeq(s, 1, n)[i] = s[1 + i - 1]
      BY <1>1, <3>1, SubSeqProperties
    <3> QED
      BY <1>1, <3>2
  <2>2. Lists(SubSeq(s, 1, n), first)
    BY <1>2, <2>1 DEF Lists
  <2> QED
    BY <2>1, <2>2, ListsLength
<1>5. \A i \in 1..Len(s) : i \in 1..n \/ (i - n \in 1..m /\ n + (i - n) = i)
  BY <1>1
<1> HIDE DEF m, r, first
<1>6. {r[i] : i \in 1..m} = S \ first
  <2>1. \A i \in 1..m : r[i] \in S \ first
    BY <1>2, <1>3 DEF Lists, first
  <2>2. ASSUME NEW x \in S \ first PROVE \E i \in 1..m : r[i] = x
    <3>1. PICK k \in 1..Len(s) : x = s[k]
      BY DEF Lists
    <3>2. k \notin 1..n
      BY <3>1 DEF first
    <3> QED
      BY <1>3, <1>5, <3>1, <3>2
  <2> QED
    BY <2>1, <2>2
<1>7. ASSUME NEW i \in 1..m, NEW k \in 1..m, r[i] = r[k] PROVE i = k
  <2>1. n + i = n + k
    BY <1>3, <1>7 DEF Lists
  <2> QED
    BY <1>1, <2>1
<1>8. first \subseteq S /\ first = FirstOf(s, n)
  BY <1>2 DEF Lists, first, FirstOf
<1> QED
  BY <1>3, <1>4, <1>6, <1>7, <1>8 DEF Lists, r

-----------------------------------------------------------------------------
(* The inductive invariant                                                 *)

Holding(p) == {t \in Tasks : ProcessOf(t) = p /\ task[t].pc \in {"call", "write"}}
Queued(p) == {t \in Tasks : ProcessOf(t) = p /\ task[t].pc = "wait"}

\* The limiter of a process counts those that hold a slot; each waiting task is
\* queued once, and none while a slot is free.
SlotsOf(p) ==
    /\ running[p] = Cardinality(Holding(p))
    /\ Lists(waiting[p], Queued(p))
    /\ waiting[p] # <<>> => running[p] = Limit

SlotInv == \A p \in Process : SlotsOf(p)

\* The tasks of a broadcast follow it, and work on its text and their locale.
Follows(b) ==
    \A l \in Locales :
        /\ broadcast[b].pc = "idle" => task[<<b, l>>].pc = "idle"
        /\ broadcast[b].pc = "check" => task[<<b, l>>].pc \in {"check", "ready", "done"}
        /\ task[<<b, l>>].pc # "idle" => /\ task[<<b, l>>].job.text = broadcast[b].text
                                        /\ task[<<b, l>>].job.locale = l

PhaseInv == \A b \in Broadcasts : Follows(b)

\* What a broadcast has translated is in its row, then in its copy.
Copied(b) ==
    \A l \in Locales :
        /\ task[<<b, l>>].pc = "done" => row[l] = broadcast[b].text
        /\ broadcast[b].pc = "translate" /\ task[<<b, l>>].pc = "idle" =>
              broadcast[b].sent[l] = broadcast[b].text

CopyInv == \A b \in Broadcasts \ disturbed : Copied(b)

-----------------------------------------------------------------------------
(* Tasks and slots                                                         *)

TaskStates == [pc : Pc, job : Job, retries : 0..MaxRetries]
TaskTypeOK ==
    /\ task \in [Tasks -> TaskStates]
    /\ running \in [Process -> 0..Limit]
    /\ waiting \in [Process -> Seq(Tasks)]

\* Tasks are finitely many: those of the queue and those of broadcasts.
LEMMA TaskFacts ==
    /\ IsFiniteSet(Tasks)
    /\ \A t \in Tasks : ProcessOf(t) \in Process
    /\ \A b \in Broadcasts, l \in Locales :
          <<b, l>> \in Tasks /\ <<b, l>> \notin Workers /\ ProcessOf(<<b, l>>) = "core"
    /\ \A t \in Tasks : t \in Workers \/ (\E b \in Broadcasts, l \in Locales : t = <<b, l>>)
<1>1. IsFiniteSet(Broadcasts \X Locales)
  BY TranslationsAssumption, FS_Product
<1>2. IsFiniteSet(Tasks)
  BY <1>1, TranslationsAssumption, FS_Union DEF Tasks
<1> QED
  BY <1>2, TranslationsAssumption DEF Tasks, ProcessOf, Process

\* Tasks, readers and broadcasts that do nothing are well typed.
LEMMA IdleIsTyped ==
    ASSUME Texts # {}
    PROVE  /\ Idle \in TaskStates /\ Idle.pc = "idle"
           /\ NoRead \in [pc : {"idle", "look"}, locale : Locales, text : Texts]
           /\ NoBroadcast \in [pc : {"idle", "check", "translate"}, text : Texts,
                               sent : [Locales -> Texts \cup {Source, Manual}]]
           /\ NoBroadcast.pc = "idle"
<1>1. (CHOOSE t \in Texts : TRUE) \in Texts /\ (CHOOSE l \in Locales : TRUE) \in Locales
  BY TranslationsAssumption
<1> QED
  BY <1>1, TranslationsAssumption DEF Idle, NoRead, NoBroadcast, TaskStates, Job, Pc

\* The tasks with a slot and those that wait for one are finitely many.
LEMMA SlotFacts ==
    ASSUME TaskTypeOK, NEW p \in Process
    PROVE  /\ IsFiniteSet(Holding(p)) /\ IsFiniteSet(Queued(p))
           /\ Cardinality(Holding(p)) \in Nat
<1>1. Holding(p) \in SUBSET Tasks /\ Queued(p) \in SUBSET Tasks
  BY DEF Holding, Queued
<1> QED
  BY <1>1, TaskFacts, FS_Subset, FS_CardinalityType

\* A process none of whose tasks takes, leaves or awaits a slot keeps its slots.
LEMMA SlotsUndisturbed ==
    ASSUME NEW p \in Process, SlotsOf(p),
           running'[p] = running[p], waiting'[p] = waiting[p],
           \A t \in Tasks : ProcessOf(t) = p =>
              /\ task'[t].pc \in {"call", "write"} <=> task[t].pc \in {"call", "write"}
              /\ task'[t].pc = "wait" <=> task[t].pc = "wait"
    PROVE  SlotsOf(p)'
<1>1. Holding(p)' = Holding(p) /\ Queued(p)' = Queued(p)
  BY DEF Holding, Queued
<1> QED
  BY <1>1 DEF SlotsOf

\* A slot that is given back is free, or goes to the task queued longest.
LEMMA ReleaseKeepsSlots ==
    ASSUME TaskTypeOK, SlotInv, NEW t \in Tasks, task[t].pc \in {"call", "write"},
           NEW x \in TaskStates, x.pc \in {"idle", "done"},
           Leave(t, x), Release(t)
    PROVE  /\ TaskTypeOK' /\ SlotInv'
           /\ task'[t] = x
           /\ \A u \in Tasks \ {t} :
                 \/ task'[u] = task[u]
                 \/ task[u].pc = "wait" /\ task'[u].pc = "call" /\ task'[u].job = task[u].job
<1> DEFINE p == ProcessOf(t)
           h == Head(waiting[p])
<1>1. p \in Process /\ t \in Holding(p)
  BY TaskFacts DEF Holding
<1>2. SlotsOf(p) /\ waiting[p] \in Seq(Tasks) /\ running[p] \in 0..Limit
  BY <1>1 DEF SlotInv, TaskTypeOK
<1>3. IsFiniteSet(Holding(p)) /\ Cardinality(Holding(p)) \in Nat
  BY <1>1, SlotFacts
<1>4. running[p] >= 1 /\ Cardinality(Holding(p) \ {t}) = running[p] - 1
      /\ IsFiniteSet(Holding(p) \ {t})
  <2>1. Cardinality(Holding(p) \ {t}) = Cardinality(Holding(p)) - 1 /\ IsFiniteSet(Holding(p) \ {t})
    BY <1>1, <1>3, FS_RemoveElement
  <2>2. Cardinality(Holding(p) \ {t}) \in Nat
    BY <2>1, FS_CardinalityType
  <2> QED
    BY <1>2, <1>3, <2>1, <2>2 DEF SlotsOf
<1>5. /\ running' = [running EXCEPT ![p] = IF waiting[p] = <<>> THEN @ - 1 ELSE @]
      /\ waiting' = [waiting EXCEPT ![p] = IF @ = <<>> THEN @ ELSE Tail(@)]
      /\ task' = [u \in Tasks |->
                    IF u = t THEN x
                    ELSE IF waiting[p] # <<>> /\ u = h THEN [task[u] EXCEPT !.pc = "call"]
                    ELSE task[u]]
  BY DEF Release, Leave
<1> HIDE DEF p, h
<1>6. waiting[p] # <<>> => /\ h \in Queued(p) /\ Lists(Tail(waiting[p]), Queued(p) \ {h})
                           /\ h \in Tasks /\ task[h].pc = "wait" /\ h # t /\ ProcessOf(h) = p
                           /\ Tail(waiting[p]) \in Seq(Tasks)
  <2> SUFFICES ASSUME waiting[p] # <<>>
               PROVE  /\ h \in Queued(p) /\ Lists(Tail(waiting[p]), Queued(p) \ {h})
                      /\ h \in Tasks /\ task[h].pc = "wait" /\ h # t /\ ProcessOf(h) = p
                      /\ Tail(waiting[p]) \in Seq(Tasks)
    OBVIOUS
  <2>1. Lists(waiting[p], Queued(p))
    BY <1>2 DEF SlotsOf
  <2>2. h \in Queued(p) /\ Lists(Tail(waiting[p]), Queued(p) \ {h})
    BY <1>2, <2>1, ListsTail DEF h
  <2>3. Tail(waiting[p]) \in Seq(Tasks)
    BY <1>2, HeadTailProperties
  <2>4. h \in Tasks /\ task[h].pc = "wait" /\ ProcessOf(h) = p
    BY <2>2 DEF Queued
  <2> QED
    BY <2>2, <2>3, <2>4
<1>7. \A q \in Process \ {p} : running'[q] = running[q] /\ waiting'[q] = waiting[q]
  BY <1>5 DEF TaskTypeOK
<1>8. /\ task'[t] = x
      /\ \A u \in Tasks \ {t} : \/ task'[u] = task[u] /\ (waiting[p] = <<>> \/ u # h)
                                \/ /\ waiting[p] # <<>> /\ u = h
                                   /\ task'[u] = [task[u] EXCEPT !.pc = "call"]
  BY <1>5
<1>9. \A u \in Tasks : task[u] \in TaskStates
  BY DEF TaskTypeOK
<1>10. \A u \in Tasks \ {t} :
          \/ task'[u] = task[u] /\ (waiting[p] = <<>> \/ u # h)
          \/ /\ waiting[p] # <<>> /\ u = h
             /\ task'[u].pc = "call" /\ task'[u].job = task[u].job /\ task'[u] \in TaskStates
  <2>1. ASSUME NEW u \in Tasks, task'[u] = [task[u] EXCEPT !.pc = "call"]
        PROVE  task'[u].pc = "call" /\ task'[u].job = task[u].job /\ task'[u] \in TaskStates
    <3>1. task[u] \in [pc : Pc, job : Job, retries : 0..MaxRetries]
      BY <1>9 DEF TaskStates
    <3> QED
      BY <2>1, <3>1 DEF TaskStates, Pc
  <2> QED
    BY <1>8, <2>1
<1>11. TaskTypeOK'
  <2>1. \A u \in Tasks : task'[u] \in TaskStates
    BY <1>8, <1>9, <1>10
  <2>2. task' \in [Tasks -> TaskStates]
    BY <1>5, <2>1
  <2>3. running' \in [Process -> 0..Limit]
    BY <1>1, <1>2, <1>4, <1>5, TranslationsAssumption DEF TaskTypeOK
  <2>4. waiting' \in [Process -> Seq(Tasks)]
    BY <1>1, <1>5, <1>6 DEF TaskTypeOK
  <2> QED
    BY <2>2, <2>3, <2>4 DEF TaskTypeOK
<1>12. SlotsOf(p)'
  <2>1. CASE waiting[p] = <<>>
    <3>1. \A u \in Tasks \ {t} : task'[u] = task[u]
      BY <1>10, <2>1
    <3>2. Holding(p)' = Holding(p) \ {t} /\ Queued(p)' = Queued(p)
      BY <1>1, <1>8, <3>1 DEF Holding, Queued
    <3>3. running'[p] = running[p] - 1 /\ waiting'[p] = waiting[p]
      BY <1>1, <1>5, <2>1 DEF TaskTypeOK
    <3> QED
      BY <1>2, <1>4, <2>1, <3>2, <3>3 DEF SlotsOf
  <2>2. CASE waiting[p] # <<>>
    <3>1. Holding(p)' = (Holding(p) \ {t}) \cup {h} /\ Queued(p)' = Queued(p) \ {h}
      BY <1>1, <1>6, <1>8, <1>10, <2>2 DEF Holding, Queued
    <3>2. h \notin Holding(p) \ {t}
      BY <1>6, <2>2 DEF Holding
    <3>3. Cardinality(Holding(p)') = running[p]
      <4>1. Cardinality((Holding(p) \ {t}) \cup {h}) = Cardinality(Holding(p) \ {t}) + 1
        BY <1>4, <3>2, FS_AddElement
      <4> QED
        BY <1>2, <1>4, <3>1, <4>1
    <3>4. running'[p] = running[p] /\ waiting'[p] = Tail(waiting[p])
      BY <1>1, <1>5, <2>2 DEF TaskTypeOK
    <3> QED
      BY <1>2, <1>6, <2>2, <3>1, <3>3, <3>4 DEF SlotsOf
  <2> QED
    BY <2>1, <2>2
<1>13. ASSUME NEW q \in Process \ {p} PROVE SlotsOf(q)'
  <2>1. \A u \in Tasks : ProcessOf(u) = q => u # t /\ task'[u] = task[u]
    BY <1>6, <1>10 DEF p
  <2> QED
    BY <1>7, <2>1, SlotsUndisturbed DEF SlotInv
<1>14. SlotInv'
  BY <1>12, <1>13 DEF SlotInv
<1>15. \A u \in Tasks \ {t} :
          \/ task'[u] = task[u]
          \/ task[u].pc = "wait" /\ task'[u].pc = "call" /\ task'[u].job = task[u].job
  BY <1>6, <1>10
<1> QED
  BY <1>8, <1>11, <1>14, <1>15

\* New tasks F that get a slot, and R that are queued behind the others because
\* no slot is left.
LEMMA AdmitKeepsSlots ==
    ASSUME TaskTypeOK, SlotInv, NEW p \in Process,
           NEW F \in SUBSET Tasks, NEW R \in SUBSET Tasks, F \cap R = {},
           NEW rest \in Seq(Tasks), Lists(rest, R),
           \A t \in F \cup R : ProcessOf(t) = p /\ task[t].pc \notin {"call", "write", "wait"},
           running[p] + Cardinality(F) <= Limit,
           rest # <<>> => running[p] + Cardinality(F) = Limit,
           running' = [running EXCEPT ![p] = @ + Cardinality(F)],
           waiting' = [waiting EXCEPT ![p] = @ \o rest],
           \A t \in F : task'[t].pc = "call",
           \A t \in R : task'[t].pc = "wait",
           \A t \in Tasks \ (F \cup R) : task'[t] = task[t]
    PROVE  /\ running' \in [Process -> 0..Limit] /\ waiting' \in [Process -> Seq(Tasks)]
           /\ SlotInv'
<1>1. SlotsOf(p) /\ waiting[p] \in Seq(Tasks) /\ running[p] \in 0..Limit
  BY DEF SlotInv, TaskTypeOK
<1>2. IsFiniteSet(F) /\ Cardinality(F) \in Nat
  BY TaskFacts, FS_Subset, FS_CardinalityType
<1>3. IsFiniteSet(Holding(p)) /\ Cardinality(Holding(p)) \in Nat
  BY SlotFacts
<1>4. waiting[p] \o rest \in Seq(Tasks)
  BY <1>1, ConcatProperties
<1>5. /\ running'[p] = running[p] + Cardinality(F) /\ waiting'[p] = waiting[p] \o rest
      /\ \A q \in Process \ {p} : running'[q] = running[q] /\ waiting'[q] = waiting[q]
  BY DEF TaskTypeOK
<1>6. running' \in [Process -> 0..Limit] /\ waiting' \in [Process -> Seq(Tasks)]
  BY <1>1, <1>2, <1>4, TranslationsAssumption DEF TaskTypeOK
<1>7. SlotsOf(p)'
  <2>1. Holding(p)' = Holding(p) \cup F /\ Holding(p) \cap F = {}
    BY DEF Holding
  <2>2. Queued(p)' = Queued(p) \cup R /\ Queued(p) \cap R = {}
    BY DEF Queued
  <2>3. Cardinality(Holding(p)') = running'[p]
    <3>1. Cardinality(Holding(p) \cup F) =
             Cardinality(Holding(p)) + Cardinality(F) - Cardinality(Holding(p) \cap F)
      BY <1>2, <1>3, FS_Union
    <3>2. Cardinality(Holding(p) \cap F) = 0
      BY <2>1, FS_EmptySet
    <3>3. running[p] = Cardinality(Holding(p))
      BY <1>1 DEF SlotsOf
    <3>4. Cardinality(Holding(p)') = Cardinality(Holding(p) \cup F)
      BY <2>1
    <3> QED
      BY <1>2, <1>3, <1>5, <3>1, <3>2, <3>3, <3>4
  <2>4. Lists(waiting'[p], Queued(p)')
    <3>1. Lists(waiting[p], Queued(p))
      BY <1>1 DEF SlotsOf
    <3>2. Lists(waiting[p] \o rest, Queued(p) \cup R)
      BY <1>1, <2>2, <3>1, ListsConcat
    <3> QED
      BY <1>5, <2>2, <3>2
  <2>5. ASSUME waiting'[p] # <<>> PROVE running'[p] = Limit
    <3>1. waiting[p] # <<>> \/ rest # <<>>
      BY <1>1, <1>5, <2>5, ConcatEmptySeq
    <3> QED
      BY <1>1, <1>2, <1>5, <3>1, TranslationsAssumption DEF SlotsOf
  <2> QED
    BY <2>3, <2>4, <2>5 DEF SlotsOf
<1>8. ASSUME NEW q \in Process \ {p} PROVE SlotsOf(q)'
  <2>1. \A u \in Tasks : ProcessOf(u) = q => task'[u] = task[u]
    OBVIOUS
  <2> QED
    BY <1>5, <2>1, SlotsUndisturbed DEF SlotInv
<1> QED
  BY <1>6, <1>7, <1>8 DEF SlotInv

\* The locales of a broadcast get the slots that are left.
LEMMA StartKeepsSlots ==
    ASSUME TaskTypeOK, SlotInv, NEW b \in Broadcasts, StartLocales(b)
    PROVE  /\ TaskTypeOK' /\ SlotInv'
           /\ \A t \in Tasks :
                 \/ task'[t] = task[t] /\ ~(t \in TasksOf(b) /\ task[t].pc = "ready")
                 \/ /\ t \in TasksOf(b) /\ task[t].pc = "ready"
                    /\ task'[t].pc \in {"call", "wait"} /\ task'[t].job = task[t].job
<1> DEFINE ready == {t \in TasksOf(b) : task[t].pc = "ready"}
           n == Cardinality(ready)
           free == Limit - running["core"]
<1>1. /\ TasksOf(b) \subseteq Tasks
      /\ \A t \in TasksOf(b) : ProcessOf(t) = "core"
  BY TaskFacts DEF TasksOf
<1>2. ready \in SUBSET Tasks /\ IsFiniteSet(ready) /\ n \in Nat
  BY <1>1, TaskFacts, FS_Subset, FS_CardinalityType
<1>3. free \in Nat /\ "core" \in Process /\ running["core"] \in 0..Limit
  BY TranslationsAssumption DEF TaskTypeOK, Process
<1> DEFINE First(order) == {order[i] : i \in {k \in DOMAIN order : k <= free}}
<1>4. PICK order \in [1..n -> ready] :
         LET first == First(order)
         IN  /\ \A i, k \in DOMAIN order : order[i] = order[k] => i = k
             /\ task' = [t \in Tasks |->
                           IF t \in first THEN [task[t] EXCEPT !.pc = "call"]
                           ELSE IF t \in ready THEN [task[t] EXCEPT !.pc = "wait"]
                           ELSE task[t]]
             /\ running' = [running EXCEPT !["core"] = @ + Cardinality(first)]
             /\ waiting' = [waiting EXCEPT !["core"] =
                               @ \o SubSeq(order, Cardinality(first) + 1, Len(order))]
  BY DEF StartLocales
<1> DEFINE m == IF n <= free THEN n ELSE free
           first == First(order)
           rest == SubSeq(order, Cardinality(first) + 1, Len(order))
<1>5. order \in Seq(Tasks) /\ Len(order) = n /\ DOMAIN order = 1..n
  <2>1. order \in Seq(ready)
    BY <1>2, SeqDef
  <2>2. order \in Seq(Tasks)
    BY <1>2, <2>1, SeqMonotonic
  <2>3. DOMAIN order = 1..Len(order) /\ Len(order) \in Nat
    BY <2>1, LenProperties
  <2>4. Len(order) = n
    BY <1>2, <2>3
  <2> QED
    BY <2>2, <2>4
<1>6. Lists(order, ready)
  <2>1. order \in Injection(1..n, ready)
    BY <1>4, <1>5 DEF Injection, IsInjective
  <2>2. Cardinality(1..n) = n /\ IsFiniteSet(1..n)
    BY <1>2, FS_Interval
  <2>3. order \in Surjection(1..n, ready)
    BY <1>2, <2>1, <2>2, FS_Injection
  <2>4. /\ \A i \in 1..n : order[i] \in ready
        /\ \A t \in ready : \E i \in 1..n : order[i] = t
    BY <2>3 DEF Surjection
  <2>5. {order[i] : i \in 1..n} = ready
    <3> HIDE DEF n, ready
    <3> QED
      BY <2>4
  <2> QED
    BY <1>4, <1>5, <2>5 DEF Lists
<1>7. m \in 0..Len(order) /\ m <= free /\ first = FirstOf(order, m)
  <2>1. m \in 0..n /\ m <= free /\ {k \in 1..n : k <= free} = 1..m
    <3> HIDE DEF n, free
    <3>1. CASE n <= free
      <4>1. m = n
        BY <3>1 DEF m
      <4> QED BY <1>2, <1>3, <3>1, <4>1
    <3>2. CASE ~(n <= free)
      <4>1. m = free
        BY <3>2 DEF m
      <4>2. \A k \in Int : (1 <= k /\ k <= n /\ k <= free) <=> (1 <= k /\ k <= free)
        BY <1>2, <1>3, <3>2
      <4> QED BY <1>2, <1>3, <3>2, <4>1, <4>2
    <3> QED BY <3>1, <3>2
  <2> QED
    BY <1>5, <2>1 DEF FirstOf
<1>8. /\ Cardinality(first) = m /\ first \subseteq ready
      /\ rest \in Seq(Tasks) /\ Lists(rest, ready \ first)
  <2> HIDE DEF m, ready, n
  <2>1. /\ Cardinality(FirstOf(order, m)) = m /\ FirstOf(order, m) \subseteq ready
        /\ SubSeq(order, m + 1, Len(order)) \in Seq(Tasks)
        /\ Lists(SubSeq(order, m + 1, Len(order)), ready \ FirstOf(order, m))
    BY <1>5, <1>6, <1>7, ListsRest
  <2> QED
    BY <1>7, <2>1
<1>9. ASSUME rest # <<>> PROVE m = free
  <2>1. ready \ first # {}
    BY <1>8, <1>9, ListsLength
  <2>2. m # n
    BY <1>2, <1>8, <2>1, FS_Subset
  <2> QED
    BY <2>2
<1> HIDE DEF first, rest, m, free, First
<1>10. /\ \A t \in first : task'[t] = [task[t] EXCEPT !.pc = "call"]
       /\ \A t \in ready \ first : task'[t] = [task[t] EXCEPT !.pc = "wait"]
       /\ \A t \in Tasks \ ready : task'[t] = task[t]
       /\ DOMAIN task' = Tasks /\ task' = [t \in Tasks |-> task'[t]]
  BY <1>2, <1>4, <1>8 DEF first
<1>11. \A t \in ready : /\ task'[t].pc = IF t \in first THEN "call" ELSE "wait"
                        /\ task'[t].job = task[t].job /\ task'[t] \in TaskStates
  <2> SUFFICES ASSUME NEW t \in ready
               PROVE  /\ task'[t].pc = IF t \in first THEN "call" ELSE "wait"
                      /\ task'[t].job = task[t].job /\ task'[t] \in TaskStates
    OBVIOUS
  <2>1. task[t] \in [pc : Pc, job : Job, retries : 0..MaxRetries]
    BY <1>2 DEF TaskTypeOK, TaskStates
  <2>2. PICK next \in {"call", "wait"} :
           /\ task'[t] = [task[t] EXCEPT !.pc = next]
           /\ next = IF t \in first THEN "call" ELSE "wait"
    BY <1>10
  <2> QED
    BY <2>1, <2>2 DEF TaskStates, Pc
<1>12. task' \in [Tasks -> TaskStates]
  BY <1>10, <1>11 DEF TaskTypeOK
<1>13. /\ running' \in [Process -> 0..Limit] /\ waiting' \in [Process -> Seq(Tasks)]
       /\ SlotInv'
  <2>1. /\ running' = [running EXCEPT !["core"] = @ + Cardinality(first)]
        /\ waiting' = [waiting EXCEPT !["core"] = @ \o rest]
    BY <1>4 DEF first, rest
  <2>2. /\ running["core"] + Cardinality(first) <= Limit
        /\ rest # <<>> => running["core"] + Cardinality(first) = Limit
    BY <1>3, <1>7, <1>8, <1>9, TranslationsAssumption DEF free
  <2>3. \A t \in ready : ProcessOf(t) = "core" /\ task[t].pc \notin {"call", "write", "wait"}
    BY <1>1
  <2>4. /\ \A t \in first : task'[t].pc = "call"
        /\ \A t \in ready \ first : task'[t].pc = "wait"
        /\ first \cup (ready \ first) = ready
        /\ first \in SUBSET Tasks /\ ready \ first \in SUBSET Tasks
    BY <1>2, <1>8, <1>11
  <2> DEFINE R == ready \ first
  <2>5. /\ first \cap R = {} /\ rest \in Seq(Tasks) /\ Lists(rest, R)
        /\ \A t \in R : task'[t].pc = "wait"
        /\ R \in SUBSET Tasks
    BY <1>8, <2>4
  <2>6. /\ \A t \in first \cup R : /\ ProcessOf(t) = "core"
                                   /\ task[t].pc \notin {"call", "write", "wait"}
        /\ \A t \in Tasks \ (first \cup R) : task'[t] = task[t]
    BY <1>10, <2>3, <2>4
  <2> HIDE DEF R
  <2> QED
    BY <1>3, <2>1, <2>2, <2>4, <2>5, <2>6, AdmitKeepsSlots
<1> QED
  BY <1>10, <1>11, <1>12, <1>13 DEF TaskTypeOK

\* A handler takes a free slot, or the last place of the queue.
LEMMA HandleKeepsSlots ==
    ASSUME TaskTypeOK, SlotInv, NEW w \in Workers, NEW j \in Job, HandleAutoTranslate(w, j)
    PROVE  TaskTypeOK' /\ SlotInv' /\ \A t \in Tasks \ Workers : task'[t] = task[t]
<1>1. w \in Tasks /\ ProcessOf(w) = "scheduler" /\ "scheduler" \in Process
  BY DEF Tasks, ProcessOf, Process
<1>2. /\ task[w].pc = "idle" /\ running["scheduler"] \in 0..Limit
      /\ waiting["scheduler"] \in Seq(Tasks) /\ Limit \in Nat
  BY <1>1, TranslationsAssumption DEF HandleAutoTranslate, TaskTypeOK
<1>3. CASE UNCHANGED <<task, limiter>>
  BY <1>3 DEF TaskTypeOK, SlotInv, SlotsOf, Holding, Queued, limiter
<1>4. CASE /\ running["scheduler"] < Limit
           /\ task' = [task EXCEPT ![w] = [pc |-> "call", job |-> j, retries |-> 0]]
           /\ running' = [running EXCEPT !["scheduler"] = @ + 1]
           /\ UNCHANGED waiting
  <2>1. task' \in [Tasks -> TaskStates] /\ task'[w].pc = "call"
        /\ \A t \in Tasks \ {w} : task'[t] = task[t]
    BY <1>1, <1>4, TranslationsAssumption DEF TaskTypeOK, TaskStates, Pc
  <2>2. Cardinality({w}) = 1
    BY FS_Singleton
  <2>3. waiting' = [waiting EXCEPT !["scheduler"] = @ \o <<>>]
    BY <1>1, <1>2, <1>4, ConcatEmptySeq DEF TaskTypeOK
  <2>4. running["scheduler"] + 1 <= Limit
    BY <1>2, <1>4
  <2>5. running' \in [Process -> 0..Limit] /\ waiting' \in [Process -> Seq(Tasks)] /\ SlotInv'
    <3>1. <<>> \in Seq(Tasks) /\ Lists(<<>>, {})
      BY EmptySeq, ListsNone
    <3>2. /\ running' = [running EXCEPT !["scheduler"] = @ + Cardinality({w})]
          /\ running["scheduler"] + Cardinality({w}) <= Limit
      BY <1>4, <2>2, <2>4
    <3> DEFINE F == {w}
               R == {}
    <3>3. /\ F \in SUBSET Tasks /\ R \in SUBSET Tasks /\ F \cap R = {}
          /\ \A t \in F \cup R : ProcessOf(t) = "scheduler"
                                 /\ task[t].pc \notin {"call", "write", "wait"}
          /\ \A t \in F : task'[t].pc = "call"
          /\ \A t \in R : task'[t].pc = "wait"
          /\ \A t \in Tasks \ (F \cup R) : task'[t] = task[t]
      BY <1>1, <1>2, <2>1
    <3>4. Lists(<<>>, R) /\ running' = [running EXCEPT !["scheduler"] = @ + Cardinality(F)]
          /\ running["scheduler"] + Cardinality(F) <= Limit
      BY <3>1, <3>2
    <3> HIDE DEF F, R
    <3> QED
      BY <1>1, <2>3, <3>1, <3>3, <3>4, AdmitKeepsSlots
  <2> QED
    BY <2>1, <2>5 DEF TaskTypeOK
<1>5. CASE /\ ~(running["scheduler"] < Limit)
           /\ task' = [task EXCEPT ![w] = [pc |-> "wait", job |-> j, retries |-> 0]]
           /\ waiting' = [waiting EXCEPT !["scheduler"] = Append(@, w)]
           /\ UNCHANGED running
  <2>1. task' \in [Tasks -> TaskStates] /\ task'[w].pc = "wait"
        /\ \A t \in Tasks \ {w} : task'[t] = task[t]
    BY <1>1, <1>5, TranslationsAssumption DEF TaskTypeOK, TaskStates, Pc
  <2>2. waiting' = [waiting EXCEPT !["scheduler"] = @ \o <<w>>]
    BY <1>1, <1>2, <1>5, AppendIsConcat DEF TaskTypeOK
  <2>3. running["scheduler"] = Limit /\ running["scheduler"] + 0 = Limit
    BY <1>2, <1>5
  <2>4. running' = [running EXCEPT !["scheduler"] = @ + 0]
    BY <1>1, <1>2, <1>5 DEF TaskTypeOK
  <2>5. <<w>> \in Seq(Tasks) /\ Lists(<<w>>, {w})
    <3>1. <<w>> \in Seq(Tasks) /\ Len(<<w>>) = 1 /\ <<w>>[1] = w
      BY <1>1
    <3>2. 1..1 = {1}
      OBVIOUS
    <3> QED
      BY <3>1, <3>2 DEF Lists
  <2>6. running' \in [Process -> 0..Limit] /\ waiting' \in [Process -> Seq(Tasks)] /\ SlotInv'
    <3> DEFINE F == {}
               R == {w}
               rest == <<w>>
    <3>1. /\ F \in SUBSET Tasks /\ R \in SUBSET Tasks /\ F \cap R = {}
          /\ \A t \in F \cup R : ProcessOf(t) = "scheduler"
                                 /\ task[t].pc \notin {"call", "write", "wait"}
          /\ \A t \in F : task'[t].pc = "call"
          /\ \A t \in R : task'[t].pc = "wait"
          /\ \A t \in Tasks \ (F \cup R) : task'[t] = task[t]
      BY <1>1, <1>2, <2>1
    <3>2. /\ running' = [running EXCEPT !["scheduler"] = @ + Cardinality(F)]
          /\ running["scheduler"] + Cardinality(F) = Limit
          /\ running["scheduler"] + Cardinality(F) <= Limit
      <4>1. Cardinality(F) = 0
        BY FS_EmptySet
      <4>2. Limit <= Limit
        BY <1>2
      <4> HIDE DEF F
      <4>3. running' = [running EXCEPT !["scheduler"] = @ + Cardinality(F)]
        BY <2>4, <4>1
      <4> QED
        BY <2>3, <4>1, <4>2, <4>3
    <3>3. /\ rest \in Seq(Tasks) /\ Lists(rest, R)
          /\ waiting' = [waiting EXCEPT !["scheduler"] = @ \o rest]
      BY <2>2, <2>5
    <3> HIDE DEF F, R, rest
    <3> QED
      BY <1>1, <3>1, <3>2, <3>3, AdmitKeepsSlots
  <2> QED
    BY <2>1, <2>6 DEF TaskTypeOK
<1>6. \A t \in Tasks \ Workers : task'[t] = task[t]
  BY <1>1 DEF HandleAutoTranslate, TaskTypeOK
<1> QED
  BY <1>3, <1>4, <1>5, <1>6 DEF HandleAutoTranslate

-----------------------------------------------------------------------------
(* The steps                                                               *)

IInv == TypeOK /\ SlotInv /\ PhaseInv /\ CopyInv

\* A step in which no task takes, leaves or awaits a slot.
LEMMA TasksUndisturbed ==
    ASSUME TaskTypeOK, SlotInv, UNCHANGED limiter, task' \in [Tasks -> TaskStates],
           \A t \in Tasks :
              \/ task'[t].pc = task[t].pc
              \/ task'[t].pc \in {"call", "write"} /\ task[t].pc \in {"call", "write"}
              \/ /\ task'[t].pc \notin {"call", "write", "wait"}
                 /\ task[t].pc \notin {"call", "write", "wait"}
    PROVE  TaskTypeOK' /\ SlotInv'
<1>1. \A t \in Tasks : /\ task'[t].pc \in {"call", "write"} <=> task[t].pc \in {"call", "write"}
                       /\ task'[t].pc = "wait" <=> task[t].pc = "wait"
  OBVIOUS
<1>2. running' = running /\ waiting' = waiting
  BY DEF limiter
<1>3. \A p \in Process : SlotsOf(p)'
  BY <1>1, <1>2, SlotsUndisturbed DEF SlotInv
<1> QED
  BY <1>2, <1>3 DEF SlotInv, TaskTypeOK

\* A step in which the tasks of a broadcast stay as they are or go on with their
\* translation, and what is translated is in the row unless it is disturbed.
LEMMA BroadcastGoesOn ==
    ASSUME PhaseInv, CopyInv, NEW b \in Broadcasts, broadcast'[b] = broadcast[b],
           \A l \in Locales :
              \/ task'[<<b, l>>] = task[<<b, l>>]
              \/ /\ task[<<b, l>>].pc \in {"wait", "call", "write"}
                 /\ task'[<<b, l>>].pc \in {"call", "write", "done"}
                 /\ task'[<<b, l>>].job = task[<<b, l>>].job,
           b \notin disturbed' =>
              /\ b \notin disturbed
              /\ \A l \in Locales : task'[<<b, l>>].pc = "done" => row'[l] = broadcast[b].text
    PROVE  Follows(b)' /\ (b \notin disturbed' => Copied(b)')
<1>1. Follows(b)'
  BY DEF PhaseInv, Follows
<1>2. ASSUME b \notin disturbed' PROVE Copied(b)'
  BY <1>2 DEF CopyInv, Copied
<1> QED
  BY <1>1, <1>2

\* What publishes a job.
LEMMA PublishIsTyped ==
    ASSUME TypeOK, NEW j \in Job, Publish(j)
    PROVE  queue' \in SUBSET Job /\ edits' \in 0..MaxEdits /\ faults' \in 0..MaxFaults
  BY TranslationsAssumption DEF Publish, NoFault, Fault, bounds, TypeOK

\* A request for a translation keeps the types.
LEMMA GetTranslationIsTyped ==
    ASSUME TypeOK, NEW l \in Locales, NEW t \in Texts, GetTranslation(l, t)
    PROVE  queue' \in SUBSET Job /\ edits' \in 0..MaxEdits /\ faults' \in 0..MaxFaults
<1>1. [text |-> t, locale |-> l, attempts |-> 0] \in Job
  BY TranslationsAssumption DEF Job
<1>2. CASE Publish([text |-> t, locale |-> l, attempts |-> 0])
  BY <1>1, <1>2, PublishIsTyped
<1>3. CASE NoFault /\ UNCHANGED queue
  BY <1>3 DEF NoFault, bounds, TypeOK
<1> QED
  BY <1>2, <1>3 DEF GetTranslation

OtherTypeOK ==
    /\ tile \in BOOLEAN
    /\ text \in Texts
    /\ row \in [Locales -> Texts \cup {NoRow, Manual}]
    /\ \A l \in Locales : tile => row[l] # Manual
    /\ queue \in SUBSET Job /\ timers \in SUBSET Job
    /\ reader \in [Readers -> [pc : {"idle", "look"}, locale : Locales, text : Texts]]
    /\ broadcast \in [Broadcasts -> [pc : {"idle", "check", "translate"}, text : Texts,
                                    sent : [Locales -> Texts \cup {Source, Manual}]]]
    /\ disturbed \in SUBSET Broadcasts
    /\ edits \in 0..MaxEdits /\ faults \in 0..MaxFaults

\* The types of tasks and of all else.
LEMMA TypesOfTasks ==
    /\ TypeOK <=> TaskTypeOK /\ OtherTypeOK
    /\ TypeOK' <=> TaskTypeOK' /\ OtherTypeOK'
  BY DEF TypeOK, TaskTypeOK, OtherTypeOK, TaskStates

\* Requests, edits, timers and failed queries touch no task and no row.
LEMMA OthersKeepInv ==
    ASSUME IInv,
           \/ \E r \in Readers : ReadText(r) \/ ShowText(r)
           \/ EditText
           \/ \E j \in Job : Requeue(j) \/ HandleFails(j)
           \/ UNCHANGED vars
    PROVE  IInv'
<1> USE DEF IInv
<1>1. UNCHANGED <<tile, row, task, limiter, broadcast, disturbed>>
  BY DEF ReadText, ShowText, EditText, Requeue, HandleFails, vars
<1>2. SlotInv' /\ TaskTypeOK'
  <2>1. TaskTypeOK
    BY TypesOfTasks
  <2>2. task' = task /\ running' = running /\ waiting' = waiting
    BY <1>1 DEF limiter
  <2> QED
    BY <2>1, <2>2, TasksUndisturbed DEF TaskTypeOK, limiter
<1>3. PhaseInv' /\ CopyInv'
  BY <1>1 DEF PhaseInv, Follows, CopyInv, Copied
<1>4. OtherTypeOK'
  <2> USE TypesOfTasks
  <2>1. ASSUME NEW r \in Readers, ReadText(r) PROVE OtherTypeOK'
    <3>1. PICK l \in Asked :
             reader' = [reader EXCEPT ![r] = [pc |-> "look", locale |-> l, text |-> text]]
      BY <2>1 DEF ReadText
    <3>2. l \in Locales
      BY TranslationsAssumption
    <3> QED
      BY <2>1, <3>1, <3>2 DEF ReadText, OtherTypeOK, bounds
  <2>2. ASSUME NEW r \in Readers, ShowText(r) PROVE OtherTypeOK'
    <3>1. reader[r].locale \in Locales /\ reader[r].text \in Texts /\ Texts # {}
      BY DEF OtherTypeOK
    <3>2. queue' \in SUBSET Job /\ edits' \in 0..MaxEdits /\ faults' \in 0..MaxFaults
      BY <2>2, <3>1, GetTranslationIsTyped DEF ShowText
    <3>3. reader' \in [Readers -> [pc : {"idle", "look"}, locale : Locales, text : Texts]]
      BY <2>2, <3>1, IdleIsTyped DEF ShowText, OtherTypeOK
    <3> QED
      BY <1>1, <2>2, <3>2, <3>3 DEF ShowText, OtherTypeOK
  <2>3. CASE EditText
    BY <2>3, TranslationsAssumption DEF EditText, OtherTypeOK
  <2>4. ASSUME NEW j \in Job, Requeue(j) PROVE OtherTypeOK'
    <3>1. queue' \in SUBSET Job /\ edits' \in 0..MaxEdits /\ faults' \in 0..MaxFaults
      BY <2>4, PublishIsTyped DEF Requeue
    <3> QED
      BY <1>1, <2>4, <3>1 DEF Requeue, OtherTypeOK
  <2>5. ASSUME NEW j \in Job, HandleFails(j) PROVE OtherTypeOK'
    BY <2>5, TranslationsAssumption DEF HandleFails, Fault, OtherTypeOK
  <2>6. CASE UNCHANGED vars
    BY <2>6 DEF OtherTypeOK, vars, limiter, bounds
  <2> QED
    BY <2>1, <2>2, <2>3, <2>4, <2>5, <2>6
<1> QED
  BY <1>2, <1>3, <1>4, TypesOfTasks

\* Taking a job from the queue keeps the invariant.
LEMMA HandleKeepsInv ==
    ASSUME IInv, NEW w \in Workers, NEW j \in Job, HandleAutoTranslate(w, j)
    PROVE  IInv'
<1> USE DEF IInv
<1>1. TaskTypeOK' /\ SlotInv' /\ \A t \in Tasks \ Workers : task'[t] = task[t]
  BY HandleKeepsSlots, TypesOfTasks
<1>2. UNCHANGED <<row, broadcast, disturbed>>
  BY DEF HandleAutoTranslate
<1>3. TypeOK'
  <2>1. queue' \in SUBSET Job /\ edits' \in 0..MaxEdits /\ faults' \in 0..MaxFaults
    <3>1. queue' = queue \ {j} \/ queue' = queue
      BY DEF HandleAutoTranslate
    <3>2. edits' = edits /\ (faults' = faults \/ (faults > 0 /\ faults' = faults - 1))
      BY DEF HandleAutoTranslate, NoFault, Fault, bounds
    <3> QED
      BY <3>1, <3>2, TranslationsAssumption, TypesOfTasks DEF OtherTypeOK
  <2>2. OtherTypeOK'
    BY <2>1, TypesOfTasks DEF HandleAutoTranslate, OtherTypeOK
  <2> QED
    BY <1>1, <2>2, TypesOfTasks
<1>4. \A b \in Broadcasts, l \in Locales : task'[<<b, l>>] = task[<<b, l>>]
  BY <1>1, TaskFacts
<1>5. PhaseInv' /\ CopyInv'
  BY <1>2, <1>4 DEF PhaseInv, Follows, CopyInv, Copied
<1> QED
  BY <1>1, <1>3, <1>5

\* A task that goes on with the same job.
LEMMA GoingOnIsTyped ==
    ASSUME NEW x \in TaskStates, NEW next \in Pc,
           NEW y, y = [x EXCEPT !.pc = next, !.retries = 0]
    PROVE  y \in TaskStates /\ y.pc = next /\ y.job = x.job /\ y.retries = 0
<1>1. x \in [pc : Pc, job : Job, retries : 0..MaxRetries] /\ 0 \in 0..MaxRetries
  BY TranslationsAssumption DEF TaskStates
<1>2. y = [pc |-> next, job |-> x.job, retries |-> 0]
  BY <1>1
<1> QED
  BY <1>1, <1>2 DEF TaskStates

\* DeepL answers, or asks to be called again; the task keeps its slot.
LEMMA CallKeepsInv ==
    ASSUME IInv, NEW t \in Tasks, Translate(t) \/ RetryTranslate(t)
    PROVE  IInv'
<1> USE DEF IInv
<1>1. /\ UNCHANGED <<row, broadcast, disturbed, limiter>> /\ task[t].pc = "call"
      /\ \A u \in Tasks \ {t} : task'[u] = task[u]
  BY TypesOfTasks DEF Translate, RetryTranslate, TaskTypeOK
<1>2. /\ task'[t].pc \in {"call", "write"} /\ task'[t].job = task[t].job
      /\ task' \in [Tasks -> TaskStates]
  <2>1. task[t] \in [pc : Pc, job : Job, retries : 0..MaxRetries]
    BY TypesOfTasks DEF TaskTypeOK, TaskStates
  <2>2. CASE Translate(t)
    <3>1. task'[t] = [task[t] EXCEPT !.pc = "write", !.retries = 0]
      BY <2>2, TypesOfTasks DEF Translate, TaskTypeOK
    <3>2. task'[t] \in TaskStates /\ task'[t].pc = "write" /\ task'[t].job = task[t].job
      BY <2>1, <3>1, GoingOnIsTyped DEF TaskStates, Pc
    <3> QED
      BY <2>2, <3>2, TypesOfTasks DEF Translate, TaskTypeOK
  <2>3. CASE RetryTranslate(t)
    <3>1. task'[t] = [task[t] EXCEPT !.retries = @ + 1] /\ task[t].retries < MaxRetries
      BY <2>3, TypesOfTasks DEF RetryTranslate, TaskTypeOK
    <3>2. task'[t] \in TaskStates
      BY <2>1, <3>1, TranslationsAssumption DEF TaskStates, Pc
    <3> QED
      BY <1>1, <2>1, <2>3, <3>1, <3>2, TypesOfTasks DEF RetryTranslate, TaskTypeOK, TaskStates
  <2> QED
    BY <2>2, <2>3
<1>3. TaskTypeOK' /\ SlotInv'
  BY <1>1, <1>2, TypesOfTasks, TasksUndisturbed
<1>4. OtherTypeOK'
  BY TypesOfTasks DEF Translate, RetryTranslate, OtherTypeOK, bounds
<1>5. \A u \in Tasks : \/ task'[u] = task[u]
                       \/ /\ task[u].pc = "call" /\ task'[u].pc \in {"call", "write"}
                          /\ task'[u].job = task[u].job
  BY <1>1, <1>2
<1>6. ASSUME NEW b \in Broadcasts PROVE Follows(b)' /\ (b \notin disturbed' => Copied(b)')
  <2>1. \A l \in Locales : \/ task'[<<b, l>>] = task[<<b, l>>]
                           \/ /\ task[<<b, l>>].pc \in {"wait", "call", "write"}
                              /\ task'[<<b, l>>].pc \in {"call", "write", "done"}
                              /\ task'[<<b, l>>].pc # "done"
                              /\ task'[<<b, l>>].job = task[<<b, l>>].job
    BY <1>5, TaskFacts
  <2>2. b \notin disturbed' =>
           /\ b \notin disturbed
           /\ \A l \in Locales : task'[<<b, l>>].pc = "done" => row'[l] = broadcast[b].text
    BY <1>1, <2>1 DEF CopyInv, Copied
  <2> QED
    BY <1>1, <2>1, <2>2, BroadcastGoesOn
<1> QED
  BY <1>3, <1>4, <1>6, TypesOfTasks DEF PhaseInv, CopyInv

\* A handler that ends is idle; the task of a broadcast keeps its job.
LEMMA FinishedIsTyped ==
    ASSUME TaskTypeOK, Texts # {}, NEW t \in Tasks
    PROVE  /\ Finished(t) \in TaskStates /\ Finished(t).pc \in {"idle", "done"}
           /\ t \notin Workers => Finished(t).pc = "done" /\ Finished(t).job = task[t].job
<1>1. task[t] \in [pc : Pc, job : Job, retries : 0..MaxRetries]
  BY DEF TaskTypeOK, TaskStates
<1>2. CASE t \in Workers
  BY <1>1, <1>2, IdleIsTyped DEF Finished
<1>3. CASE t \notin Workers
  <2>1. Finished(t) = [task[t] EXCEPT !.pc = "done", !.retries = 0]
    BY <1>3 DEF Finished
  <2>2. Finished(t) = [pc |-> "done", job |-> task[t].job, retries |-> 0]
    BY <1>1, <2>1
  <2> QED
    BY <1>1, <2>2, TranslationsAssumption DEF TaskStates, Pc
<1> QED
  BY <1>2, <1>3

\* A task that ends hands its slot on.  What it wrote is the text of its own
\* broadcast; whose row it replaced, or who lost it to an error, is disturbed.
LEMMA EndKeepsInv ==
    ASSUME IInv, NEW t \in Tasks,
           RateLimited(t) \/ TranslateFails(t) \/ UpsertTranslation(t)
    PROVE  IInv'
<1> USE DEF IInv
<1>1. /\ task[t].pc \in {"call", "write"} /\ Leave(t, Finished(t)) /\ Release(t)
      /\ UNCHANGED <<tile, text, queue, reader, broadcast>>
      /\ disturbed \subseteq disturbed' /\ disturbed' \in SUBSET Broadcasts
  <2>1. disturbed \in SUBSET Broadcasts
    BY TypesOfTasks DEF OtherTypeOK
  <2>2. BroadcastOf(t) \subseteq Broadcasts
    BY TaskFacts DEF BroadcastOf
  <2>3. PICK more \in SUBSET Broadcasts : disturbed' = disturbed \cup more
    <3>1. CASE RateLimited(t) \/ TranslateFails(t)
      BY <2>2, <3>1 DEF RateLimited, TranslateFails
    <3>2. CASE UpsertTranslation(t)
      BY <3>2 DEF UpsertTranslation
    <3> QED
      BY <3>1, <3>2
  <2> QED
    BY <2>1, <2>3 DEF RateLimited, TranslateFails, UpsertTranslation
<1>2. task[t] \in [pc : Pc, job : Job, retries : 0..MaxRetries] /\ Texts # {}
  BY TypesOfTasks DEF TaskTypeOK, TaskStates, OtherTypeOK
<1>3. /\ Finished(t) \in TaskStates /\ Finished(t).pc \in {"idle", "done"}
      /\ t \notin Workers => Finished(t).pc = "done" /\ Finished(t).job = task[t].job
  BY <1>2, TypesOfTasks, FinishedIsTyped
<1>4. /\ TaskTypeOK' /\ SlotInv' /\ task'[t] = Finished(t)
      /\ \A u \in Tasks \ {t} :
            \/ task'[u] = task[u]
            \/ task[u].pc = "wait" /\ task'[u].pc = "call" /\ task'[u].job = task[u].job
  BY <1>1, <1>3, TypesOfTasks, ReleaseKeepsSlots
<1>5. task[t].job \in Job /\ task[t].job.text \in Texts /\ task[t].job.locale \in Locales
  BY <1>2 DEF Job
<1>6. OtherTypeOK'
  <2>1. CASE RateLimited(t)
    <3>1. timers' \in SUBSET Job
      <4>1. MayRequeue(task[t].job) => [task[t].job EXCEPT !.attempts = @ + 1] \in Job
        BY <1>5, TranslationsAssumption DEF MayRequeue, Job
      <4> QED
        BY <2>1, <4>1, TypesOfTasks DEF RateLimited, OtherTypeOK
    <3>2. edits' \in 0..MaxEdits /\ faults' \in 0..MaxFaults /\ row' = row
      BY <2>1, TypesOfTasks, TranslationsAssumption DEF RateLimited, Fault, OtherTypeOK
    <3> QED
      BY <1>1, <3>1, <3>2, TypesOfTasks DEF OtherTypeOK
  <2>2. CASE TranslateFails(t)
    <3>1. /\ edits' \in 0..MaxEdits /\ faults' \in 0..MaxFaults /\ row' = row
          /\ timers' = timers
      BY <2>2, TypesOfTasks, TranslationsAssumption DEF TranslateFails, Fault, OtherTypeOK
    <3> QED
      BY <1>1, <3>1, TypesOfTasks DEF OtherTypeOK
  <2>3. CASE UpsertTranslation(t)
    <3>1. /\ row' = [row EXCEPT ![task[t].job.locale] = task[t].job.text]
          /\ UNCHANGED <<timers, edits, faults>>
      BY <2>3 DEF UpsertTranslation, bounds
    <3>2. Manual \notin Texts
      BY TranslationsAssumption
    <3> QED
      BY <1>1, <1>5, <3>1, <3>2, TypesOfTasks DEF OtherTypeOK
  <2> QED
    BY <2>1, <2>2, <2>3
<1>7. ASSUME NEW b \in Broadcasts, b \notin disturbed', NEW l \in Locales,
             task'[<<b, l>>].pc = "done"
      PROVE  row'[l] = broadcast[b].text
  <2>1. <<b, l>> \in Tasks /\ <<b, l>> \notin Workers
    BY TaskFacts
  <2>2. CASE t = <<b, l>>
    <3>1. t[1] = b /\ b \in BroadcastOf(t)
      BY <2>1, <2>2 DEF BroadcastOf
    <3>2. UpsertTranslation(t)
      BY <1>7, <3>1 DEF RateLimited, TranslateFails
    <3>3. task[t].job.text = broadcast[b].text /\ task[t].job.locale = l
      BY <1>1, <2>2 DEF PhaseInv, Follows
    <3> QED
      BY <3>2, <3>3, TypesOfTasks DEF UpsertTranslation, OtherTypeOK
  <2>3. CASE t # <<b, l>>
    <3>1. task[<<b, l>>].pc = "done" /\ b \notin disturbed
      BY <1>1, <1>4, <1>7, <2>1, <2>3
    <3>2. row[l] = broadcast[b].text
      BY <3>1 DEF CopyInv, Copied
    <3>3. CASE UpsertTranslation(t)
      <4>1. l = task[t].job.locale => broadcast[b].text = task[t].job.text
        BY <1>7, <3>1, <3>3 DEF UpsertTranslation
      <4> QED
        BY <1>5, <3>2, <3>3, <4>1, TypesOfTasks DEF UpsertTranslation, OtherTypeOK
    <3> QED
      BY <3>2, <3>3 DEF RateLimited, TranslateFails
  <2> QED
    BY <2>2, <2>3
<1>8. ASSUME NEW b \in Broadcasts PROVE Follows(b)' /\ (b \notin disturbed' => Copied(b)')
  <2>1. \A l \in Locales : \/ task'[<<b, l>>] = task[<<b, l>>]
                           \/ /\ task[<<b, l>>].pc \in {"wait", "call", "write"}
                              /\ task'[<<b, l>>].pc \in {"call", "write", "done"}
                              /\ task'[<<b, l>>].job = task[<<b, l>>].job
    BY <1>1, <1>3, <1>4, TaskFacts
  <2>2. broadcast'[b] = broadcast[b]
    BY <1>1
  <2>3. b \notin disturbed' =>
           /\ b \notin disturbed
           /\ \A l \in Locales : task'[<<b, l>>].pc = "done" => row'[l] = broadcast[b].text
    BY <1>1, <1>7
  <2> QED
    BY <2>1, <2>2, <2>3, BroadcastGoesOn
<1> QED
  BY <1>4, <1>6, <1>8, TypesOfTasks DEF PhaseInv, CopyInv

\* A broadcast begins with its text and none of its locales translated.
LEMMA UpdateKeepsInv ==
    ASSUME IInv, NEW b \in Broadcasts, UpdateTile(b)
    PROVE  IInv'
<1> USE DEF IInv
<1>1. PICK x \in Texts :
         /\ text' = x
         /\ x # text => edits > 0
         /\ edits' = IF x = text THEN edits ELSE edits - 1
         /\ broadcast' = [broadcast EXCEPT ![b] =
                             [NoBroadcast EXCEPT !.pc = "check", !.text = x]]
         /\ task' = [u \in Tasks |->
                       IF u \in {b} \X Locales
                       THEN [pc |-> "check", retries |-> 0,
                             job |-> [text |-> x, locale |-> u[2], attempts |-> 0]]
                       ELSE task[u]]
  BY DEF UpdateTile
<1>2. broadcast[b].pc = "idle" /\ UNCHANGED <<row, limiter, disturbed, faults>>
  BY DEF UpdateTile
<1>3. \A l \in Locales :
         /\ task[<<b, l>>].pc = "idle"
         /\ task'[<<b, l>>].pc = "check"
         /\ task'[<<b, l>>].job.text = x /\ task'[<<b, l>>].job.locale = l
         /\ task'[<<b, l>>] \in TaskStates
  <2> SUFFICES ASSUME NEW l \in Locales
               PROVE  /\ task[<<b, l>>].pc = "idle"
                      /\ task'[<<b, l>>].pc = "check"
                      /\ task'[<<b, l>>].job.text = x /\ task'[<<b, l>>].job.locale = l
                      /\ task'[<<b, l>>] \in TaskStates
    OBVIOUS
  <2>1. task[<<b, l>>].pc = "idle"
    BY <1>2 DEF PhaseInv, Follows
  <2>2. task'[<<b, l>>] = [pc |-> "check", retries |-> 0,
                           job |-> [text |-> x, locale |-> l, attempts |-> 0]]
    BY <1>1, TaskFacts
  <2>3. [text |-> x, locale |-> l, attempts |-> 0] \in Job
    BY TranslationsAssumption DEF Job
  <2> QED
    BY <2>1, <2>2, <2>3, TranslationsAssumption DEF TaskStates, Pc
<1>4. \A u \in Tasks : u \in {<<b, l>> : l \in Locales} \/ task'[u] = task[u]
  BY <1>1
<1>5. task' \in [Tasks -> TaskStates]
  <2>1. \A u \in Tasks : task'[u] \in TaskStates
    BY <1>3, <1>4, TypesOfTasks DEF TaskTypeOK
  <2> QED
    BY <1>1, <2>1
<1>6. TaskTypeOK' /\ SlotInv'
  <2>1. \A u \in Tasks : \/ task'[u].pc = task[u].pc
                         \/ /\ task'[u].pc \notin {"call", "write", "wait"}
                            /\ task[u].pc \notin {"call", "write", "wait"}
    BY <1>3, <1>4
  <2> QED
    BY <1>2, <1>5, <2>1, TypesOfTasks, TasksUndisturbed
<1>7. /\ broadcast'[b].pc = "check" /\ broadcast'[b].text = x
      /\ broadcast'[b] \in [pc : {"idle", "check", "translate"}, text : Texts,
                            sent : [Locales -> Texts \cup {Source, Manual}]]
      /\ \A c \in Broadcasts \ {b} : broadcast'[c] = broadcast[c]
  <2>1. NoBroadcast \in [pc : {"idle", "check", "translate"}, text : Texts,
                         sent : [Locales -> Texts \cup {Source, Manual}]]
    BY IdleIsTyped
  <2>2. broadcast'[b] = [pc |-> "check", text |-> x, sent |-> NoBroadcast.sent]
    BY <1>1, <2>1, TypesOfTasks DEF OtherTypeOK
  <2> QED
    BY <1>1, <2>1, <2>2, TypesOfTasks DEF OtherTypeOK
<1>8. OtherTypeOK'
  <2>1. edits' \in 0..MaxEdits
    BY <1>1, TypesOfTasks, TranslationsAssumption DEF OtherTypeOK
  <2>2. broadcast' \in [Broadcasts -> [pc : {"idle", "check", "translate"}, text : Texts,
                                      sent : [Locales -> Texts \cup {Source, Manual}]]]
    BY <1>1, <1>7, TypesOfTasks DEF OtherTypeOK
  <2> QED
    BY <1>1, <2>1, <2>2, TypesOfTasks DEF UpdateTile, OtherTypeOK
<1>9. Follows(b)' /\ Copied(b)'
  BY <1>3, <1>7 DEF Follows, Copied
<1>10. ASSUME NEW c \in Broadcasts \ {b} PROVE Follows(c)' /\ (c \notin disturbed' => Copied(c)')
  <2>1. \A l \in Locales : task'[<<c, l>>] = task[<<c, l>>]
    BY <1>4, TaskFacts
  <2> QED
    BY <1>2, <1>7, <2>1 DEF PhaseInv, Follows, CopyInv, Copied
<1> QED
  BY <1>6, <1>8, <1>9, <1>10, TypesOfTasks DEF PhaseInv, CopyInv

\* A locale that has the translation of the text already is done.
LEMMA CheckKeepsInv ==
    ASSUME IInv, NEW b \in Broadcasts, NEW l \in Locales, CheckLocale(b, l)
    PROVE  IInv'
<1> USE DEF IInv
<1> DEFINE t == <<b, l>>
<1>1. t \in Tasks
  BY TaskFacts
<1>2. UNCHANGED <<row, limiter, disturbed, broadcast>> /\ task[t].pc = "check"
  BY DEF CheckLocale
<1>3. task[t] \in [pc : Pc, job : Job, retries : 0..MaxRetries]
  BY <1>1, TypesOfTasks DEF TaskTypeOK, TaskStates
<1>4. PICK next \in {"ready", "done"} :
         /\ task' = [task EXCEPT ![t].pc = next]
         /\ next = "done" => row[l] = broadcast[b].text
  BY DEF CheckLocale, NeedsTranslation
<1> HIDE DEF t
<1>5. /\ task'[t].pc = next /\ task'[t].job = task[t].job /\ task'[t] \in TaskStates
      /\ \A u \in Tasks \ {t} : task'[u] = task[u]
  <2>1. task'[t] = [task[t] EXCEPT !.pc = next]
    BY <1>1, <1>4, TypesOfTasks DEF TaskTypeOK
  <2> QED
    BY <1>1, <1>3, <1>4, <2>1, TypesOfTasks DEF TaskTypeOK, TaskStates, Pc
<1>6. task' \in [Tasks -> TaskStates]
  BY <1>4, <1>5, TypesOfTasks DEF TaskTypeOK
<1>7. TaskTypeOK' /\ SlotInv'
  <2>1. \A u \in Tasks : \/ task'[u].pc = task[u].pc
                         \/ /\ task'[u].pc \notin {"call", "write", "wait"}
                            /\ task[u].pc \notin {"call", "write", "wait"}
    BY <1>2, <1>5
  <2> QED
    BY <1>2, <1>6, <2>1, TypesOfTasks, TasksUndisturbed
<1>8. OtherTypeOK'
  BY TypesOfTasks DEF CheckLocale, OtherTypeOK, bounds
<1>9. ASSUME NEW c \in Broadcasts, NEW k \in Locales
      PROVE  \/ task'[<<c, k>>] = task[<<c, k>>]
             \/ /\ c = b /\ k = l /\ task[<<c, k>>].pc = "check"
                /\ task'[<<c, k>>].pc = next /\ task'[<<c, k>>].job = task[<<c, k>>].job
  BY <1>2, <1>5, TaskFacts DEF t
<1>10. PhaseInv' /\ CopyInv'
  <2>1. ASSUME NEW c \in Broadcasts PROVE Follows(c)'
    <3>1. Follows(c) /\ broadcast'[c] = broadcast[c]
      BY <1>2 DEF PhaseInv
    <3> QED
      BY <1>9, <3>1 DEF Follows
  <2>2. ASSUME NEW c \in Broadcasts \ disturbed PROVE Copied(c)'
    <3>1. Copied(c) /\ broadcast'[c] = broadcast[c] /\ row' = row
      BY <1>2 DEF CopyInv
    <3> QED
      BY <1>4, <1>9, <3>1, ZenonT(60) DEF Copied
  <2> QED
    BY <1>2, <2>1, <2>2 DEF PhaseInv, CopyInv
<1> QED
  BY <1>7, <1>8, <1>10, TypesOfTasks

\* A failed query ends the translations of its broadcast, none of which has a
\* slot yet.
LEMMA CheckFailsKeepsInv ==
    ASSUME IInv, NEW b \in Broadcasts, CheckFails(b)
    PROVE  IInv'
<1> USE DEF IInv
<1>1. /\ broadcast[b].pc = "check" /\ UNCHANGED <<row, limiter>>
      /\ broadcast' = [broadcast EXCEPT ![b].pc = "translate"]
      /\ task' = [t \in Tasks |-> IF t \in TasksOf(b) THEN Finished(t) ELSE task[t]]
      /\ disturbed' = disturbed \cup {b}
  BY DEF CheckFails
<1>2. /\ Texts # {}
      /\ broadcast[b] \in [pc : {"idle", "check", "translate"}, text : Texts,
                           sent : [Locales -> Texts \cup {Source, Manual}]]
  BY TypesOfTasks DEF OtherTypeOK
<1>3. /\ broadcast'[b].pc = "translate" /\ broadcast'[b].text = broadcast[b].text
      /\ broadcast' \in [Broadcasts -> [pc : {"idle", "check", "translate"}, text : Texts,
                                        sent : [Locales -> Texts \cup {Source, Manual}]]]
      /\ \A c \in Broadcasts \ {b} : broadcast'[c] = broadcast[c]
  <2>1. broadcast'[b] = [broadcast[b] EXCEPT !.pc = "translate"]
    BY <1>1, TypesOfTasks DEF OtherTypeOK
  <2> QED
    BY <1>1, <1>2, <2>1, TypesOfTasks DEF OtherTypeOK
<1>4. \A l \in Locales :
         /\ <<b, l>> \in Tasks
         /\ task'[<<b, l>>] = Finished(<<b, l>>)
         /\ Finished(<<b, l>>) \in TaskStates
         /\ Finished(<<b, l>>).pc = "done" /\ Finished(<<b, l>>).job = task[<<b, l>>].job
         /\ task[<<b, l>>].pc \in {"check", "ready", "done"}
  <2> SUFFICES ASSUME NEW l \in Locales
               PROVE  /\ <<b, l>> \in Tasks
                      /\ task'[<<b, l>>] = Finished(<<b, l>>)
                      /\ Finished(<<b, l>>) \in TaskStates
                      /\ Finished(<<b, l>>).pc = "done"
                      /\ Finished(<<b, l>>).job = task[<<b, l>>].job
                      /\ task[<<b, l>>].pc \in {"check", "ready", "done"}
    OBVIOUS
  <2>1. <<b, l>> \in Tasks /\ <<b, l>> \notin Workers /\ <<b, l>> \in TasksOf(b)
    BY TaskFacts DEF TasksOf
  <2>2. task[<<b, l>>].pc \in {"check", "ready", "done"}
    BY <1>1 DEF PhaseInv, Follows
  <2>3. task'[<<b, l>>] = Finished(<<b, l>>)
    BY <1>1, <2>1
  <2>4. /\ Finished(<<b, l>>) \in TaskStates
        /\ Finished(<<b, l>>).pc = "done" /\ Finished(<<b, l>>).job = task[<<b, l>>].job
    BY <1>2, <2>1, TypesOfTasks, FinishedIsTyped
  <2> QED
    BY <2>1, <2>2, <2>3, <2>4
<1>5. \A u \in Tasks : (\E l \in Locales : u = <<b, l>>) \/ task'[u] = task[u]
  BY <1>1 DEF TasksOf
<1>6. TaskTypeOK' /\ SlotInv'
  <2>1. \A u \in Tasks : \/ task'[u].pc = task[u].pc
                         \/ /\ task'[u].pc \notin {"call", "write", "wait"}
                            /\ task[u].pc \notin {"call", "write", "wait"}
    BY <1>4, <1>5
  <2>2. \A u \in Tasks : task'[u] \in TaskStates
    BY <1>4, <1>5, TypesOfTasks DEF TaskTypeOK
  <2>3. task' \in [Tasks -> TaskStates]
    BY <1>1, <2>2
  <2> QED
    BY <1>1, <2>1, <2>3, TypesOfTasks, TasksUndisturbed
<1>7. OtherTypeOK'
  <2>1. edits' \in 0..MaxEdits /\ faults' \in 0..MaxFaults
    BY TypesOfTasks, TranslationsAssumption DEF CheckFails, Fault, OtherTypeOK
  <2> QED
    BY <1>1, <1>3, <2>1, TypesOfTasks DEF CheckFails, OtherTypeOK
<1>8. Follows(b)'
  BY <1>3, <1>4 DEF PhaseInv, Follows
<1>9. ASSUME NEW c \in Broadcasts \ {b} PROVE Follows(c)' /\ (c \notin disturbed' => Copied(c)')
  <2>1. \A l \in Locales : task'[<<c, l>>] = task[<<c, l>>]
    BY <1>5, TaskFacts
  <2>2. broadcast'[c] = broadcast[c] /\ row' = row
        /\ (c \notin disturbed' => c \notin disturbed)
    BY <1>1, <1>3
  <2>3. Follows(c)'
    BY <2>1, <2>2 DEF PhaseInv, Follows
  <2>4. c \notin disturbed' => Copied(c)'
    BY <2>1, <2>2 DEF CopyInv, Copied
  <2> QED
    BY <2>3, <2>4
<1> QED
  BY <1>1, <1>6, <1>7, <1>8, <1>9, TypesOfTasks DEF PhaseInv, CopyInv

\* Starting the translations of a broadcast keeps it.
LEMMA StartKeepsInv ==
    ASSUME IInv, NEW b \in Broadcasts, StartLocales(b)
    PROVE  IInv'
<1> USE DEF IInv
<1>1. /\ broadcast[b].pc = "check" /\ UNCHANGED <<row, disturbed>>
      /\ \A t \in TasksOf(b) : task[t].pc \in {"ready", "done"}
      /\ broadcast' = [broadcast EXCEPT ![b].pc = "translate"]
  BY DEF StartLocales
<1>2. broadcast[b] \in [pc : {"idle", "check", "translate"}, text : Texts,
                        sent : [Locales -> Texts \cup {Source, Manual}]]
  BY TypesOfTasks DEF OtherTypeOK
<1>3. /\ broadcast'[b].pc = "translate" /\ broadcast'[b].text = broadcast[b].text
      /\ broadcast' \in [Broadcasts -> [pc : {"idle", "check", "translate"}, text : Texts,
                                        sent : [Locales -> Texts \cup {Source, Manual}]]]
      /\ \A c \in Broadcasts \ {b} : broadcast'[c] = broadcast[c]
  <2>1. broadcast'[b] = [broadcast[b] EXCEPT !.pc = "translate"]
    BY <1>1, TypesOfTasks DEF OtherTypeOK
  <2> QED
    BY <1>1, <1>2, <2>1, TypesOfTasks DEF OtherTypeOK
<1>4. /\ TaskTypeOK' /\ SlotInv'
      /\ \A t \in Tasks :
            \/ task'[t] = task[t] /\ ~(t \in TasksOf(b) /\ task[t].pc = "ready")
            \/ /\ t \in TasksOf(b) /\ task[t].pc = "ready"
               /\ task'[t].pc \in {"call", "wait"} /\ task'[t].job = task[t].job
  BY TypesOfTasks, StartKeepsSlots
<1>5. OtherTypeOK'
  BY <1>3, TypesOfTasks DEF StartLocales, OtherTypeOK, bounds
<1>6. ASSUME NEW l \in Locales
      PROVE  \/ task'[<<b, l>>] = task[<<b, l>>] /\ task[<<b, l>>].pc = "done"
             \/ /\ task[<<b, l>>].pc = "ready" /\ task'[<<b, l>>].pc \in {"call", "wait"}
                /\ task'[<<b, l>>].job = task[<<b, l>>].job
  <2>1. <<b, l>> \in Tasks /\ <<b, l>> \in TasksOf(b)
    BY TaskFacts DEF TasksOf
  <2> QED
    BY <1>1, <1>4, <2>1
<1>7. Follows(b)'
  BY <1>3, <1>6 DEF PhaseInv, Follows
<1>8. b \notin disturbed' => Copied(b)'
  BY <1>1, <1>3, <1>6 DEF CopyInv, Copied
<1>9. ASSUME NEW c \in Broadcasts \ {b} PROVE Follows(c)' /\ (c \notin disturbed' => Copied(c)')
  <2>1. \A l \in Locales : task'[<<c, l>>] = task[<<c, l>>]
    BY <1>4, TaskFacts DEF TasksOf
  <2> QED
    BY <1>1, <1>3, <2>1 DEF PhaseInv, Follows, CopyInv, Copied
<1> QED
  BY <1>1, <1>4, <1>5, <1>7, <1>8, <1>9, TypesOfTasks DEF PhaseInv, CopyInv

\* What is looked up for a locale is the row its translation was stored in.
LEMMA ResolveKeepsInv ==
    ASSUME IInv, NEW b \in Broadcasts, NEW l \in Locales, ResolvePushCopy(b, l)
    PROVE  IInv'
<1> USE DEF IInv
<1> DEFINE t == <<b, l>>
           x == broadcast[b].text
<1>1. /\ broadcast[b].pc = "translate" /\ task[t].pc = "done"
      /\ GetTranslation(l, x) /\ UNCHANGED <<row, limiter, disturbed>>
      /\ broadcast' = [broadcast EXCEPT ![b].sent[l] = Copy(l, x)]
      /\ task' = [task EXCEPT ![t] = Idle]
  BY DEF ResolvePushCopy
<1>2. /\ broadcast[b] \in [pc : {"idle", "check", "translate"}, text : Texts,
                           sent : [Locales -> Texts \cup {Source, Manual}]]
      /\ row[l] \in Texts \cup {NoRow, Manual} /\ x \in Texts
  BY TypesOfTasks DEF OtherTypeOK
<1>3. /\ Copy(l, x) \in Texts \cup {Source, Manual}
      /\ row[l] = x => Copy(l, x) = x
  BY <1>2, TranslationsAssumption DEF Copy, Outdated
<1>4. /\ broadcast'[b].pc = broadcast[b].pc /\ broadcast'[b].text = x
      /\ broadcast'[b].sent[l] = Copy(l, x)
      /\ \A k \in Locales \ {l} : broadcast'[b].sent[k] = broadcast[b].sent[k]
      /\ broadcast' \in [Broadcasts -> [pc : {"idle", "check", "translate"}, text : Texts,
                                        sent : [Locales -> Texts \cup {Source, Manual}]]]
      /\ \A c \in Broadcasts \ {b} : broadcast'[c] = broadcast[c]
  <2>1. broadcast'[b] = [broadcast[b] EXCEPT !.sent = [@ EXCEPT ![l] = Copy(l, x)]]
    BY <1>1, TypesOfTasks DEF OtherTypeOK
  <2> HIDE DEF x
  <2>2. broadcast'[b] \in [pc : {"idle", "check", "translate"}, text : Texts,
                           sent : [Locales -> Texts \cup {Source, Manual}]]
    BY <1>2, <1>3, <2>1
  <2>3. /\ broadcast' \in [Broadcasts -> [pc : {"idle", "check", "translate"}, text : Texts,
                                        sent : [Locales -> Texts \cup {Source, Manual}]]]
        /\ \A c \in Broadcasts \ {b} : broadcast'[c] = broadcast[c]
    BY <1>1, <2>2, TypesOfTasks DEF OtherTypeOK
  <2>4. /\ broadcast'[b].pc = broadcast[b].pc /\ broadcast'[b].text = broadcast[b].text
        /\ broadcast'[b].sent = [broadcast[b].sent EXCEPT ![l] = Copy(l, x)]
    BY <1>2, <2>1
  <2>5. broadcast[b].sent \in [Locales -> Texts \cup {Source, Manual}]
    BY <1>2
  <2> QED
    BY <2>3, <2>4, <2>5 DEF x
<1>5. /\ t \in Tasks /\ Idle \in TaskStates /\ Idle.pc = "idle"
      /\ task'[t] = Idle /\ \A u \in Tasks \ {t} : task'[u] = task[u]
      /\ task' \in [Tasks -> TaskStates]
  <2>1. t \in Tasks /\ Idle \in TaskStates /\ Idle.pc = "idle"
    BY <1>2, TaskFacts, IdleIsTyped
  <2> QED
    BY <1>1, <2>1, TypesOfTasks DEF TaskTypeOK
<1>6. TaskTypeOK' /\ SlotInv'
  <2>1. \A u \in Tasks : \/ task'[u].pc = task[u].pc
                         \/ /\ task'[u].pc \notin {"call", "write", "wait"}
                            /\ task[u].pc \notin {"call", "write", "wait"}
    BY <1>1, <1>5
  <2> QED
    BY <1>1, <1>5, <2>1, TypesOfTasks, TasksUndisturbed
<1>7. OtherTypeOK'
  <2>1. queue' \in SUBSET Job /\ edits' \in 0..MaxEdits /\ faults' \in 0..MaxFaults
    BY <1>1, <1>2, GetTranslationIsTyped
  <2> QED
    BY <1>4, <2>1, TypesOfTasks DEF ResolvePushCopy, OtherTypeOK
<1>8. \A k \in Locales : k # l => task'[<<b, k>>] = task[<<b, k>>]
  BY <1>5, TaskFacts
<1>9. Follows(b)'
  BY <1>1, <1>4, <1>5, <1>8 DEF PhaseInv, Follows
<1>10. b \notin disturbed' => Copied(b)'
  <2> SUFFICES ASSUME b \notin disturbed, NEW k \in Locales
               PROVE  /\ task'[<<b, k>>].pc = "done" => row'[k] = broadcast'[b].text
                      /\ task'[<<b, k>>].pc = "idle" => broadcast'[b].sent[k] = broadcast'[b].text
    BY <1>1 DEF Copied
  <2>1. Copied(b) /\ row[l] = x
    BY <1>1 DEF CopyInv, Copied
  <2>2. CASE k = l
    BY <1>3, <1>4, <1>5, <2>1, <2>2
  <2>3. CASE k # l
    BY <1>1, <1>4, <1>8, <2>1, <2>3 DEF Copied
  <2> QED
    BY <2>2, <2>3
<1>11. ASSUME NEW c \in Broadcasts \ {b} PROVE Follows(c)' /\ (c \notin disturbed' => Copied(c)')
  <2>1. \A k \in Locales : task'[<<c, k>>] = task[<<c, k>>]
    BY <1>5, TaskFacts
  <2> QED
    BY <1>1, <1>4, <2>1 DEF PhaseInv, Follows, CopyInv, Copied
<1> QED
  BY <1>1, <1>6, <1>7, <1>9, <1>10, <1>11, TypesOfTasks DEF PhaseInv, CopyInv

\* A broadcast that is sent has nothing under way.
LEMMA EmitKeepsInv ==
    ASSUME IInv, NEW b \in Broadcasts, EmitBroadcast(b)
    PROVE  IInv'
<1> USE DEF IInv
<1>1. /\ broadcast[b].pc = "translate" /\ \A l \in Locales : task[<<b, l>>].pc = "idle"
      /\ broadcast' = [broadcast EXCEPT ![b] = NoBroadcast]
      /\ disturbed' = disturbed \ {b} /\ UNCHANGED <<row, task, limiter>>
  BY DEF EmitBroadcast, AllResolved, TasksOf
<1>2. Texts # {} /\ NoBroadcast \in [pc : {"idle", "check", "translate"}, text : Texts,
                                     sent : [Locales -> Texts \cup {Source, Manual}]]
  BY IdleIsTyped, TypesOfTasks DEF OtherTypeOK
<1>3. /\ broadcast'[b] = NoBroadcast /\ NoBroadcast.pc = "idle"
      /\ \A c \in Broadcasts \ {b} : broadcast'[c] = broadcast[c]
  BY <1>1, <1>2, IdleIsTyped, TypesOfTasks DEF OtherTypeOK
<1>4. TaskTypeOK' /\ SlotInv'
  BY <1>1, TypesOfTasks, TasksUndisturbed DEF TaskTypeOK
<1>5. OtherTypeOK'
  BY <1>1, <1>2, TypesOfTasks DEF EmitBroadcast, OtherTypeOK, bounds
<1>6. Follows(b)' /\ Copied(b)'
  BY <1>1, <1>3 DEF Follows, Copied
<1>7. ASSUME NEW c \in Broadcasts \ {b} PROVE Follows(c)' /\ (c \notin disturbed' => Copied(c)')
  <2>1. broadcast'[c] = broadcast[c] /\ (c \notin disturbed' => c \notin disturbed)
    BY <1>1, <1>3
  <2> QED
    BY <1>1, <2>1 DEF PhaseInv, Follows, CopyInv, Copied
<1> QED
  BY <1>4, <1>5, <1>6, <1>7, TypesOfTasks DEF PhaseInv, CopyInv

\* A restart of either process empties its limiter.
LEMMA RestartKeepsInv ==
    ASSUME IInv, RestartScheduler \/ RestartCore
    PROVE  IInv'
<1> USE DEF IInv
<1>1. Texts # {}
  BY TypesOfTasks DEF OtherTypeOK
<1> DEFINE NoSlots(p) == /\ running'[p] = 0 /\ waiting'[p] = <<>>
                         /\ \A t \in Tasks : ProcessOf(t) = p => task'[t].pc = "idle"
<1>2. ASSUME NEW p \in Process, NoSlots(p) PROVE SlotsOf(p)'
  <2>1. Holding(p)' = {} /\ Queued(p)' = {}
    BY <1>2 DEF Holding, Queued
  <2>2. Cardinality(Holding(p)') = 0 /\ Lists(<<>>, Queued(p)')
    BY <2>1, FS_EmptySet, ListsNone
  <2> QED
    BY <1>2, <2>2 DEF SlotsOf
<1>3. Idle \in TaskStates /\ Idle.pc = "idle" /\ 0 \in 0..Limit /\ <<>> \in Seq(Tasks)
  BY <1>1, IdleIsTyped, TranslationsAssumption, EmptySeq
<1>4. /\ edits' \in 0..MaxEdits /\ faults' \in 0..MaxFaults
      /\ UNCHANGED <<tile, text, row, queue>>
  BY TypesOfTasks, TranslationsAssumption DEF RestartScheduler, RestartCore, Fault, OtherTypeOK
<1>5. CASE RestartScheduler
  <2>1. /\ \A t \in Tasks : task'[t] = IF t \in Workers THEN Idle ELSE task[t]
        /\ running' = [running EXCEPT !["scheduler"] = 0]
        /\ waiting' = [waiting EXCEPT !["scheduler"] = <<>>]
        /\ task' = [t \in Tasks |-> task'[t]]
        /\ UNCHANGED <<reader, broadcast, disturbed>> /\ timers' = {}
    BY <1>5 DEF RestartScheduler
  <2>2. TaskTypeOK'
    BY <1>3, <2>1, TypesOfTasks DEF TaskTypeOK
  <2>3. NoSlots("scheduler")
    BY <1>3, <2>1, TypesOfTasks DEF TaskTypeOK, ProcessOf, Process
  <2>4. SlotsOf("core")'
    <3>1. running'["core"] = running["core"] /\ waiting'["core"] = waiting["core"]
      BY <2>1, TypesOfTasks DEF TaskTypeOK, Process
    <3>2. \A t \in Tasks : ProcessOf(t) = "core" => task'[t] = task[t]
      BY <2>1 DEF ProcessOf
    <3> QED
      BY <3>1, <3>2, SlotsUndisturbed DEF SlotInv, Process
  <2>5. SlotInv'
    BY <1>2, <2>3, <2>4 DEF SlotInv, Process
  <2>6. OtherTypeOK'
    BY <1>4, <2>1, TypesOfTasks DEF OtherTypeOK
  <2>7. \A b \in Broadcasts, l \in Locales : task'[<<b, l>>] = task[<<b, l>>]
    BY <2>1, TaskFacts
  <2>8. PhaseInv' /\ CopyInv'
    BY <1>4, <2>1, <2>7 DEF PhaseInv, Follows, CopyInv, Copied
  <2> QED
    BY <2>2, <2>5, <2>6, <2>8, TypesOfTasks
<1>6. CASE RestartCore
  <2>1. /\ \A t \in Tasks : task'[t] = IF t \in Workers THEN task[t] ELSE Idle
        /\ running' = [running EXCEPT !["core"] = 0]
        /\ waiting' = [waiting EXCEPT !["core"] = <<>>]
        /\ task' = [t \in Tasks |-> task'[t]]
        /\ reader' = [r \in Readers |-> NoRead] /\ disturbed' = {} /\ timers' = timers
        /\ broadcast' = [b \in Broadcasts |-> NoBroadcast]
    BY <1>6 DEF RestartCore
  <2>2. TaskTypeOK'
    BY <1>3, <2>1, TypesOfTasks DEF TaskTypeOK
  <2>3. NoSlots("core")
    BY <1>3, <2>1, TypesOfTasks DEF TaskTypeOK, ProcessOf, Process
  <2>4. SlotsOf("scheduler")'
    <3>1. /\ running'["scheduler"] = running["scheduler"]
          /\ waiting'["scheduler"] = waiting["scheduler"]
      BY <2>1, TypesOfTasks DEF TaskTypeOK, Process
    <3>2. \A t \in Tasks : ProcessOf(t) = "scheduler" => task'[t] = task[t]
      BY <2>1 DEF ProcessOf
    <3> QED
      BY <3>1, <3>2, SlotsUndisturbed DEF SlotInv, Process
  <2>5. SlotInv'
    BY <1>2, <2>3, <2>4 DEF SlotInv, Process
  <2>6. OtherTypeOK'
    BY <1>1, <1>4, <2>1, IdleIsTyped, TypesOfTasks DEF OtherTypeOK
  <2>7. \A b \in Broadcasts, l \in Locales : task'[<<b, l>>].pc = "idle"
    BY <1>3, <2>1, TaskFacts
  <2>8. \A b \in Broadcasts : broadcast'[b].pc = "idle"
    BY <1>1, <2>1, IdleIsTyped
  <2>9. PhaseInv' /\ CopyInv'
    BY <2>7, <2>8 DEF PhaseInv, Follows, CopyInv, Copied
  <2> QED
    BY <2>2, <2>5, <2>6, <2>9, TypesOfTasks
<1> QED
  BY <1>5, <1>6

-----------------------------------------------------------------------------
(* The theorems                                                            *)

\* It holds initially.
LEMMA InitEstablishesInv == Init => IInv
<1> SUFFICES ASSUME Init PROVE IInv
  OBVIOUS
<1>1. Texts # {} /\ 0 \in 0..Limit /\ <<>> \in Seq(Tasks)
  BY TranslationsAssumption, EmptySeq DEF Init
<1>2. \A t \in Tasks : task[t] = Idle /\ Idle \in TaskStates /\ Idle.pc = "idle"
  BY <1>1, IdleIsTyped DEF Init
<1>3. TaskTypeOK
  BY <1>1, <1>2 DEF Init, TaskTypeOK
<1>4. SlotInv
  <2> SUFFICES ASSUME NEW p \in Process PROVE SlotsOf(p)
    BY DEF SlotInv
  <2>1. Holding(p) = {} /\ Queued(p) = {}
    BY <1>2 DEF Holding, Queued
  <2>2. Cardinality(Holding(p)) = 0 /\ Lists(<<>>, Queued(p))
    BY <2>1, FS_EmptySet, ListsNone
  <2>3. running[p] = 0 /\ waiting[p] = <<>>
    BY DEF Init
  <2> QED
    BY <2>2, <2>3 DEF SlotsOf
<1>5. OtherTypeOK
  <2>1. /\ row \in [Locales -> Texts \cup {NoRow, Manual}]
        /\ \A l \in Locales : tile => row[l] # Manual
    BY DEF Init, NoRow, Manual
  <2>2. /\ edits \in 0..MaxEdits /\ faults \in 0..MaxFaults
        /\ disturbed = {} /\ queue = {} /\ timers = {} /\ tile \in BOOLEAN /\ text \in Texts
    BY TranslationsAssumption DEF Init
  <2>3. reader \in [Readers -> [pc : {"idle", "look"}, locale : Locales, text : Texts]]
    BY <1>1, IdleIsTyped DEF Init
  <2>4. broadcast \in [Broadcasts -> [pc : {"idle", "check", "translate"}, text : Texts,
                                     sent : [Locales -> Texts \cup {Source, Manual}]]]
    BY <1>1, IdleIsTyped DEF Init
  <2> QED
    BY <2>1, <2>2, <2>3, <2>4 DEF OtherTypeOK
<1>6. \A b \in Broadcasts : broadcast[b].pc = "idle"
  BY <1>1, IdleIsTyped DEF Init
<1>7. PhaseInv /\ CopyInv
  BY <1>2, <1>6, TaskFacts DEF PhaseInv, Follows, CopyInv, Copied
<1> QED
  BY <1>3, <1>4, <1>5, <1>7, TypesOfTasks DEF IInv

\* Every step keeps it.
LEMMA NextKeepsInv == IInv /\ [Next]_vars => IInv'
<1> SUFFICES ASSUME IInv, [Next]_vars PROVE IInv'
  OBVIOUS
<1>1. ASSUME NEW t \in Tasks, TaskStep(t) PROVE IInv'
  BY <1>1, CallKeepsInv, EndKeepsInv DEF TaskStep
<1>2. ASSUME NEW b \in Broadcasts, BroadcastStep(b) PROVE IInv'
  BY <1>2, CheckFailsKeepsInv, StartKeepsInv, EmitKeepsInv, CheckKeepsInv, ResolveKeepsInv
     DEF BroadcastStep
<1>3. ASSUME NEW b \in Broadcasts, UpdateTile(b) PROVE IInv'
  BY <1>3, UpdateKeepsInv
<1>4. ASSUME NEW w \in Workers, NEW j \in Job, HandleAutoTranslate(w, j) PROVE IInv'
  BY <1>4, HandleKeepsInv
<1>5. CASE RestartScheduler \/ RestartCore
  BY <1>5, RestartKeepsInv
<1> QED
  BY <1>1, <1>2, <1>3, <1>4, <1>5, OthersKeepInv DEF Next

\* It holds of every reachable state.
LEMMA InvHolds == Spec => []IInv
  BY InitEstablishesInv, NextKeepsInv, PTL DEF Spec

\* The limiter of a process (translation concurrency of DeepL) counts the tasks that
\* have a slot, queues each waiting task once and lets none wait while a slot is
\* free, in whatever order tasks end, fail and are handed a slot.
THEOREM LimiterIsExact == Spec => []SlotsAreKept
<1>1. IInv => SlotsAreKept
  <2> SUFFICES ASSUME IInv PROVE SlotsAreKept
    OBVIOUS
  <2>1. ASSUME NEW p \in Process
        PROVE  LET In(pcs) == {t \in Tasks : ProcessOf(t) = p /\ task[t].pc \in pcs}
               IN  /\ running[p] = Cardinality(In({"call", "write"}))
                   /\ {waiting[p][i] : i \in DOMAIN waiting[p]} = In({"wait"})
                   /\ Len(waiting[p]) = Cardinality(In({"wait"}))
                   /\ waiting[p] # <<>> => running[p] = Limit
    <3>1. SlotsOf(p) /\ waiting[p] \in Seq(Tasks)
      BY TypesOfTasks DEF IInv, SlotInv, TaskTypeOK
    <3>2. DOMAIN waiting[p] = 1..Len(waiting[p])
      BY <3>1, LenProperties
    <3>3. /\ {waiting[p][i] : i \in 1..Len(waiting[p])} = Queued(p)
          /\ Len(waiting[p]) = Cardinality(Queued(p))
      BY <3>1, ListsLength DEF SlotsOf, Lists
    <3>4. /\ Holding(p) = {t \in Tasks : ProcessOf(t) = p /\ task[t].pc \in {"call", "write"}}
          /\ Queued(p) = {t \in Tasks : ProcessOf(t) = p /\ task[t].pc \in {"wait"}}
      BY DEF Holding, Queued
    <3> QED
      BY <3>1, <3>2, <3>3, <3>4 DEF SlotsOf
  <2> QED
    BY <2>1 DEF SlotsAreKept, IInv
<1> QED
  BY <1>1, InvHolds, PTL

\* A broadcast sends each locale the translation of its own text, however many jobs
\* of other texts are handled meanwhile, unless one of its translations failed or
\* was replaced before it was read.
THEOREM BroadcastsAreTranslated == Spec => []BroadcastIsTranslated
<1>1. IInv => BroadcastIsTranslated
  <2> SUFFICES ASSUME IInv, NEW b \in Broadcasts \ disturbed, AllResolved(b), NEW l \in Locales
               PROVE  broadcast[b].sent[l] = broadcast[b].text
    BY DEF BroadcastIsTranslated
  <2>1. broadcast[b].pc = "translate" /\ task[<<b, l>>].pc = "idle"
    BY DEF AllResolved, TasksOf
  <2> QED
    BY <2>1 DEF IInv, CopyInv, Copied
<1> QED
  BY <1>1, InvHolds, PTL

-----------------------------------------------------------------------------
(* Images                                                                  *)

Uploading == {"replace", "upload", "write"}
Removing  == {"remove", "clear", "purge", "drop"}
Column    == Uploading \cup Removing

\* Nothing has gone wrong: no call has failed, and no requests have overlapped
\* that are not alike.
Smooth == ~conflict /\ failures = MaxFailures

\* Requests about the column: at least two of them upload to the same key.
Alike ==
    \A r, q \in Requests :
        r # q /\ pc[r] \in Column /\ pc[q] \in Column =>
            pc[r] \in Uploading /\ pc[q] \in Uploading /\ ext[r] = ext[q]

\* Who is about to write has its file in the store, or another is about to store it.
Written ==
    \A r \in Requests : pc[r] = "write" =>
        ext[r] \in files \/ \E q \in Requests : pc[q] = "upload"

ColumnInv ==
    /\ ~exists => url = "none"
    /\ kind = "gallery" => url = "none" /\ \A r \in Requests : pc[r] \notin Column
    /\ Smooth => Alike /\ Written /\ RowHasFile

\* Rows that are, or were when a request found them.
AllMedia(f) == media \cup UNION {f[r] : r \in Requests}

\* The keys of rows and of files that have no row yet all differ.
MediaInv == Smooth =>
    /\ MediaHaveFiles
    /\ \A m \in AllMedia(target) : m.key \in moments
    /\ \A m, n \in AllMedia(target) : m.key = n.key => m = n
    /\ \A r \in Requests : pc[r] = "createMedia" =>
          /\ file[r] \in stored \cap moments
          /\ \A m \in AllMedia(target) : m.key # file[r]
          /\ \A q \in Requests \ {r} : pc[q] = "createMedia" => file[q] # file[r]

\* What has to hold that nothing may be left behind.
Tidy ==
    /\ Smooth
    /\ pathStyle
    /\ kind # "profilePhoto"
    /\ kind = "listingHero" => exists

\* A request knows the image that is there or, if it uploads, one that it or one
\* like it has replaced; once it has deleted that, it is gone.
KnowsImage(r) ==
    /\ pc[r] \in Column => exists
    /\ pc[r] \in Uploading =>
          url \in {old[r], ext[r]} \/ (old[r] = Placeholder /\ url = "none")
    /\ pc[r] \in Removing => url = old[r]
    /\ pc[r] \in {"upload", "write", "clear", "drop"} =>
          old[r] \notin files \/ old[r] \in {ext[r], Placeholder}

TidyInv == Tidy =>
    /\ \A r \in Requests : KnowsImage(r)
    /\ \A k \in files \ {Placeholder, url} : \E r \in Requests : pc[r] = "write" /\ ext[r] = k

ImagesInv == ImagesTypeOK /\ ColumnInv /\ MediaInv /\ TidyInv

\* Images begin well typed.
LEMMA ImagesTypeInit == ImagesInit => ImagesTypeOK
<1>1. MaxRequests \in Nat /\ MaxFailures \in Nat
  BY ImagesAssumption
<1>2. NoFile \in Nat \X Nat
  BY DEF NoFile
<1>3. ImagesInit => \A r \in Requests : ext[r] = "none" /\ pc[r] = "idle"
  BY DEF ImagesInit
<1>4. ImagesInit => /\ kind \in Kinds
                    /\ {pathStyle, exists, conflict} \subseteq BOOLEAN
                    /\ url \in Exts \cup {"none"}
                    /\ files \subseteq Exts \cup {Placeholder}
                    /\ pc \in [Requests -> Stages]
                    /\ old \in [Requests -> Exts \cup {Placeholder, "none"}]
                    /\ ext \in [Requests -> Exts \cup {"none"}]
  BY DEF ImagesInit, Stages
<1>5. ImagesInit => /\ media \subseteq [by : Requests, key : Nat \X Nat]
                    /\ stored \cup moments \subseteq Nat \X Nat
                    /\ clock \in Nat
                    /\ file \in [Requests -> Nat \X Nat]
                    /\ target \in [Requests -> SUBSET [by : Requests, key : Nat \X Nat]]
                    /\ left \in 0..MaxRequests
                    /\ failures \in 0..MaxFailures
  BY <1>1, <1>2 DEF ImagesInit
<1> QED BY <1>3, <1>4, <1>5 DEF ImagesTypeOK

\* What a request starts with: an upload with the image it will replace, a
\* deletion with the image that is there.
LEMMA WhatStarts ==
    ASSUME ImagesTypeOK, NEW r \in Requests, Upload(r) \/ Delete(r)
    PROVE  \E a \in {"replace", "remove", "purge"}, k \in Exts \cup {Placeholder, "none"},
              x \in Exts \cup {"none"} :
              /\ Start(r, a, k, x)
              /\ kind # "gallery"
              /\ x # "none" <=> a = "replace"
              /\ \/ k = url
                 \/ k = Placeholder /\ url = "none" /\ a = "replace"
                 \/ kind = "profilePhoto"
<1>0. url \in Exts \cup {"none"}
  BY DEF ImagesTypeOK
<1>1. CASE Upload(r)
  <2>1. PICK x \in Exts, k \in {url, Placeholder, "none"} :
            /\ Start(r, "replace", k, x)
            /\ kind # "gallery"
            /\ \/ k = url
               \/ k = Placeholder /\ url = "none"
               \/ kind = "profilePhoto"
    BY <1>1 DEF Upload, UploadHeroImage, UploadTileBackground, UploadTileIcon, UploadCityHeader,
                UploadDarkLogo, UploadLightLogo, UploadCategoryImage, UploadCategoryIcon,
                UploadCityCategoryImage, UploadCityCategoryIcon, UploadProfilePhoto
  <2>2. x # "none"
    BY DEF Exts
  <2> QED BY <1>0, <2>1, <2>2
<1>2. CASE Delete(r)
  <2>1. PICK a \in {"remove", "purge"} : Start(r, a, url, "none") /\ kind # "gallery"
    BY <1>2 DEF Delete, DeleteHeroImage, DeleteCityHeader, DeleteDarkLogo, DeleteLightLogo,
                DeleteCategoryImage, DeleteCategoryIcon, DeleteCityCategoryImage,
                DeleteCityCategoryIcon, DeleteTile, DeleteCategory, TileImages, CategoryImages
  <2> QED BY <1>0, <2>1
<1> QED BY <1>1, <1>2

\* Every step of Images keeps the types.
LEMMA ImagesStepTyped ==
    ASSUME ImagesTypeOK, [ImagesNext]_imageVars PROVE ImagesTypeOK'
<1> USE DEF Goto
<1>0. /\ MaxRequests \in Nat /\ left \in 0..MaxRequests
      /\ left > 0 => left - 1 \in 0..MaxRequests
  BY ImagesAssumption DEF ImagesTypeOK
<1>1. ASSUME NEW r \in Requests, Upload(r) \/ Delete(r) PROVE ImagesTypeOK'
  <2>1. PICK a \in {"replace", "remove", "purge"}, k \in Exts \cup {Placeholder, "none"},
             x \in Exts \cup {"none"} :
             Start(r, a, k, x) /\ (x # "none" <=> a = "replace")
    BY <1>1, WhatStarts
  <2>2. left' \in 0..MaxRequests /\ conflict' \in BOOLEAN
    BY <1>0, <2>1 DEF Start, Unlike, ImagesTypeOK
  <2> QED BY <2>1, <2>2 DEF Start, ImagesTypeOK, Stages, rowVars, gallery
<1>2. ASSUME NEW r \in Requests, DeleteOld(r) \/ RemoveFile(r) \/ PurgeFile(r) PROVE ImagesTypeOK'
  <2>1. files' \subseteq files /\ failures' \in 0..MaxFailures /\ left' = left
    BY <1>2, ImagesAssumption
    DEF DeleteOld, RemoveFile, PurgeFile, DeleteFile, Failure, boundVars, ImagesTypeOK
  <2>2. PICK b : /\ pc' = [pc EXCEPT ![r] = b]
                 /\ <<pc[r], b>> \in {<<"replace", "upload">>, <<"remove", "clear">>, <<"purge", "drop">>}
                 /\ UNCHANGED <<kind, pathStyle, rowVars, old, ext, conflict, gallery>>
    BY <1>2 DEF DeleteOld, RemoveFile, PurgeFile
  <2> QED BY <2>1, <2>2 DEF ImagesTypeOK, Stages, rowVars, gallery
<1>3. ASSUME NEW r \in Requests, StoreFile(r) PROVE ImagesTypeOK'
  BY <1>3 DEF StoreFile, ImagesTypeOK, Stages, rowVars, gallery, boundVars
<1>4. ASSUME NEW r \in Requests, WriteUrl(r) \/ ClearUrl(r) \/ DropRow(r) PROVE ImagesTypeOK'
  <2>1. CASE WriteUrl(r)
    BY <2>1 DEF WriteUrl, Finish, ImagesTypeOK, Stages, rowVars, gallery, boundVars
  <2>2. CASE ClearUrl(r)
    BY <2>2 DEF ClearUrl, Finish, ImagesTypeOK, Stages, rowVars, gallery, boundVars
  <2>3. CASE DropRow(r)
    BY <2>3 DEF DropRow, Finish, ImagesTypeOK, Stages, rowVars, gallery, boundVars
  <2> QED BY <1>4, <2>1, <2>2, <2>3
<1>5. ASSUME NEW r \in Requests, UploadMedia(r) \/ DeleteListingMedia(r) PROVE ImagesTypeOK'
  <2>1. CASE UploadMedia(r)
    BY <1>0, <2>1 DEF UploadMedia, ImagesTypeOK, Stages, rowVars, gallery
  <2>2. CASE DeleteListingMedia(r)
    <3>1. PICK M \in SUBSET media : target' = [target EXCEPT ![r] = M]
      BY <2>2 DEF DeleteListingMedia
    <3>2. target' \in [Requests -> SUBSET [by : Requests, key : Nat \X Nat]]
      BY <3>1 DEF ImagesTypeOK
    <3> QED BY <1>0, <2>2, <3>2 DEF DeleteListingMedia, ImagesTypeOK, Stages, rowVars
  <2> QED BY <1>5, <2>1, <2>2
<1>6. ASSUME NEW r \in Requests, StoreMedia(r) PROVE ImagesTypeOK'
  BY <1>6 DEF StoreMedia, MediaKey, ImagesTypeOK, Stages, rowVars, boundVars
<1>7. ASSUME NEW r \in Requests, CreateListingMedia(r) PROVE ImagesTypeOK'
  <2>1. media' \subseteq [by : Requests, key : Nat \X Nat]
    BY <1>7 DEF CreateListingMedia, ImagesTypeOK
  <2>2. file' \in [Requests -> Nat \X Nat]
    BY <1>7 DEF CreateListingMedia, ImagesTypeOK, NoFile
  <2>3. PICK b \in {"storeMedia", "idle"} : pc' = [pc EXCEPT ![r] = b]
    BY <1>7 DEF CreateListingMedia
  <2> QED BY <1>7, <2>1, <2>2, <2>3 DEF CreateListingMedia, ImagesTypeOK, Stages, rowVars, boundVars
<1>8. ASSUME NEW r \in Requests, EraseMedia(r) PROVE ImagesTypeOK'
  <2>1. stored' \subseteq stored /\ failures' \in 0..MaxFailures /\ left' = left /\ conflict' = conflict
    BY <1>8, ImagesAssumption DEF EraseMedia, Failure, boundVars, ImagesTypeOK
  <2> QED BY <1>8, <2>1 DEF EraseMedia, ImagesTypeOK, Stages, rowVars
<1>9. ASSUME NEW r \in Requests, ForgetMedia(r) PROVE ImagesTypeOK'
  BY <1>9 DEF ForgetMedia, ImagesTypeOK, Stages, rowVars, boundVars
<1>10. ASSUME NEW r \in Requests, Fail(r) PROVE ImagesTypeOK'
  BY <1>10, ImagesAssumption DEF Fail, Failure, Finish, NoFile, ImagesTypeOK, Stages, rowVars
<1>11. CASE ExpireListing
  BY <1>11 DEF ExpireListing, ImagesTypeOK, boundVars
<1>12. CASE Tick
  BY <1>12 DEF Tick, ImagesTypeOK, boundVars, rowVars
<1>13. CASE UNCHANGED imageVars
  BY <1>13 DEF imageVars, ImagesTypeOK
<1> QED
  BY <1>1, <1>2, <1>3, <1>4, <1>5, <1>6, <1>7, <1>8, <1>9, <1>10, <1>11, <1>12, <1>13
  DEF ImagesNext, Step

-----------------------------------------------------------------------------
\* What the steps have in common.

MediaPlaces == {"storeMedia", "createMedia", "eraseMedia", "forgetMedia"}

\* Once something has gone wrong it stays so.
LEMMA SmoothBefore ==
    ASSUME ImagesTypeOK, [ImagesNext]_imageVars PROVE Smooth' => Smooth
<1> DEFINE G == failures' \in {failures, failures - 1} /\ (conflict => conflict')
<1>1. ASSUME NEW r \in Requests, Upload(r) \/ Delete(r) PROVE G
  BY <1>1, WhatStarts DEF Start
<1>2. ASSUME NEW r \in Requests, DeleteOld(r) \/ RemoveFile(r) \/ PurgeFile(r) \/ EraseMedia(r)
      PROVE  G
  BY <1>2 DEF DeleteOld, RemoveFile, PurgeFile, EraseMedia, DeleteFile, Failure, boundVars
<1>3. ASSUME NEW r \in Requests,
             \/ StoreFile(r) \/ WriteUrl(r) \/ ClearUrl(r) \/ DropRow(r) \/ Fail(r)
             \/ UploadMedia(r) \/ DeleteListingMedia(r)
      PROVE  G
  BY <1>3 DEF StoreFile, WriteUrl, ClearUrl, DropRow, Fail, UploadMedia, DeleteListingMedia,
              Failure, boundVars
<1>6. ASSUME NEW r \in Requests, CreateListingMedia(r) \/ ForgetMedia(r) PROVE G
  <2>1. UNCHANGED <<boundVars, conflict>>
    BY <1>6 DEF CreateListingMedia, ForgetMedia
  <2> QED BY <2>1 DEF boundVars
<1>7. ASSUME NEW r \in Requests, StoreMedia(r) PROVE G
  <2>1. UNCHANGED boundVars
    BY <1>7 DEF StoreMedia
  <2>2. conflict' = (conflict \/ <<clock, file[r][2]>> \in moments)
    BY <1>7 DEF StoreMedia
  <2> QED BY <2>1, <2>2 DEF boundVars
<1>4. ASSUME ExpireListing \/ Tick \/ UNCHANGED imageVars PROVE G
  BY <1>4 DEF ExpireListing, Tick, imageVars, boundVars
<1>5. G
  BY <1>1, <1>2, <1>3, <1>4, <1>6, <1>7 DEF ImagesNext, Step
<1> QED BY <1>5, ImagesAssumption DEF Smooth, ImagesTypeOK

\* A failure is remembered.
LEMMA FailureShows ==
    ASSUME ImagesTypeOK, Failure PROVE ~Smooth'
BY ImagesAssumption DEF Smooth, Failure, ImagesTypeOK

\* Steps that are not about the column leave it and the requests about it alone.
ColumnKept ==
    /\ UNCHANGED <<kind, pathStyle, exists, url, files, old, ext>>
    /\ \A q \in Requests : pc'[q] = pc[q] \/ {pc[q], pc'[q]} \cap Column = {}

\* Steps that are not about the gallery leave it and the requests about it alone.
GalleryKept ==
    /\ UNCHANGED gallery
    /\ \A q \in Requests : pc'[q] = pc[q] \/ {pc[q], pc'[q]} \cap MediaPlaces = {}

GallerySteps(r) ==
    \/ UploadMedia(r) \/ StoreMedia(r) \/ CreateListingMedia(r)
    \/ DeleteListingMedia(r) \/ EraseMedia(r) \/ ForgetMedia(r)

ColumnSteps(r) ==
    \/ DeleteOld(r) \/ StoreFile(r) \/ WriteUrl(r) \/ RemoveFile(r)
    \/ ClearUrl(r) \/ PurgeFile(r) \/ DropRow(r)

\* What concerns galleries leaves the images of columns alone.
LEMMA ColumnApart ==
    ASSUME ImagesTypeOK,
           (\E r \in Requests : GallerySteps(r)) \/ Tick \/ UNCHANGED imageVars
    PROVE  ColumnKept
<1>0. pc \in [Requests -> Stages]
  BY DEF ImagesTypeOK
<1>1. ASSUME NEW r \in Requests, GallerySteps(r) PROVE ColumnKept
  <2>1. UNCHANGED <<kind, pathStyle, exists, url, files, old, ext>>
    BY <1>1 DEF GallerySteps, UploadMedia, StoreMedia, CreateListingMedia, DeleteListingMedia,
                EraseMedia, ForgetMedia, rowVars
  <2>2. PICK b \in MediaPlaces \cup {"idle"} : pc' = [pc EXCEPT ![r] = b]
    BY <1>1 DEF GallerySteps, UploadMedia, StoreMedia, CreateListingMedia, DeleteListingMedia,
                EraseMedia, ForgetMedia, Goto, MediaPlaces
  <2>3. pc[r] \in MediaPlaces \cup {"idle"}
    BY <1>1 DEF GallerySteps, UploadMedia, StoreMedia, CreateListingMedia, DeleteListingMedia,
                EraseMedia, ForgetMedia, MediaPlaces
  <2>4. (MediaPlaces \cup {"idle"}) \cap Column = {}
    BY DEF MediaPlaces, Column, Uploading, Removing
  <2>5. \A q \in Requests : pc'[q] = IF q = r THEN b ELSE pc[q]
    BY <1>0, <2>2
  <2> QED BY <2>1, <2>2, <2>3, <2>4, <2>5 DEF ColumnKept
<1>2. CASE Tick
  BY <1>2 DEF Tick, ColumnKept, rowVars
<1>3. CASE UNCHANGED imageVars
  BY <1>3 DEF imageVars, ColumnKept
<1> QED BY <1>1, <1>2, <1>3

\* What concerns columns leaves galleries alone.
LEMMA GalleryApart ==
    ASSUME ImagesTypeOK, NEW r \in Requests, Upload(r) \/ Delete(r) \/ ColumnSteps(r)
    PROVE  GalleryKept
<1>0. pc \in [Requests -> Stages]
  BY DEF ImagesTypeOK
<1>2. PICK b \in Column \cup {"idle"} : pc' = [pc EXCEPT ![r] = b] /\ UNCHANGED gallery
                                        /\ pc[r] \in Column \cup {"idle"}
  <2>1. CASE Upload(r) \/ Delete(r)
    BY <2>1, WhatStarts DEF Start, Goto, Column, Uploading, Removing
  <2>2. CASE ColumnSteps(r)
    BY <2>2 DEF ColumnSteps, DeleteOld, StoreFile, WriteUrl, RemoveFile, ClearUrl, PurgeFile, DropRow,
                Finish, Goto, Column, Uploading, Removing
  <2> QED BY <2>1, <2>2
<1>3. (Column \cup {"idle"}) \cap MediaPlaces = {}
  BY DEF MediaPlaces, Column, Uploading, Removing
<1>4. \A q \in Requests : pc'[q] = IF q = r THEN b ELSE pc[q]
  BY <1>0, <1>2
<1> QED BY <1>2, <1>3, <1>4 DEF GalleryKept

-----------------------------------------------------------------------------
(* The column                                                              *)

\* Requests about the column stay alike while each goes on as it began or ends.
LEMMA AlikeKept ==
    ASSUME Alike,
           \A q \in Requests : pc'[q] \in Column =>
               /\ pc[q] \in Column /\ ext'[q] = ext[q]
               /\ pc[q] \in Uploading => pc'[q] \in Uploading
    PROVE  Alike'
BY DEF Alike

\* A request that begins overlaps only such as are alike.
LEMMA AlikeBegins ==
    ASSUME ImagesTypeOK, Smooth => Alike, NEW r \in Requests,
           NEW a \in {"replace", "remove", "purge"}, NEW k, NEW x \in Exts \cup {"none"},
           Start(r, a, k, x), x # "none" <=> a = "replace", Smooth'
    PROVE  /\ Alike'
           /\ \A q \in Requests \ {r} : pc[q] = "idle" \/ (a = "replace" /\ ext[q] = x)
<1>0. /\ pc \in [Requests -> Stages] /\ ext \in [Requests -> Exts \cup {"none"}]
      /\ \A q \in Requests : ext[q] # "none" <=> pc[q] \in Uploading
      /\ pc' = [pc EXCEPT ![r] = a] /\ ext' = [ext EXCEPT ![r] = x]
  BY DEF ImagesTypeOK, Start, Goto, Uploading
<1>1. Smooth /\ ~Unlike(r, a, x)
  BY DEF Smooth, Start
<1>2. \A q \in Requests \ {r} : pc[q] = "idle" \/ (a = "replace" /\ ext[q] = x)
  BY <1>1 DEF Unlike
<1>3. ASSUME NEW q \in Requests \ {r}, pc'[q] \in Column
      PROVE  a \in Uploading /\ pc'[q] \in Uploading /\ ext'[q] = x
  <2>1. pc'[q] = pc[q] /\ ext'[q] = ext[q] /\ pc[q] # "idle"
    BY <1>0, <1>3 DEF Column, Uploading, Removing
  <2> QED BY <1>0, <1>2, <2>1 DEF Uploading
<1>4. pc'[r] = a /\ ext'[r] = x
  BY <1>0
<1>5. Alike'
  BY <1>3, <1>4 DEF Alike
<1> QED BY <1>2, <1>5

\* Every step keeps what the images of columns rest on.
LEMMA ColumnStep ==
    ASSUME ImagesTypeOK, ColumnInv, [ImagesNext]_imageVars PROVE ColumnInv'
<1>0. /\ pc \in [Requests -> Stages] /\ ext \in [Requests -> Exts \cup {"none"}]
      /\ url \in Exts \cup {"none"}
      /\ \A q \in Requests : ext[q] # "none" <=> pc[q] \in Uploading
      /\ Smooth' => Smooth
      /\ exists \in BOOLEAN
  BY SmoothBefore DEF ImagesTypeOK, Uploading
<1>a. /\ ~exists => url = "none"
      /\ kind = "gallery" => url = "none" /\ \A r \in Requests : pc[r] \notin Column
      /\ Smooth => Alike /\ Written /\ RowHasFile
  BY DEF ColumnInv
<1>b. /\ Uploading \cap Removing = {} /\ Column = Uploading \cup Removing /\ "idle" \notin Column
      /\ {"upload", "write"} \subseteq Uploading /\ {"clear", "drop"} \subseteq Removing
  BY DEF Column, Uploading, Removing
<1>1. ASSUME NEW r \in Requests, Upload(r) \/ Delete(r) PROVE ColumnInv'
  <2>1. PICK a \in {"replace", "remove", "purge"}, k \in Exts \cup {Placeholder, "none"},
             x \in Exts \cup {"none"} :
             /\ Start(r, a, k, x) /\ (x # "none" <=> a = "replace")
             /\ kind # "gallery"
    BY <1>1, WhatStarts
  <2>2. /\ UNCHANGED <<kind, exists, url, files>>
        /\ pc' = [pc EXCEPT ![r] = a] /\ ext' = [ext EXCEPT ![r] = x]
        /\ pc[r] = "idle"
    BY <2>1 DEF Start, rowVars, Goto
  <2>3. Smooth' => Alike'
    BY <1>a, <2>1, AlikeBegins
  <2>4. \A q \in Requests, b \in {"upload", "write", "clear", "drop"} :
            (pc'[q] = b <=> pc[q] = b) /\ (pc[q] = b => ext'[q] = ext[q])
    BY <1>0, <2>2
  <2>5. Smooth' => Written' /\ RowHasFile'
    BY <1>0, <1>a, <2>2, <2>4 DEF Written, RowHasFile
  <2> QED BY <1>a, <2>1, <2>2, <2>3, <2>5 DEF ColumnInv
\* A request deletes a file: others may still need it, and it is about to store
\* one or to write the row.
<1>2. ASSUME NEW r \in Requests, DeleteOld(r) \/ RemoveFile(r) \/ PurgeFile(r)
      PROVE  ColumnInv'
  <2>1. PICK b : /\ pc' = [pc EXCEPT ![r] = b]
                 /\ <<pc[r], b>> \in {<<"replace", "upload">>, <<"remove", "clear">>, <<"purge", "drop">>}
                 /\ UNCHANGED <<kind, exists, url, ext>>
    BY <1>2 DEF DeleteOld, RemoveFile, PurgeFile, Goto, rowVars
  <2>2. pc'[r] = b /\ b \in {"upload", "clear", "drop"} /\ \A q \in Requests \ {r} : pc'[q] = pc[q]
    BY <1>0, <2>1
  <2>3. pc[r] \in Column /\ (pc[r] \in Uploading <=> b = "upload")
    BY <2>1 DEF Column, Uploading, Removing
  <2>4. Smooth' => Alike'
    BY <1>0, <1>a, <1>b, <2>1, <2>2, <2>3, AlikeKept
  <2>5. RowHasFile'
    BY <2>2 DEF RowHasFile
  <2>6. ASSUME Smooth', NEW q \in Requests, pc'[q] = "write"
        PROVE  \E s \in Requests : pc'[s] = "upload"
    <3>1. q # r /\ pc[q] = "write"
      BY <2>2, <2>6
    <3>2. pc[r] \in Uploading
      BY <1>0, <1>a, <1>b, <2>3, <2>6, <3>1 DEF Alike
    <3> QED BY <2>2, <2>3, <3>2
  <2>7. Smooth' => Written'
    BY <2>6 DEF Written
  <2>8. kind # "gallery"
    BY <1>a, <2>3
  <2> QED BY <1>a, <2>1, <2>4, <2>5, <2>7, <2>8 DEF ColumnInv
<1>3. ASSUME NEW r \in Requests, StoreFile(r) PROVE ColumnInv'
  <2>1. /\ pc[r] = "upload" /\ pc' = [pc EXCEPT ![r] = "write"]
        /\ files' = files \cup {ext[r]}
        /\ UNCHANGED <<kind, exists, url, ext>>
    BY <1>3 DEF StoreFile, Goto, rowVars
  <2>2. pc'[r] = "write" /\ \A q \in Requests \ {r} : pc'[q] = pc[q]
    BY <1>0, <2>1
  <2>4. Smooth' => Alike'
    BY <1>0, <1>a, <1>b, <2>1, <2>2, AlikeKept
  <2>5. RowHasFile'
    BY <2>2 DEF RowHasFile
  <2>6. ASSUME Smooth', NEW q \in Requests, pc'[q] = "write" PROVE ext'[q] \in files'
    BY <1>0, <1>a, <1>b, <2>1, <2>2, <2>6 DEF Alike
  <2>7. Smooth' => Written'
    BY <2>6 DEF Written
  <2>8. kind # "gallery"
    BY <1>a, <1>b, <2>1
  <2> QED BY <1>a, <2>1, <2>4, <2>5, <2>7, <2>8 DEF ColumnInv
<1>4. ASSUME NEW r \in Requests, WriteUrl(r) \/ ClearUrl(r) \/ DropRow(r) PROVE ColumnInv'
  <2>1. /\ pc[r] \in {"write", "clear", "drop"} /\ pc' = [pc EXCEPT ![r] = "idle"]
        /\ ext' = [ext EXCEPT ![r] = "none"]
        /\ UNCHANGED <<kind, files>> /\ (exists' => exists) /\ exists' \in BOOLEAN
        /\ url' = "none" \/ (exists' = exists /\ pc[r] = "write" /\ exists /\ url' = ext[r])
    <3>1. CASE WriteUrl(r)
      BY <1>0, <1>a, <3>1 DEF WriteUrl, Finish, Goto
    <3>2. CASE ClearUrl(r)
      BY <1>0, <1>a, <3>2 DEF ClearUrl, Finish, Goto
    <3>3. CASE DropRow(r)
      BY <1>0, <3>3 DEF DropRow, Finish, Goto
    <3> QED BY <1>4, <3>1, <3>2, <3>3
  <2>2. /\ pc'[r] = "idle"
        /\ \A q \in Requests \ {r} : pc'[q] = pc[q] /\ ext'[q] = ext[q]
    BY <1>0, <2>1
  <2>4. Smooth' => Alike'
    BY <1>0, <1>a, <1>b, <2>2, AlikeKept
  <2>5. \A q \in Requests : pc[q] = "upload" => pc'[q] = "upload"
    BY <2>1, <2>2
  <2>6. Smooth' => Written'
    BY <1>0, <1>a, <2>1, <2>2, <2>5 DEF Written
  <2>7. Smooth' => RowHasFile'
    BY <1>0, <1>a, <2>1, <2>5 DEF Written, RowHasFile
  <2>8. kind # "gallery"
    BY <1>a, <1>b, <2>1
  <2> QED BY <2>1, <2>4, <2>6, <2>7, <2>8 DEF ColumnInv
<1>5. ASSUME NEW r \in Requests, Fail(r) PROVE ColumnInv'
  <2>1. ~Smooth' /\ UNCHANGED <<kind, exists, url>> /\ pc' = [pc EXCEPT ![r] = "idle"]
    BY <1>5, FailureShows DEF Fail, Finish, Goto, rowVars
  <2>2. \A q \in Requests : pc'[q] \in {pc[q], "idle"}
    BY <1>0, <2>1
  <2> QED BY <1>a, <1>b, <2>1, <2>2 DEF ColumnInv
<1>6. CASE ExpireListing
  <2>1. exists' = FALSE /\ url' = "none" /\ UNCHANGED <<kind, files, pc, ext>>
    BY <1>6 DEF ExpireListing
  <2> QED BY <1>0, <1>a, <2>1 DEF ColumnInv, Alike, Written, RowHasFile
<1>7. ASSUME ColumnKept PROVE ColumnInv'
  <2>1. /\ UNCHANGED <<kind, exists, url, files, ext>>
        /\ \A q \in Requests : pc'[q] \in Column \/ pc[q] \in Column => pc'[q] = pc[q]
    BY <1>7 DEF ColumnKept
  <2>2. Alike => Alike'
    BY <2>1 DEF Alike
  <2>3. \A q \in Requests, b \in {"upload", "write", "clear", "drop"} : pc'[q] = b <=> pc[q] = b
    BY <1>b, <2>1
  <2>4. (Written => Written') /\ (RowHasFile => RowHasFile')
    BY <2>1, <2>3 DEF Written, RowHasFile
  <2> QED BY <1>0, <1>a, <2>1, <2>2, <2>4 DEF ColumnInv
<1> QED
  BY <1>1, <1>2, <1>3, <1>4, <1>5, <1>6, <1>7, ColumnApart DEF ImagesNext, Step, GallerySteps

-----------------------------------------------------------------------------
(* The gallery                                                             *)

\* Keys stay apart while none is added and no file goes.
LEMMA MediaKept ==
    ASSUME MediaInv, Smooth' => Smooth,
           media' \subseteq media, AllMedia(target)' \subseteq AllMedia(target),
           stored \subseteq stored', moments \subseteq moments',
           \A q \in Requests : pc'[q] = "createMedia" => pc[q] = "createMedia" /\ file'[q] = file[q],
           \A q \in Requests, m \in media' :
               pc[q] = "forgetMedia" /\ m \in target[q] => pc'[q] = "forgetMedia" /\ m \in target'[q]
    PROVE  MediaInv'
<1> SUFFICES ASSUME Smooth' PROVE /\ MediaHaveFiles'
                                  /\ \A m \in AllMedia(target)' : m.key \in moments'
                                  /\ \A m, n \in AllMedia(target)' : m.key = n.key => m = n
                                  /\ \A r \in Requests : pc'[r] = "createMedia" =>
                                        /\ file'[r] \in stored' \cap moments'
                                        /\ \A m \in AllMedia(target)' : m.key # file'[r]
                                        /\ \A q \in Requests \ {r} :
                                              pc'[q] = "createMedia" => file'[q] # file'[r]
  BY DEF MediaInv
<1>1. /\ MediaHaveFiles
      /\ \A m \in AllMedia(target) : m.key \in moments
      /\ \A m, n \in AllMedia(target) : m.key = n.key => m = n
      /\ \A r \in Requests : pc[r] = "createMedia" =>
            /\ file[r] \in stored \cap moments
            /\ \A m \in AllMedia(target) : m.key # file[r]
            /\ \A q \in Requests \ {r} : pc[q] = "createMedia" => file[q] # file[r]
  BY DEF MediaInv
<1>2. MediaHaveFiles'
  BY <1>1 DEF MediaHaveFiles
<1> QED BY <1>1, <1>2

\* Every step keeps what galleries rest on.
LEMMA MediaStep ==
    ASSUME ImagesTypeOK, MediaInv, [ImagesNext]_imageVars PROVE MediaInv'
<1>0. /\ pc \in [Requests -> Stages] /\ file \in [Requests -> Nat \X Nat]
      /\ target \in [Requests -> SUBSET [by : Requests, key : Nat \X Nat]]
      /\ Smooth' => Smooth
  BY SmoothBefore DEF ImagesTypeOK
<1>a. Smooth =>
          /\ MediaHaveFiles
          /\ \A m \in AllMedia(target) : m.key \in moments
          /\ \A m, n \in AllMedia(target) : m.key = n.key => m = n
          /\ \A r \in Requests : pc[r] = "createMedia" =>
                /\ file[r] \in stored \cap moments
                /\ \A m \in AllMedia(target) : m.key # file[r]
                /\ \A q \in Requests \ {r} : pc[q] = "createMedia" => file[q] # file[r]
  BY DEF MediaInv
<1>m. media \subseteq AllMedia(target) /\ \A q \in Requests : target[q] \subseteq AllMedia(target)
  BY DEF AllMedia
<1>b. ASSUME Smooth' =>
          /\ MediaHaveFiles'
          /\ \A m \in AllMedia(target)' : m.key \in moments'
          /\ \A m, n \in AllMedia(target)' : m.key = n.key => m = n
          /\ \A r \in Requests : pc'[r] = "createMedia" =>
                /\ file'[r] \in stored' \cap moments'
                /\ \A m \in AllMedia(target)' : m.key # file'[r]
                /\ \A q \in Requests \ {r} : pc'[q] = "createMedia" => file'[q] # file'[r]
      PROVE  MediaInv'
  BY <1>b DEF MediaInv
<1>1. ASSUME GalleryKept PROVE MediaInv'
  <2>1. /\ UNCHANGED <<media, stored, file, target, moments>>
        /\ \A q \in Requests, b \in {"createMedia", "forgetMedia"} : pc'[q] = b <=> pc[q] = b
    BY <1>1 DEF GalleryKept, gallery, MediaPlaces
  <2>2. AllMedia(target)' = AllMedia(target)
    BY <2>1 DEF AllMedia
  <2> QED BY <1>0, <2>1, <2>2, MediaKept
<1>2. CASE Tick \/ ExpireListing \/ UNCHANGED imageVars
  <2>1. /\ UNCHANGED <<stored, file, target, moments, pc>>
        /\ media' \subseteq media
    BY <1>2 DEF Tick, ExpireListing, imageVars
  <2>2. AllMedia(target)' \subseteq AllMedia(target)
    BY <2>1 DEF AllMedia
  <2> QED BY <1>0, <2>1, <2>2, MediaKept
<1>3. ASSUME NEW r \in Requests, Fail(r) PROVE MediaInv'
  BY <1>3, FailureShows DEF Fail, MediaInv
<1>4. ASSUME NEW r \in Requests, UploadMedia(r) PROVE MediaInv'
  <2>1. /\ UNCHANGED <<media, stored, file, target, moments>>
        /\ pc[r] = "idle" /\ pc' = [pc EXCEPT ![r] = "storeMedia"]
    BY <1>4 DEF UploadMedia, gallery, Goto
  <2>2. AllMedia(target)' = AllMedia(target)
    BY <2>1 DEF AllMedia
  <2>3. \A q \in Requests, b \in {"createMedia", "forgetMedia"} : pc'[q] = b <=> pc[q] = b
    BY <1>0, <2>1
  <2> QED BY <1>0, <2>1, <2>2, <2>3, MediaKept
<1>5. ASSUME NEW r \in Requests, DeleteListingMedia(r) PROVE MediaInv'
  <2>1. PICK M \in SUBSET media :
            /\ UNCHANGED <<media, stored, file, moments>>
            /\ target' = [target EXCEPT ![r] = M]
            /\ pc[r] = "idle" /\ pc' = [pc EXCEPT ![r] = "eraseMedia"]
    BY <1>5 DEF DeleteListingMedia, Goto
  <2>2. AllMedia(target)' \subseteq AllMedia(target)
    BY <1>0, <2>1 DEF AllMedia
  <2>3. \A q \in Requests, b \in {"createMedia", "forgetMedia"} : pc'[q] = b <=> pc[q] = b
    BY <1>0, <2>1
  <2>4. \A q \in Requests : pc[q] = "forgetMedia" => target'[q] = target[q]
    BY <1>0, <2>1
  <2> QED BY <1>0, <2>1, <2>2, <2>3, <2>4, MediaKept
<1>6. ASSUME NEW r \in Requests, ForgetMedia(r) PROVE MediaInv'
  <2>1. /\ UNCHANGED <<stored, file, moments>>
        /\ media' = media \ target[r]
        /\ target' = [target EXCEPT ![r] = {}]
        /\ pc' = [pc EXCEPT ![r] = "idle"]
    BY <1>6 DEF ForgetMedia, Goto
  <2>2. AllMedia(target)' \subseteq AllMedia(target)
    BY <1>0, <2>1 DEF AllMedia
  <2>3. \A q \in Requests : pc'[q] = "createMedia" => pc[q] = "createMedia"
    BY <1>0, <2>1
  <2>4. \A q \in Requests, m \in media' : 
            pc[q] = "forgetMedia" /\ m \in target[q] => pc'[q] = "forgetMedia" /\ m \in target'[q]
    BY <1>0, <2>1
  <2> QED BY <1>0, <2>1, <2>2, <2>3, <2>4, MediaKept
\* Only the files of the request's rows go, and no other row has their keys.
<1>7. ASSUME NEW r \in Requests, EraseMedia(r) PROVE MediaInv'
  <2> SUFFICES ASSUME Smooth' PROVE MediaInv'
    BY DEF MediaInv
  <2>1. stored \ {m.key : m \in target[r]} \subseteq stored'
    BY <1>7, FailureShows DEF EraseMedia
  <2>2. /\ UNCHANGED <<media, file, target, moments>>
        /\ pc[r] = "eraseMedia" /\ pc' = [pc EXCEPT ![r] = "forgetMedia"]
    BY <1>7 DEF EraseMedia, Goto
  <2>3. /\ pc'[r] = "forgetMedia" /\ \A q \in Requests \ {r} : pc'[q] = pc[q]
        /\ AllMedia(target)' = AllMedia(target)
    BY <1>0, <2>2 DEF AllMedia
  <2>4. MediaHaveFiles'
    <3> SUFFICES ASSUME NEW m \in media
                 PROVE  m.key \in stored' \/ \E q \in Requests : pc'[q] = "forgetMedia" /\ m \in target[q]
      BY <2>2 DEF MediaHaveFiles
    <3>1. CASE m \in target[r]
      BY <2>3, <3>1
    <3>2. CASE m \notin target[r]
      <4>1. \A n \in target[r] : n.key # m.key
        BY <1>0, <1>a, <1>m, <3>2
      <4>2. m.key \in stored => m.key \in stored'
        BY <2>1, <4>1
      <4>3. \A q \in Requests : pc[q] = "forgetMedia" => pc'[q] = "forgetMedia"
        BY <2>2, <2>3
      <4> QED BY <1>0, <1>a, <4>2, <4>3 DEF MediaHaveFiles
    <3> QED BY <3>1, <3>2
  <2>5. ASSUME NEW q \in Requests, pc'[q] = "createMedia"
        PROVE  pc[q] = "createMedia" /\ file[q] \in stored'
    <3>1. pc[q] = "createMedia"
      BY <2>3, <2>5
    <3>2. \A m \in target[r] : m.key # file[q]
      BY <1>0, <1>a, <1>m, <3>1
    <3>3. file[q] \in stored
      BY <1>0, <1>a, <3>1
    <3> QED BY <2>1, <3>1, <3>2, <3>3
  <2>6. \A q \in Requests : pc'[q] = "createMedia" =>
            /\ file'[q] \in stored' \cap moments'
            /\ \A m \in AllMedia(target)' : m.key # file'[q]
            /\ \A t \in Requests \ {q} : pc'[t] = "createMedia" => file'[t] # file'[q]
    BY <1>0, <1>a, <2>2, <2>3, <2>5
  <2> QED BY <1>0, <1>a, <1>b, <2>2, <2>3, <2>4, <2>6
\* The key of a new file is that of no other, or two are known to have it.
<1>8. ASSUME NEW r \in Requests, StoreMedia(r) PROVE MediaInv'
  <2> SUFFICES ASSUME Smooth' PROVE MediaInv'
    BY DEF MediaInv
  <2> DEFINE key == <<clock, file[r][2]>>
  <2>1. /\ UNCHANGED <<media, target>>
        /\ stored' = stored \cup {key} /\ moments' = moments \cup {key}
        /\ file' = [file EXCEPT ![r] = key]
        /\ conflict' = (conflict \/ key \in moments)
        /\ pc[r] = "storeMedia" /\ pc' = [pc EXCEPT ![r] = "createMedia"]
    BY <1>8 DEF StoreMedia, MediaKey, Goto
  <2>2. key \notin moments
    BY <2>1 DEF Smooth
  <2> HIDE DEF key
  <2>3. /\ pc'[r] = "createMedia" /\ file'[r] = key
        /\ \A q \in Requests \ {r} : pc'[q] = pc[q] /\ file'[q] = file[q]
        /\ AllMedia(target)' = AllMedia(target)
    BY <1>0, <2>1 DEF AllMedia
  <2>4. MediaHaveFiles'
    <3>1. \A q \in Requests : pc[q] = "forgetMedia" => pc'[q] = "forgetMedia"
      BY <2>1, <2>3
    <3> QED BY <1>0, <1>a, <2>1, <3>1 DEF MediaHaveFiles
  <2>5. \A m \in AllMedia(target) : m.key \in moments /\ m.key # key
    BY <1>0, <1>a, <2>2
  <2>6. \A q \in Requests : q # r /\ pc[q] = "createMedia" =>
            /\ file[q] \in stored \cap moments /\ file[q] # key
            /\ \A m \in AllMedia(target) : m.key # file[q]
            /\ \A t \in Requests \ {q} : pc[t] = "createMedia" => file[t] # file[q]
    BY <1>0, <1>a, <2>2
  <2>7. ASSUME NEW q \in Requests, pc'[q] = "createMedia"
        PROVE  /\ file'[q] \in stored' \cap moments'
               /\ \A m \in AllMedia(target)' : m.key # file'[q]
               /\ \A t \in Requests \ {q} : pc'[t] = "createMedia" => file'[t] # file'[q]
    <3>1. CASE q = r
      BY <2>1, <2>3, <2>5, <2>6, <3>1
    <3>2. CASE q # r
      BY <2>1, <2>3, <2>6, <2>7, <3>2
    <3> QED BY <3>1, <3>2
  <2> QED BY <1>0, <1>a, <1>b, <2>1, <2>3, <2>4, <2>5, <2>7
<1>9. ASSUME NEW r \in Requests, CreateListingMedia(r) PROVE MediaInv'
  <2> SUFFICES ASSUME Smooth' PROVE MediaInv'
    BY DEF MediaInv
  <2>a. PICK new : new = [by |-> r, key |-> file[r]]
    OBVIOUS
  <2>b. new.key = file[r]
    BY <2>a
  <2>1. /\ UNCHANGED <<target, stored, moments>>
        /\ media' \in {media, media \cup {new}}
        /\ pc[r] = "createMedia" /\ pc' \in {[pc EXCEPT ![r] = "storeMedia"], [pc EXCEPT ![r] = "idle"]}
        /\ \E f : file' = [file EXCEPT ![r] = f]
    BY <1>9, <2>a DEF CreateListingMedia, Goto
  <2>3. /\ pc'[r] # "createMedia"
        /\ \A q \in Requests \ {r} : pc'[q] = pc[q] /\ file'[q] = file[q]
        /\ AllMedia(target)' \subseteq AllMedia(target) \cup {new}
    BY <1>0, <2>1 DEF AllMedia
  <2>4. /\ new.key \in stored \cap moments
        /\ \A m \in AllMedia(target) : m.key # new.key
        /\ \A q \in Requests \ {r} : pc[q] = "createMedia" => file[q] # new.key
    BY <1>0, <1>a, <2>1, <2>b
  <2>5. MediaHaveFiles'
    <3>1. \A q \in Requests : pc[q] = "forgetMedia" => pc'[q] = "forgetMedia"
      BY <2>1, <2>3
    <3> QED BY <1>0, <1>a, <2>1, <2>4, <3>1 DEF MediaHaveFiles
  <2>6. ASSUME NEW q \in Requests, pc'[q] = "createMedia"
        PROVE  /\ file'[q] \in stored' \cap moments'
               /\ \A m \in AllMedia(target)' : m.key # file'[q]
               /\ \A t \in Requests \ {q} : pc'[t] = "createMedia" => file'[t] # file'[q]
    <3>1. q # r /\ pc[q] = "createMedia" /\ file'[q] = file[q]
      BY <2>3, <2>6
    <3>2. /\ file[q] \in stored \cap moments
          /\ \A m \in AllMedia(target) : m.key # file[q]
          /\ \A t \in Requests \ {q} : pc[t] = "createMedia" => file[t] # file[q]
      BY <1>0, <1>a, <3>1
    <3> QED BY <2>1, <2>3, <2>4, <3>1, <3>2
  <2>7. /\ \A m \in AllMedia(target)' : m.key \in moments'
        /\ \A m, n \in AllMedia(target)' : m.key = n.key => m = n
    BY <1>0, <1>a, <2>1, <2>3, <2>4
  <2> QED BY <1>b, <2>5, <2>6, <2>7
<1> QED
  BY <1>1, <1>2, <1>3, <1>4, <1>5, <1>6, <1>7, <1>8, <1>9, GalleryApart
  DEF ImagesNext, Step, ColumnSteps

-----------------------------------------------------------------------------
(* What is left behind                                                     *)

\* Where nothing has collided or failed, nothing had before.
LEMMA TidyBefore ==
    ASSUME ImagesTypeOK, [ImagesNext]_imageVars
    PROVE  UNCHANGED <<kind, pathStyle>> /\ (exists' => exists) /\ (Tidy' => Tidy)
<1> DEFINE G == UNCHANGED <<kind, pathStyle>> /\ (exists' => exists)
<1>1. ASSUME NEW r \in Requests, Upload(r) \/ Delete(r) PROVE G
  BY <1>1, WhatStarts DEF Start, rowVars
<1>2. ASSUME NEW r \in Requests, ColumnSteps(r) \/ Fail(r) PROVE G
  BY <1>2 DEF ColumnSteps, DeleteOld, StoreFile, WriteUrl, RemoveFile, ClearUrl, PurgeFile, DropRow,
              Fail, rowVars
<1>3. ASSUME ColumnKept PROVE G
  BY <1>3 DEF ColumnKept
<1>4. ASSUME ExpireListing PROVE G
  BY <1>4 DEF ExpireListing
<1> HIDE DEF G
<1>5. G
  BY <1>1, <1>2, <1>3, <1>4, ColumnApart DEF ImagesNext, Step, GallerySteps, ColumnSteps
<1> QED BY <1>5, SmoothBefore DEF Tidy, G

\* Every step keeps what is said of files left behind.
LEMMA TidyStep ==
    ASSUME ImagesTypeOK, ColumnInv, TidyInv, [ImagesNext]_imageVars PROVE TidyInv'
<1> DEFINE Knows(b, e, u, f, o, x) ==
               /\ b \in Column => e
               /\ b \in Uploading => u \in {o, x} \/ (o = Placeholder /\ u = "none")
               /\ b \in Removing => u = o
               /\ b \in {"upload", "write", "clear", "drop"} => o \notin f \/ o \in {x, Placeholder}
<1> SUFFICES ASSUME Tidy'
             PROVE  /\ \A q \in Requests : Knows(pc'[q], exists', url', files', old'[q], ext'[q])
                    /\ \A k \in files' \ {Placeholder, url'} :
                          \E q \in Requests : pc'[q] = "write" /\ ext'[q] = k
  BY DEF TidyInv, KnowsImage
<1>t. /\ Tidy /\ Smooth /\ Smooth' /\ pathStyle /\ kind # "profilePhoto"
      /\ kind = "listingHero" => exists'
  BY TidyBefore DEF Tidy
<1>0. /\ pc \in [Requests -> Stages] /\ ext \in [Requests -> Exts \cup {"none"}]
      /\ old \in [Requests -> Exts \cup {Placeholder, "none"}]
      /\ url \in Exts \cup {"none"} /\ files \subseteq Exts \cup {Placeholder}
      /\ \A q \in Requests : ext[q] # "none" <=> pc[q] \in Uploading
      /\ "none" \notin files
  BY DEF ImagesTypeOK, Uploading, Exts, Placeholder
<1>a. /\ kind = "gallery" => url = "none" /\ \A q \in Requests : pc[q] \notin Column
      /\ Alike
  BY <1>t DEF ColumnInv
<1>b. /\ Uploading \cap Removing = {} /\ Column = Uploading \cup Removing /\ "idle" \notin Column
      /\ {"upload", "write"} \subseteq Uploading /\ {"clear", "drop"} \subseteq Removing
      /\ {"upload", "write", "clear", "drop"} \subseteq Column
  BY DEF Column, Uploading, Removing
<1>k. \A q \in Requests : Knows(pc[q], exists, url, files, old[q], ext[q])
  BY <1>t DEF TidyInv, KnowsImage
<1>l. \A k \in files \ {Placeholder, url} : \E q \in Requests : pc[q] = "write" /\ ext[q] = k
  BY <1>t DEF TidyInv
<1> DEFINE G == /\ \A q \in Requests : Knows(pc'[q], exists', url', files', old'[q], ext'[q])
                /\ \A k \in files' \ {Placeholder, url'} :
                      \E q \in Requests : pc'[q] = "write" /\ ext'[q] = k
<1>1. ASSUME NEW r \in Requests, Upload(r) \/ Delete(r) PROVE G
  <2>1. PICK a \in {"replace", "remove", "purge"}, k \in Exts \cup {Placeholder, "none"},
             x \in Exts \cup {"none"} :
             /\ Start(r, a, k, x) /\ (x # "none" <=> a = "replace")
             /\ k = url \/ (k = Placeholder /\ url = "none" /\ a = "replace")
    BY <1>1, <1>t, WhatStarts
  <2>2. /\ UNCHANGED <<exists, url, files>> /\ exists
        /\ pc' = [pc EXCEPT ![r] = a] /\ ext' = [ext EXCEPT ![r] = x] /\ old' = [old EXCEPT ![r] = k]
        /\ pc[r] = "idle"
    BY <2>1 DEF Start, rowVars, Goto
  <2>3. /\ pc'[r] = a /\ ext'[r] = x /\ old'[r] = k
        /\ \A q \in Requests \ {r} : pc'[q] = pc[q] /\ ext'[q] = ext[q] /\ old'[q] = old[q]
    BY <1>0, <2>2
  <2>4. Knows(a, exists', url', files', k, x)
    BY <2>1, <2>2 DEF Column, Uploading, Removing
  <2>5. \A q \in Requests : Knows(pc'[q], exists', url', files', old'[q], ext'[q])
    BY <1>k, <2>2, <2>3, <2>4
  <2>6. \A k1 \in files' \ {Placeholder, url'} : \E q \in Requests : pc'[q] = "write" /\ ext'[q] = k1
    BY <1>l, <2>2, <2>3
  <2> QED BY <2>5, <2>6
<1>2. ASSUME NEW r \in Requests, DeleteOld(r) \/ RemoveFile(r) \/ PurgeFile(r) PROVE G
  <2>1. PICK b : /\ pc' = [pc EXCEPT ![r] = b]
                 /\ <<pc[r], b>> \in {<<"replace", "upload">>, <<"remove", "clear">>, <<"purge", "drop">>}
                 /\ UNCHANGED <<exists, url, ext, old>> /\ DeleteFile(old[r])
    BY <1>2 DEF DeleteOld, RemoveFile, PurgeFile, Goto, rowVars
  <2>2. files' = files \ ({old[r]} \ {Placeholder})
    BY <1>t, <2>1, FailureShows DEF DeleteFile, KeysDeleted
  <2>3. /\ pc'[r] = b /\ \A q \in Requests \ {r} : pc'[q] = pc[q]
        /\ pc[r] \in Uploading <=> b \in Uploading
        /\ pc[r] \in Removing <=> b \in Removing
        /\ pc[r] # "write" /\ b # "write"
    BY <1>0, <2>1 DEF Uploading, Removing
  <2>4. Knows(b, exists', url', files', old[r], ext[r])
    BY <1>b, <1>k, <2>1, <2>2, <2>3
  <2>5. \A q \in Requests \ {r} : Knows(pc[q], exists', url', files', old[q], ext[q])
    BY <1>k, <2>1, <2>2
  <2>6. \A q \in Requests : Knows(pc'[q], exists', url', files', old'[q], ext'[q])
    BY <2>1, <2>3, <2>4, <2>5
  <2>7. \A k \in files' \ {Placeholder, url'} : \E q \in Requests : pc'[q] = "write" /\ ext'[q] = k
    BY <1>l, <2>1, <2>2, <2>3
  <2> QED BY <2>6, <2>7
<1>3. ASSUME NEW r \in Requests, StoreFile(r) PROVE G
  <2>1. /\ pc[r] = "upload" /\ pc' = [pc EXCEPT ![r] = "write"]
        /\ files' = files \cup {ext[r]}
        /\ UNCHANGED <<exists, url, ext, old>>
    BY <1>3 DEF StoreFile, Goto, rowVars
  <2>2. pc'[r] = "write" /\ \A q \in Requests \ {r} : pc'[q] = pc[q]
    BY <1>0, <2>1
  <2>3. \A q \in Requests : pc[q] \in {"upload", "write", "clear", "drop"} => ext[q] = ext[r]
    BY <1>a, <1>b, <2>1 DEF Alike
  <2>4. Knows("write", exists', url', files', old[r], ext[r])
    BY <1>b, <1>k, <2>1
  <2>5. \A q \in Requests \ {r} : Knows(pc[q], exists', url', files', old[q], ext[q])
    BY <1>k, <2>1, <2>3
  <2>6. \A q \in Requests : Knows(pc'[q], exists', url', files', old'[q], ext'[q])
    BY <2>1, <2>2, <2>4, <2>5
  <2>7. \A k \in files' \ {Placeholder, url'} : \E q \in Requests : pc'[q] = "write" /\ ext'[q] = k
    BY <1>l, <2>1, <2>2
  <2> QED BY <2>6, <2>7
\* The file of the image that was there is gone, or is the one just stored.
<1>4. ASSUME NEW r \in Requests, WriteUrl(r) PROVE G
  <2>1. /\ pc[r] = "write" /\ pc' = [pc EXCEPT ![r] = "idle"]
        /\ old' = [old EXCEPT ![r] = "none"] /\ ext' = [ext EXCEPT ![r] = "none"]
        /\ UNCHANGED <<exists, files>>
    BY <1>4 DEF WriteUrl, Finish, Goto
  <2>2. exists /\ url' = ext[r]
    BY <1>4, <1>b, <1>k, <2>1 DEF WriteUrl
  <2>3. /\ pc'[r] = "idle"
        /\ \A q \in Requests \ {r} : pc'[q] = pc[q] /\ old'[q] = old[q] /\ ext'[q] = ext[q]
    BY <1>0, <2>1
  <2>4. \A q \in Requests \ {r} : pc[q] \in Column => pc[q] \in Uploading /\ ext[q] = ext[r]
    BY <1>a, <1>b, <2>1 DEF Alike
  <2>5. \A q \in Requests \ {r} : Knows(pc[q], exists', url', files', old[q], ext[q])
    BY <1>b, <1>k, <2>1, <2>2, <2>4
  <2>6. \A q \in Requests : Knows(pc'[q], exists', url', files', old'[q], ext'[q])
    BY <1>b, <2>3, <2>5
  <2>7. files \subseteq {Placeholder, ext[r]}
    <3>1. ASSUME NEW k \in files, k = url, k # Placeholder PROVE k = ext[r]
      BY <1>0, <1>b, <1>k, <2>1, <3>1
    <3>2. ASSUME NEW k \in files, k # url, k # Placeholder PROVE k = ext[r]
      BY <1>b, <1>l, <2>4, <3>2
    <3> QED BY <3>1, <3>2
  <2> QED BY <2>1, <2>2, <2>6, <2>7
<1>5. ASSUME NEW r \in Requests, ClearUrl(r) \/ DropRow(r) PROVE G
  <2>1. /\ pc[r] \in {"clear", "drop"} /\ pc' = [pc EXCEPT ![r] = "idle"]
        /\ UNCHANGED files
    BY <1>5 DEF ClearUrl, DropRow, Finish, Goto
  <2>2. exists /\ url = old[r] /\ (old[r] \notin files \/ old[r] \in {ext[r], Placeholder})
    BY <1>b, <1>k, <2>1
  <2>3. url' = "none"
    BY <1>5, <2>2 DEF ClearUrl, DropRow
  <2>4. \A q \in Requests \ {r} : pc[q] \notin Column
    BY <1>a, <1>b, <2>1 DEF Alike
  <2>5. \A q \in Requests : pc'[q] \notin Column
    BY <1>0, <1>b, <2>1, <2>4
  <2>6. \A q \in Requests : Knows(pc'[q], exists', url', files', old'[q], ext'[q])
    BY <1>b, <2>5
  <2>7. ext[r] = "none"
    BY <1>0, <1>b, <2>1
  <2>8. files \subseteq {Placeholder}
    <3>1. url \notin files \ {Placeholder}
      BY <1>0, <2>2, <2>7
    <3>2. \A q \in Requests : pc[q] # "write"
      BY <1>b, <2>1, <2>4
    <3> QED BY <1>l, <3>1, <3>2
  <2> QED BY <2>1, <2>6, <2>8
<1>6. ASSUME NEW r \in Requests, Fail(r) PROVE G
  BY <1>6, <1>t, FailureShows DEF Fail
<1>7. CASE ExpireListing
  <2>1. kind = "gallery" /\ url' = "none" /\ UNCHANGED <<files, pc, ext>>
    BY <1>7, <1>t DEF ExpireListing
  <2> QED BY <1>a, <1>b, <1>l, <2>1
<1>8. ASSUME ColumnKept PROVE G
  <2>1. /\ UNCHANGED <<exists, url, files, old, ext>>
        /\ \A q \in Requests : pc'[q] = pc[q] \/ (pc[q] \notin Column /\ pc'[q] \notin Column)
    BY <1>8 DEF ColumnKept
  <2>2. \A q \in Requests : Knows(pc'[q], exists', url', files', old'[q], ext'[q])
    BY <1>b, <1>k, <2>1
  <2>3. \A q \in Requests : pc[q] = "write" => pc'[q] = "write"
    BY <1>b, <2>1
  <2> QED BY <1>l, <2>1, <2>2, <2>3
<1> QED
  BY <1>1, <1>2, <1>3, <1>4, <1>5, <1>6, <1>7, <1>8, ColumnApart DEF ImagesNext, Step, GallerySteps

-----------------------------------------------------------------------------
\* Images begin with their invariant.
LEMMA ImagesInvInit == ImagesInit => ImagesInv
<1> SUFFICES ASSUME ImagesInit PROVE ImagesInv
  OBVIOUS
<1>1. /\ url = "none" /\ exists /\ files = {Placeholder} /\ media = {}
      /\ \A r \in Requests : pc[r] = "idle" /\ target[r] = {}
  BY DEF ImagesInit
<1>2. "idle" \notin Column /\ "idle" \notin Uploading /\ "idle" \notin Removing
  BY DEF Column, Uploading, Removing
<1>3. ColumnInv
  BY <1>1, <1>2 DEF ColumnInv, Alike, Written, RowHasFile
<1>4. AllMedia(target) = {}
  BY <1>1 DEF AllMedia
<1>5. MediaInv
  BY <1>1, <1>4 DEF MediaInv, MediaHaveFiles
<1>6. TidyInv
  BY <1>1, <1>2 DEF TidyInv, KnowsImage
<1> QED BY <1>3, <1>5, <1>6, ImagesTypeInit DEF ImagesInv

\* It holds of every reachable state of Images.
LEMMA ImagesAreKept == ImagesSpec => []ImagesInv
<1>1. ImagesInv /\ [ImagesNext]_imageVars => ImagesInv'
  BY ImagesStepTyped, ColumnStep, MediaStep, TidyStep DEF ImagesInv
<1> QED BY <1>1, ImagesInvInit, PTL DEF ImagesSpec

\* No row shows an image, and no gallery a picture, whose file is not in the store,
\* but while a request that has deleted it is about to write the row; unless a call
\* failed, requests overlapped that do not write to the same key, or two pictures
\* were stored in one millisecond (the upload and deletion of images, the media of
\* a listing).
THEOREM ImagesAreWhole == ImagesSpec => []NoBrokenImage
<1>1. ImagesInv => NoBrokenImage
  <2> SUFFICES ASSUME ImagesInv, ~conflict, ~(failures < MaxFailures)
               PROVE  RowHasFile /\ MediaHaveFiles
    BY DEF ImagesInv, NoBrokenImage
  <2>1. Smooth
    BY ImagesAssumption DEF ImagesInv, ImagesTypeOK, Smooth
  <2> QED BY <2>1 DEF ImagesInv, ColumnInv, MediaInv
<1> QED BY <1>1, ImagesAreKept, PTL

\* Where the key is found again in a URL, replaced and deleted images leave no file
\* in the store once all requests are done and none has failed or collided.
THEOREM NothingIsLeft == ImagesSpec => []NothingLeftBehind
<1>1. ImagesInv => NothingLeftBehind
  <2> SUFFICES ASSUME ImagesInv, pathStyle, kind # "profilePhoto", kind = "listingHero" => exists,
                      ~conflict, failures = MaxFailures, \A r \in Requests : pc[r] = "idle"
               PROVE  files \ {Placeholder} = {url} \ {"none"}
    BY DEF NothingLeftBehind
  <2>1. Smooth /\ Tidy
    BY DEF Smooth, Tidy
  <2>2. url # "none" => url \in files
    BY <2>1 DEF ImagesInv, ColumnInv, RowHasFile
  <2>3. files \ {Placeholder} \subseteq {url}
    BY <2>1 DEF ImagesInv, TidyInv
  <2>4. "none" \notin files /\ url # Placeholder
    BY DEF ImagesInv, ImagesTypeOK, Exts, Placeholder
  <2> QED BY <2>2, <2>3, <2>4
<1> QED BY <1>1, ImagesAreKept, PTL
=============================================================================
