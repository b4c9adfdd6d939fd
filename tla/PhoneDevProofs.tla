--------------------------- MODULE PhoneDevProofs ---------------------------
(***************************************************************************)
(* Proofs about PhoneDev, for any number of threads and any sizes.  The    *)
(* semaphore is taken in one place for the device and in one for a system  *)
(* call, and given back on a path of the device and on several of the      *)
(* system calls.  That it protects the list rests on three things that go  *)
(* together: being between down and up, holding the semaphore, and walking *)
(* over the list as it is now.                                             *)
(*                                                                         *)
(* That the buffers lose, repeat and reorder nothing rests on their shape: *)
(* what is unread begins with a whole operation, and it is that operation  *)
(* alone unless the file was disturbed; what has been found is in the      *)
(* output buffer, as whole records, or in the list.                        *)
(***************************************************************************)
EXTENDS PhoneDev, SequenceTheorems, Recursion, TLAPS

(***************************************************************************)
(* Sequences: dropping, taking, putting together, and the cells of a list  *)
(* of records.                                                             *)
(***************************************************************************)
(* What is left after the first n.                                         *)
LEMMA DropFirstFacts ==
  ASSUME NEW S, NEW s \in Seq(S), NEW n \in 0..Len(s)
  PROVE  /\ DropFirst(s, n) \in Seq(S)
         /\ Len(DropFirst(s, n)) = Len(s) - n
         /\ \A i \in 1..(Len(s) - n) : DropFirst(s, n)[i] = s[n + i]
         /\ n = Len(s) => DropFirst(s, n) = <<>>
         /\ n = 0 => DropFirst(s, n) = s
BY DEF DropFirst

LEMMA ConcatFacts ==
  ASSUME NEW S, NEW s \in Seq(S), NEW t \in Seq(S)
  PROVE  /\ s \o t \in Seq(S) /\ Len(s \o t) = Len(s) + Len(t)
         /\ \A i \in 1..Len(s) : (s \o t)[i] = s[i]
         /\ \A i \in 1..Len(t) : (s \o t)[Len(s) + i] = t[i]
OBVIOUS

(* Sequences are equal if their elements are.                              *)
LEMMA SameSeq ==
  ASSUME NEW S, NEW s \in Seq(S), NEW t \in Seq(S), Len(s) = Len(t),
         \A i \in 1..Len(s) : s[i] = t[i]
  PROVE  s = t
OBVIOUS

(* What is dropped comes from the first of two sequences.                  *)
LEMMA DropOfConcat ==
  ASSUME NEW S, NEW s \in Seq(S), NEW t \in Seq(S), NEW n \in 0..Len(s)
  PROVE  DropFirst(s \o t, n) = DropFirst(s, n) \o t
<1>1. PICK st : st = s \o t                 OBVIOUS
<1>2. PICK d : d = DropFirst(s, n)          OBVIOUS
<1>3. PICK l : l = DropFirst(st, n)         OBVIOUS
<1>4. PICK r : r = d \o t                   OBVIOUS
<1>5. st \in Seq(S) /\ Len(st) = Len(s) + Len(t)
  BY <1>1, ConcatFacts
<1>6. /\ \A i \in 1..Len(s) : st[i] = s[i]
      /\ \A i \in 1..Len(t) : st[Len(s) + i] = t[i]
  BY <1>1, ConcatFacts
<1>7. d \in Seq(S) /\ Len(d) = Len(s) - n
  BY <1>2, DropFirstFacts
<1>8. \A i \in 1..(Len(s) - n) : d[i] = s[n + i]
  BY <1>2, DropFirstFacts
<1>9. n \in 0..Len(st)
  BY <1>5
<1>10. l \in Seq(S) /\ Len(l) = Len(st) - n
  BY <1>3, <1>5, <1>9, DropFirstFacts
<1>11. \A i \in 1..(Len(st) - n) : l[i] = st[n + i]
  BY <1>3, <1>5, <1>9, DropFirstFacts
<1>12. r \in Seq(S) /\ Len(r) = Len(d) + Len(t)
  BY <1>4, <1>7, ConcatFacts
<1>13. /\ \A i \in 1..Len(d) : r[i] = d[i]
       /\ \A i \in 1..Len(t) : r[Len(d) + i] = t[i]
  BY <1>4, <1>7, ConcatFacts
<1>14. ASSUME NEW i \in 1..Len(l) PROVE l[i] = r[i]
  <2>1. CASE i <= Len(d)
    BY <1>5, <1>6, <1>7, <1>8, <1>10, <1>11, <1>12, <1>13, <2>1
  <2>2. CASE i > Len(d)
    <3>1. i - Len(d) \in 1..Len(t) /\ Len(d) + (i - Len(d)) = i
      BY <1>5, <1>7, <1>10, <2>2
    <3>2. PICK j \in 1..Len(t) : Len(d) + j = i
      BY <3>1
    <3>3. n + i = Len(s) + j /\ i \in 1..(Len(st) - n)
      BY <1>7, <1>10, <3>2
    <3>. QED BY <1>6, <1>11, <1>13, <3>2, <3>3
  <2>. QED BY <1>5, <1>7, <1>10, <2>1, <2>2
<1>15. Len(l) = Len(r)
  BY <1>5, <1>7, <1>10, <1>12
<1>16. l = r
  BY <1>10, <1>12, <1>14, <1>15, SameSeq
<1>. QED BY <1>1, <1>2, <1>3, <1>4, <1>16

(* The first n and the rest.                                               *)
LEMMA TakeAndDrop ==
  ASSUME NEW S, NEW s \in Seq(S), NEW n \in 0..Len(s)
  PROVE  /\ SubSeq(s, 1, n) \in Seq(S) /\ Len(SubSeq(s, 1, n)) = n
         /\ \A i \in 1..n : SubSeq(s, 1, n)[i] = s[i]
         /\ s = SubSeq(s, 1, n) \o DropFirst(s, n)
<1>1. PICK f : f = SubSeq(s, 1, n)          OBVIOUS
<1>2. PICK d : d = DropFirst(s, n)          OBVIOUS
<1>3. PICK r : r = f \o d                   OBVIOUS
<1>4. f \in Seq(S) /\ Len(f) = n
  BY <1>1
<1>5. \A i \in 1..n : f[i] = s[i]
  BY <1>1
<1>6. d \in Seq(S) /\ Len(d) = Len(s) - n
  BY <1>2, DropFirstFacts
<1>7. \A i \in 1..(Len(s) - n) : d[i] = s[n + i]
  BY <1>2, DropFirstFacts
<1>8. r \in Seq(S) /\ Len(r) = Len(f) + Len(d)
  BY <1>3, <1>4, <1>6, ConcatFacts
<1>9. /\ \A i \in 1..Len(f) : r[i] = f[i]
      /\ \A i \in 1..Len(d) : r[Len(f) + i] = d[i]
  BY <1>3, <1>4, <1>6, ConcatFacts
<1>10. ASSUME NEW i \in 1..Len(s) PROVE s[i] = r[i]
  <2>1. CASE i <= n
    BY <1>4, <1>5, <1>9, <2>1
  <2>2. CASE i > n
    <3>1. i - n \in 1..Len(d) /\ n + (i - n) = i
      BY <1>6, <2>2
    <3>2. PICK j \in 1..Len(d) : n + j = i
      BY <3>1
    <3>. QED BY <1>4, <1>6, <1>7, <1>9, <3>2
  <2>. QED BY <2>1, <2>2
<1>11. Len(s) = Len(r)
  BY <1>4, <1>6, <1>8
<1>12. s = r
  BY <1>8, <1>10, <1>11, SameSeq
<1>. QED BY <1>1, <1>2, <1>3, <1>4, <1>5, <1>12

LEMMA ConcatAssoc ==
  ASSUME NEW S, NEW s \in Seq(S), NEW t \in Seq(S), NEW u \in Seq(S)
  PROVE  (s \o t) \o u = s \o (t \o u)
BY ConcatAssociative

LEMMA Distributes ==
  ASSUME NEW a \in Nat, NEW b \in Nat, NEW c \in Nat
  PROVE  (a + b) * c = a * c + b * c /\ a * c \in Nat /\ b * c \in Nat
OBVIOUS

RecordCell == [of : Entry, part : 1..RecSize]

(* Which record the i-th cell of a list of records belongs to, and which   *)
(* part of it it is.                                                       *)
Which(i)   == ((i - 1) \div RecSize) + 1
PartOf(i)  == ((i - 1) % RecSize) + 1

LEMMA WhichFacts ==
  ASSUME NEW k \in Nat, NEW i \in 1..(k * RecSize)
  PROVE  Which(i) \in 1..k /\ PartOf(i) \in 1..RecSize
<1>1. RecSize \in Nat \ {0} /\ k * RecSize \in Nat
  BY PhoneDevAssumption, Distributes
<1>2. PICK j \in Nat : j = i - 1 /\ j < k * RecSize
  BY <1>1
<1>3. /\ j \div RecSize \in Nat /\ j % RecSize \in 0..(RecSize - 1)
      /\ j = RecSize * (j \div RecSize) + (j % RecSize)
  BY <1>1
<1>4. PICK q \in Nat : q = j \div RecSize
  BY <1>3
<1>5. RecSize * q < k * RecSize
  BY <1>1, <1>2, <1>3, <1>4
<1>6. q < k
  BY <1>1, <1>5
<1>. QED BY <1>1, <1>2, <1>3, <1>4, <1>6 DEF Which, PartOf

LEMMA WhichShifted ==
  ASSUME NEW k \in Nat, NEW i \in Nat \ {0}
  PROVE  Which(k * RecSize + i) = k + Which(i) /\ PartOf(k * RecSize + i) = PartOf(i)
<1>1. RecSize \in Nat \ {0} /\ k * RecSize \in Nat
  BY PhoneDevAssumption, Distributes
<1>2. PICK j \in Nat, m \in Nat : j = i - 1 /\ m = k * RecSize
  BY <1>1
<1>3. (m + j) \div RecSize = k + (j \div RecSize) /\ (m + j) % RecSize = j % RecSize
  BY <1>1, <1>2
<1>4. (m + i) - 1 = m + j
  BY <1>2
<1>5. j \div RecSize \in Nat
  BY <1>1
<1>6. Which(m + i) = k + Which(i) /\ PartOf(m + i) = PartOf(i)
  <2>1. Which(m + i) = (k + (j \div RecSize)) + 1 /\ PartOf(m + i) = (j % RecSize) + 1
    BY <1>3, <1>4 DEF Which, PartOf
  <2>2. Which(i) = (j \div RecSize) + 1 /\ PartOf(i) = (j % RecSize) + 1
    BY <1>2 DEF Which, PartOf
  <2>. QED BY <1>5, <2>1, <2>2
<1>. QED BY <1>2, <1>6

LEMMA RecordsFacts ==
  ASSUME NEW s \in Seq(Entry)
  PROVE  /\ Records(s) \in Seq(RecordCell) /\ Len(Records(s)) = Len(s) * RecSize
         /\ \A i \in 1..(Len(s) * RecSize) :
              Records(s)[i] = [of |-> s[Which(i)], part |-> PartOf(i)]
<1>1. PICK n \in Nat : n = Len(s) * RecSize
  BY Distributes, PhoneDevAssumption
<1>2. ASSUME NEW i \in 1..n PROVE Which(i) \in 1..Len(s) /\ PartOf(i) \in 1..RecSize
  BY <1>1, WhichFacts
<1>3. PICK r : r = Records(s)
  OBVIOUS
<1>4. r = [i \in 1..n |-> [of |-> s[Which(i)], part |-> PartOf(i)]]
  BY <1>1, <1>3 DEF Records, Which, PartOf
<1>5. r \in [1..n -> RecordCell]
  BY <1>2, <1>4 DEF RecordCell
<1>6. r \in Seq(RecordCell) /\ Len(r) = n
  BY <1>5
<1>. QED BY <1>1, <1>3, <1>4, <1>6

(* The cells of two lists of records one behind the other.                 *)
LEMMA RecordsOfConcat ==
  ASSUME NEW s \in Seq(Entry), NEW t \in Seq(Entry)
  PROVE  Records(s \o t) = Records(s) \o Records(t)
<1>1. PICK st : st = s \o t                 OBVIOUS
<1>2. PICK rs : rs = Records(s)             OBVIOUS
<1>3. PICK rt : rt = Records(t)             OBVIOUS
<1>4. PICK l : l = Records(st)              OBVIOUS
<1>5. PICK r : r = rs \o rt                 OBVIOUS
<1>6. st \in Seq(Entry) /\ Len(st) = Len(s) + Len(t)
  BY <1>1, ConcatFacts
<1>7. /\ \A i \in 1..Len(s) : st[i] = s[i]
      /\ \A i \in 1..Len(t) : st[Len(s) + i] = t[i]
  BY <1>1, ConcatFacts
<1>8. PICK m \in Nat, n \in Nat :
        m = Len(s) * RecSize /\ n = Len(t) * RecSize /\ Len(st) * RecSize = m + n
  BY <1>6, Distributes, PhoneDevAssumption
<1>9. rs \in Seq(RecordCell) /\ Len(rs) = m
  BY <1>2, <1>8, RecordsFacts
<1>10. \A i \in 1..m : rs[i] = [of |-> s[Which(i)], part |-> PartOf(i)]
  BY <1>2, <1>8, RecordsFacts
<1>11. rt \in Seq(RecordCell) /\ Len(rt) = n
  BY <1>3, <1>8, RecordsFacts
<1>12. \A i \in 1..n : rt[i] = [of |-> t[Which(i)], part |-> PartOf(i)]
  BY <1>3, <1>8, RecordsFacts
<1>13. l \in Seq(RecordCell) /\ Len(l) = m + n
  BY <1>4, <1>6, <1>8, RecordsFacts
<1>14. \A i \in 1..(m + n) : l[i] = [of |-> st[Which(i)], part |-> PartOf(i)]
  BY <1>4, <1>6, <1>8, RecordsFacts
<1>15. r \in Seq(RecordCell) /\ Len(r) = Len(rs) + Len(rt)
  BY <1>5, <1>9, <1>11, ConcatFacts
<1>16. /\ \A i \in 1..Len(rs) : r[i] = rs[i]
       /\ \A i \in 1..Len(rt) : r[Len(rs) + i] = rt[i]
  BY <1>5, <1>9, <1>11, ConcatFacts
<1>17. ASSUME NEW i \in 1..m PROVE Which(i) \in 1..Len(s)
  BY <1>8, WhichFacts
<1>18. ASSUME NEW i \in 1..n
       PROVE  /\ Which(i) \in 1..Len(t) /\ Which(m + i) = Len(s) + Which(i)
              /\ PartOf(m + i) = PartOf(i)
  <2>1. Which(i) \in 1..Len(t)
    BY <1>8, WhichFacts
  <2>2. /\ Which(Len(s) * RecSize + i) = Len(s) + Which(i)
        /\ PartOf(Len(s) * RecSize + i) = PartOf(i)
    BY WhichShifted
  <2>. QED BY <1>8, <2>1, <2>2
<1>19. ASSUME NEW i \in 1..(m + n) PROVE l[i] = r[i]
  <2>1. CASE i <= m
    <3>1. i \in 1..m /\ Which(i) \in 1..Len(s)
      BY <1>17, <2>1
    <3>. QED BY <1>7, <1>9, <1>10, <1>14, <1>16, <3>1
  <2>2. CASE i > m
    <3>1. i - m \in 1..n /\ m + (i - m) = i
      BY <2>2
    <3>2. PICK j \in 1..n : m + j = i
      BY <3>1
    <3>3. l[i] = [of |-> st[Len(s) + Which(j)], part |-> PartOf(j)]
      BY <1>14, <1>18, <3>2
    <3>4. st[Len(s) + Which(j)] = t[Which(j)]
      BY <1>7, <1>18
    <3>5. r[i] = rt[j]
      BY <1>9, <1>11, <1>16, <3>2
    <3>. QED BY <1>12, <3>3, <3>4, <3>5
  <2>. QED BY <2>1, <2>2
<1>20. Len(l) = Len(r) /\ Len(l) = m + n
  BY <1>9, <1>11, <1>13, <1>15
<1>21. l = r
  BY <1>13, <1>15, <1>19, <1>20, SameSeq
<1>. QED BY <1>1, <1>2, <1>3, <1>4, <1>5, <1>21

(* Only keeps members of the sequence.                                     *)
LEMMA OnlyIsSeq ==
  ASSUME NEW S, NEW s \in Seq(S), NEW set
  PROVE  Only(s, set) \in Seq(S)
<1>1. PICK n \in Nat : n = Len(s)
  OBVIOUS
<1>2. \A i \in 1..n : s[i] \in S
  BY <1>1
<1> DEFINE Next_(i, v) == IF s[i] \in set THEN Append(v, s[i]) ELSE v
           First(g) == [i \in 0..n |-> IF i = 0 THEN <<>>
                                       ELSE IF s[i] \in set THEN Append(g[i - 1], s[i])
                                       ELSE g[i - 1]]
<1>3. ASSUME NEW i \in 1..n, NEW v \in Seq(S) PROVE Next_(i, v) \in Seq(S)
  <2>1. Append(v, s[i]) \in Seq(S)
    BY <1>2
  <2>. QED BY <2>1
<1>4. PICK way : way = [i \in 1..n |-> [v \in Seq(S) |-> Next_(i, v)]]
  OBVIOUS
<1> HIDE DEF Next_
<1>5. way \in Ways(n, Seq(S))
  BY <1>3, <1>4 DEF Ways
<1>6. <<>> \in Seq(S)
  OBVIOUS
<1>7. PICK f : /\ f \in [0..n -> Seq(S)] /\ f[0] = <<>>
               /\ \A i \in 1..n : f[i] = way[i][f[i - 1]]
  <2>1. PICK empty, V : empty = <<>> /\ V = Seq(S)
    OBVIOUS
  <2>2. empty \in V /\ way \in Ways(n, V)
    BY <1>5, <1>6, <2>1
  <2>3. PICK f : Follows(f, n, V, empty, way)
    BY <2>2, StepByStep
  <2>4. f \in [0..n -> V] /\ f[0] = empty /\ \A i \in 1..n : f[i] = way[i][f[i - 1]]
    BY <2>3 DEF Follows
  <2>. QED BY <2>1, <2>4
<1>8. \A i \in 1..n : i - 1 \in 0..n /\ f[i - 1] \in Seq(S)
  BY <1>7
<1>9. \A i \in 1..n : f[i] = Next_(i, f[i - 1])
  BY <1>4, <1>7, <1>8
<1>10. \A i \in 1..n : f[i] = IF s[i] \in set THEN Append(f[i - 1], s[i]) ELSE f[i - 1]
  BY <1>9 DEF Next_
<1>11. \A i \in 0..n : i = 0 \/ i \in 1..n
  OBVIOUS
<1>12. f = First(f)
  BY <1>6, <1>7, <1>10, <1>11
<1>13. PICK g : g = CHOOSE h : h = First(h)
  OBVIOUS
<1>14. g = First(g)
  <2> HIDE DEF First
  <2>. QED BY <1>12, <1>13
<1>15. Only(s, set) = g[n]
  BY <1>1, <1>13 DEF Only
<1>16. g[0] = <<>>
  BY <1>14
<1>17. ASSUME NEW i \in 1..n
       PROVE  g[i] = IF s[i] \in set THEN Append(g[i - 1], s[i]) ELSE g[i - 1]
  <2>1. i \in 0..n /\ i # 0
    OBVIOUS
  <2>. QED BY <1>14, <2>1
<1> HIDE DEF First
<1>18. ASSUME NEW i \in 0..(n - 1), g[i] \in Seq(S) PROVE g[i + 1] \in Seq(S)
  <2>1. i + 1 \in 1..n /\ (i + 1) - 1 = i
    OBVIOUS
  <2>2. Append(g[i], s[i + 1]) \in Seq(S)
    BY <1>2, <1>18, <2>1
  <2>3. g[i + 1] = IF s[i + 1] \in set THEN Append(g[i], s[i + 1]) ELSE g[i]
    BY <1>17, <2>1
  <2>. QED BY <1>18, <2>2, <2>3
<1>19. PICK Good : Good = {i \in 0..n : g[i] \in Seq(S)}
  OBVIOUS
<1>20. 0 \in Good
  <2>1. 0 \in 0..n /\ g[0] \in Seq(S)
    BY <1>6, <1>16
  <2>. QED BY <1>19, <2>1
<1>21. \A i \in 0..(n - 1) : i \in Good => i + 1 \in Good
  BY <1>18, <1>19
<1>22. \A i \in 0..n : i \in Good
  BY <1>20, <1>21, UpTo
<1>. QED BY <1>15, <1>19, <1>22
-----------------------------------------------------------------------------
Outside == {"idle", "write", "retry", "down", "copy_to_user", "free"}

Control ==
  /\ pc \in [Threads -> Outside \cup Locked]
  /\ then \in [Threads -> {"idle", "write", "retry", "copy_to_user", "free", "sys"}]
  /\ DOMAIN walked = Threads

(* A walk goes over the list as it is; outside a walk no entry is held on  *)
(* to.                                                                     *)
WalkIsCurrent ==
  \A t \in Threads : walked[t] = IF pc[t] = "walk" THEN phone_directory ELSE <<>>

(* A system call never comes to the buffers.                               *)
SysCallsOnlyWalk ==
  \A t \in Threads : pc[t] \in {"input", "memmove", "output"} => then[t] # "sys"

IInv == Control /\ HolderAgrees /\ WalkIsCurrent /\ SysCallsOnlyWalk

USE PhoneDevAssumption DEF Outside, Locked

LEMMA InitIInv == Init => IInv
BY DEF Init, IInv, Control, HolderAgrees, WalkIsCurrent, SysCallsOnlyWalk

(* A step of a task that neither has the semaphore nor gets it.            *)
LEMMA OutsideStep ==
  ASSUME IInv, NEW t \in Threads,
         Begin(t) \/ interrupted(t) \/ dev_write(t) \/ dev_write_full(t)
         \/ dev_write_fails(t) \/ copy_to_user(t) \/ handle_free(t)
  PROVE  IInv'
<1> USE DEF IInv, Control
<1>1. /\ UNCHANGED <<directory_lock, phone_directory, walked>>
      /\ pc[t] \in Outside /\ Control' /\ pc'[t] \in Outside
      /\ \A u \in Threads \ {t} : pc'[u] = pc[u] /\ then'[u] = then[u]
  <2>1. CASE Begin(t)
    BY <2>1 DEF Begin, dev_open, write_all, dev_read, dev_release, system_call,
                ProcessThen, GoTo, thread, file
  <2>2. CASE interrupted(t)
    BY <2>2 DEF interrupted, GoOn, FromDevice, GoTo
  <2>3. CASE dev_write(t)
    BY <2>3 DEF dev_write, ProcessThen, GoTo
  <2>4. CASE dev_write_full(t) \/ dev_write_fails(t)
    BY <2>4 DEF dev_write_full, dev_write_fails, ProcessThen, GoTo
  <2>5. CASE copy_to_user(t) \/ handle_free(t)
    BY <2>5 DEF copy_to_user, handle_free, GoTo, thread
  <2>. QED BY <2>1, <2>2, <2>3, <2>4, <2>5
<1>2. HolderAgrees'
  BY <1>1 DEF HolderAgrees
<1>3. WalkIsCurrent'
  BY <1>1 DEF WalkIsCurrent
<1>4. SysCallsOnlyWalk'
  BY <1>1 DEF SysCallsOnlyWalk
<1>. QED BY <1>1, <1>2, <1>3, <1>4

(* down: nobody is inside, and a walk that begins sees the list of now.    *)
LEMMA DownStep ==
  ASSUME IInv, NEW t \in Threads, down(t)
  PROVE  IInv'
<1> USE DEF IInv, Control
<1>1. /\ directory_lock = None /\ directory_lock' = t /\ phone_directory' = phone_directory
      /\ pc' = [pc EXCEPT ![t] = IF FromDevice(t) THEN "input" ELSE "walk"]
      /\ walked' = [walked EXCEPT ![t] = IF FromDevice(t) THEN <<>> ELSE phone_directory]
      /\ then' = then
  BY DEF down, GoTo
<1>2. HolderAgrees'
  BY <1>1 DEF HolderAgrees
<1>3. WalkIsCurrent'
  BY <1>1 DEF WalkIsCurrent
<1>4. SysCallsOnlyWalk'
  BY <1>1 DEF SysCallsOnlyWalk, FromDevice
<1>. QED BY <1>1, <1>2, <1>3, <1>4

(* What is done with the semaphore held.  The list changes only then, and  *)
(* nobody else is walking over it.                                         *)
LEMMA InsideStep ==
  ASSUME IInv, NEW t \in Threads,
         process_operation(t) \/ end_of_input(t) \/ phonedir_add_record(t)
         \/ phonedir_del(t) \/ phonedir_find(t) \/ no_memory(t)
         \/ handle_process_output_buffers(t)
  PROVE  IInv'
<1> USE DEF IInv, Control
<1>1. directory_lock = t /\ \A u \in Threads \ {t} : pc[u] \notin Locked
  BY DEF HolderAgrees, process_operation, end_of_input, phonedir_add_record, phonedir_del,
         phonedir_find, no_memory, handle_process_output_buffers
<1>2. \A u \in Threads \ {t} :
        pc'[u] = pc[u] /\ then'[u] = then[u] /\ walked'[u] = walked[u]
  BY DEF process_operation, end_of_input, phonedir_add_record, phonedir_del, phonedir_find,
         no_memory, handle_process_output_buffers, Done, GoOn, GoTo
<1>3. /\ Control' /\ SysCallsOnlyWalk'
      /\ \/ pc'[t] \in Locked /\ directory_lock' = directory_lock
         \/ pc'[t] \in Outside /\ directory_lock' = None
      /\ walked'[t] = IF pc'[t] = "walk" THEN phone_directory' ELSE <<>>
  <2>1. CASE process_operation(t)
    BY <2>1 DEF process_operation, GoTo, SysCallsOnlyWalk, WalkIsCurrent, file
  <2>2. CASE end_of_input(t)
    BY <2>2 DEF end_of_input, GoTo, SysCallsOnlyWalk, WalkIsCurrent, no_memory
  <2>3. CASE phonedir_add_record(t) \/ phonedir_del(t) \/ phonedir_find(t)
    <3>1. Done(t)
      BY <2>3 DEF phonedir_add_record, phonedir_del, phonedir_find
    <3>. QED BY <3>1 DEF Done, GoOn, GoTo, FromDevice, SysCallsOnlyWalk
  <2>4. CASE no_memory(t)
    BY <2>4 DEF no_memory, GoOn, GoTo, FromDevice, SysCallsOnlyWalk
  <2>5. CASE handle_process_output_buffers(t)
    BY <2>5 DEF handle_process_output_buffers, GoOn, GoTo, FromDevice, SysCallsOnlyWalk,
                WalkIsCurrent
  <2>. QED BY <2>1, <2>2, <2>3, <2>4, <2>5
<1>4. HolderAgrees'
  BY <1>1, <1>2, <1>3 DEF HolderAgrees
<1>5. WalkIsCurrent'
  <2>1. \A u \in Threads \ {t} : walked[u] = <<>> /\ pc[u] # "walk"
    BY <1>1 DEF WalkIsCurrent
  <2>. QED BY <1>2, <1>3, <2>1 DEF WalkIsCurrent
<1>. QED BY <1>3, <1>4, <1>5

LEMMA StepIInv == IInv /\ [Next]_vars => IInv'
<1> SUFFICES ASSUME IInv, [Next]_vars PROVE IInv'
  OBVIOUS
<1>1. CASE UNCHANGED vars
  BY <1>1 DEF vars, thread, IInv, Control, HolderAgrees, WalkIsCurrent, SysCallsOnlyWalk
<1>2. ASSUME NEW t \in Threads, Begin(t) \/ down(t) \/ interrupted(t) \/ Go(t)
      PROVE  IInv'
  BY <1>2, OutsideStep, DownStep, InsideStep DEF Go
<1>. QED BY <1>1, <1>2 DEF Next

(* The semaphore has at most one holder, the one that is between down and  *)
(* up: every path gives back exactly what it took.                         *)
THEOREM MutualExclusion == Spec => []HolderAgrees
<1>1. Init => IInv                       BY InitIInv
<1>2. IInv /\ [Next]_vars => IInv'       BY StepIInv
<1>3. IInv => HolderAgrees               BY DEF IInv
<1>. QED BY <1>1, <1>2, <1>3, PTL DEF Spec

(* No entry that somebody walks over is freed: phonedir_del and            *)
(* phonedir_find never run at the same time on the shared list, whether    *)
(* they are reached through the device or through a system call.           *)
THEOREM WalksAreSafe == Spec => []WalkedEntriesStay
<1>1. Init => IInv                       BY InitIInv
<1>2. IInv /\ [Next]_vars => IInv'       BY StepIInv
<1>3. IInv => WalkedEntriesStay
  BY DEF IInv, WalkIsCurrent, WalkedEntriesStay, Range
<1>. QED BY <1>1, <1>2, <1>3, PTL DEF Spec
-----------------------------------------------------------------------------
Cell == [of : Operation, part : Nat]

Data ==
  /\ serial \in Nat /\ phone_directory \in Seq(Entry)
  /\ input \in [Threads -> Seq(Cell)] /\ rest \in [Threads -> Seq(Cell)]
  /\ to_execute \in [Threads -> Seq(Cell)]
  /\ pending \in [Threads -> Seq(Entry)]
  /\ output \in [Threads -> Seq(RecordCell)] /\ to_deliver \in [Threads -> Seq(RecordCell)]
  /\ op \in [Threads -> Operation] /\ l_index \in [Threads -> Nat]
  /\ disturbed \in [Threads -> BOOLEAN]

(* More than one operation is in the buffer: none of it will be carried    *)
(* out.                                                                    *)
Stuck(t) == Unread(t) # <<>> /\ Size(Head(Unread(t)).of) < Len(Unread(t))

(* What is unread begins with an operation that is all there.              *)
BeginsWhole(t) ==
  /\ to_execute[t] = Unread(t)
  /\ l_index[t] <= Len(input[t]) /\ Len(input[t]) <= USER_BUF_CAP
  /\ l_index[t] # 0 => FromDevice(t) /\ pc[t] \in {"input", "walk", "memmove"}
  /\ Unread(t) # <<>> =>
       Head(Unread(t)).part = 1 /\ Size(Head(Unread(t)).of) <= Len(Unread(t))

(* write_all has a whole operation to write, or the buffer is stuck.       *)
WritesWhole(t) ==
  /\ pc[t] \in Outside \ {"down"} => then[t] = "idle"
  /\ rest[t] # <<>> =>
       /\ pc[t] \in {"write", "retry"} \/ then[t] \in {"write", "retry"}
       /\ Stuck(t) \/ rest[t] = Cells(rest[t][1].of)

(* The operation that is carried out is the one the buffer begins with,    *)
(* and all that is in it.                                                  *)
OpAtHand(t) ==
  pc[t] = "walk" /\ FromDevice(t) =>
    /\ Unread(t) # <<>> /\ op[t] = Head(Unread(t)).of
    /\ Len(Unread(t)) = Size(op[t])

(* As long as nothing has gone wrong an operation is in the buffer only    *)
(* during the write that brought it.                                       *)
Quiet(t) ==
  ~disturbed[t] =>
    /\ pc[t] # "memmove"
    /\ Unread(t) # <<>> =>
         FromDevice(t) /\ pc[t] \in {"down", "input", "walk"} /\ ~Stuck(t)

InputOk(t) == BeginsWhole(t) /\ WritesWhole(t) /\ OpAtHand(t) /\ Quiet(t)

OutputOk(t) ==
  /\ \E k \in Nat : Len(output[t]) = k * RecSize
  /\ Len(output[t]) <= USER_BUF_CAP
  /\ to_deliver[t] = output[t] \o Records(pending[t])

BInv == IInv /\ Data /\ \A t \in Threads : InputOk(t) /\ OutputOk(t)

(* Every operation fits into the empty buffer.                             *)
LEMMA SizeFacts ==
  ASSUME NEW o \in Operation
  PROVE  /\ Size(o) \in Nat \ {0} /\ Size(o) <= USER_BUF_CAP
         /\ Cells(o) \in Seq(Cell) /\ Len(Cells(o)) = Size(o)
         /\ Cells(o) # <<>> /\ Head(Cells(o)) = [of |-> o, part |-> 1]
<1>1. Size(o) \in Nat \ {0} /\ Size(o) <= USER_BUF_CAP
  BY DEF Size
<1>2. PICK c : c = Cells(o)
  OBVIOUS
<1>3. PICK n \in Nat \ {0} : n = Size(o)
  BY <1>1
<1>4. c = [i \in 1..n |-> [of |-> o, part |-> i]]
  BY <1>2, <1>3 DEF Cells
<1>5. c \in [1..n -> Cell]
  BY <1>4 DEF Cell
<1>6. c \in Seq(Cell) /\ Len(c) = n
  BY <1>5
<1>7. c[1] = [of |-> o, part |-> 1]
  BY <1>4
<1>. QED BY <1>1, <1>2, <1>3, <1>6, <1>7

LEMMA NoRecords == Records(<<>>) = <<>>
<1>1. PICK none : none = <<>>
  OBVIOUS
<1>2. none \in Seq(Entry) /\ Len(none) = 0
  BY <1>1
<1>3. Records(none) \in Seq(RecordCell) /\ Len(Records(none)) = Len(none) * RecSize
  BY <1>2, RecordsFacts
<1>. QED BY <1>1, <1>2, <1>3

LEMMA ReverseIsSeq ==
  ASSUME NEW S, NEW s \in Seq(S)
  PROVE  Reverse(s) \in Seq(S)
<1>1. PICK n \in Nat : n = Len(s)
  OBVIOUS
<1>2. \A i \in 1..n : (n - i) + 1 \in 1..n /\ s[(n - i) + 1] \in S
  BY <1>1
<1>3. Reverse(s) \in [1..n -> S]
  BY <1>1, <1>2 DEF Reverse
<1>. QED BY <1>3

LEMMA NoOpIsOperation == NoOp \in Operation
BY DEF NoOp, Operation, OpType

(* The buffers of a thread that does nothing.                              *)
LEMMA InputStays ==
  ASSUME NEW t \in Threads, InputOk(t), pc'[t] = pc[t], then'[t] = then[t],
         input'[t] = input[t], rest'[t] = rest[t], l_index'[t] = l_index[t],
         op'[t] = op[t], to_execute'[t] = to_execute[t], disturbed'[t] = disturbed[t]
  PROVE  InputOk(t)'
BY DEF InputOk, BeginsWhole, WritesWhole, OpAtHand, Quiet, Stuck, Unread, FromDevice

LEMMA OutputStays ==
  ASSUME NEW t \in Threads, OutputOk(t), pending'[t] = pending[t],
         output'[t] = output[t], to_deliver'[t] = to_deliver[t]
  PROVE  OutputOk(t)'
BY DEF OutputOk

LEMMA InitBInv == Init => BInv
<1> SUFFICES ASSUME Init PROVE BInv
  OBVIOUS
<1>1. Data
  BY NoOpIsOperation DEF Init, Data
<1>2. ASSUME NEW t \in Threads PROVE InputOk(t)
  <2>1. Unread(t) = <<>>
    BY DEF Init, Unread, DropFirst
  <2>. QED BY <2>1 DEF Init, InputOk, BeginsWhole, WritesWhole, OpAtHand, Quiet
<1>3. ASSUME NEW t \in Threads PROVE OutputOk(t)
  <2>1. Len(<<>>) = 0 * RecSize
    OBVIOUS
  <2>. QED BY <2>1, NoRecords DEF Init, OutputOk
<1>. QED BY <1>1, <1>2, <1>3, InitIInv DEF BInv

(* A step of one thread leaves the buffers of the others alone.            *)
LEMMA OthersStay ==
  ASSUME BInv, NEW t \in Threads, Begin(t) \/ down(t) \/ interrupted(t) \/ Go(t)
  PROVE  \A u \in Threads \ {t} : InputOk(u)' /\ OutputOk(u)'
<1> SUFFICES ASSUME NEW u \in Threads \ {t} PROVE InputOk(u)' /\ OutputOk(u)'
  OBVIOUS
<1> USE DEF file, thread, history, GoTo, GoOn, ProcessThen
<1>1. /\ pc'[u] = pc[u] /\ then'[u] = then[u] /\ input'[u] = input[u]
      /\ rest'[u] = rest[u] /\ l_index'[u] = l_index[u] /\ op'[u] = op[u]
      /\ to_execute'[u] = to_execute[u] /\ disturbed'[u] = disturbed[u]
      /\ pending'[u] = pending[u] /\ output'[u] = output[u] /\ to_deliver'[u] = to_deliver[u]
  <2> USE DEF BInv, IInv, Control, Data
  <2>1. CASE Begin(t)
    BY <2>1 DEF Begin, dev_open, write_all, dev_read, dev_release, system_call
  <2>2. CASE down(t) \/ interrupted(t)
    BY <2>2 DEF down, interrupted
  <2>3. CASE dev_write(t) \/ dev_write_full(t) \/ dev_write_fails(t)
    BY <2>3 DEF dev_write, dev_write_full, dev_write_fails
  <2>4. CASE copy_to_user(t) \/ handle_free(t)
    BY <2>4 DEF copy_to_user, handle_free
  <2>5. CASE process_operation(t) \/ end_of_input(t)
    BY <2>5 DEF process_operation, end_of_input
  <2>6. CASE phonedir_add_record(t) \/ phonedir_del(t) \/ phonedir_find(t)
    <3>1. /\ then'[u] = then[u] /\ l_index'[u] = l_index[u] /\ op'[u] = op[u] /\ pc'[u] = pc[u]
          /\ to_execute'[u] = to_execute[u]
          /\ UNCHANGED <<input, rest, disturbed, output>>
      <4>1. Done(t)
        BY <2>6 DEF phonedir_add_record, phonedir_del, phonedir_find
      <4>. QED BY <4>1 DEF Done
    <3>2. pending'[u] = pending[u] /\ to_deliver'[u] = to_deliver[u]
      BY <2>6 DEF phonedir_add_record, phonedir_del, phonedir_find
    <3>. QED BY <3>1, <3>2
  <2>7. CASE no_memory(t) \/ handle_process_output_buffers(t)
    BY <2>7 DEF no_memory, handle_process_output_buffers
  <2>. QED BY <2>1, <2>2, <2>3, <2>4, <2>5, <2>6, <2>7 DEF Go
<1>2. InputOk(u) /\ OutputOk(u)
  BY DEF BInv
<1>. QED BY <1>1, <1>2, InputStays, OutputStays

(* The beginning of a call: nothing is written or found yet.               *)
LEMMA BeginBuffers ==
  ASSUME BInv, NEW t \in Threads, Begin(t)
  PROVE  Data' /\ InputOk(t)' /\ OutputOk(t)'
<1> USE DEF BInv, IInv, Control, Data
<1>1. PICK o \in Operation : \/ dev_open(t) \/ dev_read(t) \/ dev_release(t)
                             \/ write_all(t, o) \/ system_call(t, o)
  <2>1. \A type \in OpType, s \in Surnames :
          [type |-> type, surname |-> s, serial |-> 0] \in Operation
    BY DEF Operation
  <2>. QED BY <2>1, NoOpIsOperation DEF Begin
<1>2. /\ UNCHANGED <<phone_directory, input, l_index, to_execute, disturbed,
                     pending, output, to_deliver>>
      /\ pc[t] = "idle" /\ serial' \in Nat
  <2>1. CASE write_all(t, o)
    BY <2>1 DEF write_all, file, history
  <2>2. CASE system_call(t, o)
    BY <2>2 DEF system_call, file, history
  <2>. QED BY <1>1, <2>1, <2>2 DEF dev_open, dev_read, dev_release, file, thread, history
<1>3. /\ then[t] = "idle" /\ rest[t] = <<>> /\ l_index[t] = 0
      /\ ~disturbed[t] => Unread(t) = <<>>
  BY <1>2 DEF InputOk, BeginsWhole, WritesWhole, Quiet
<1>4. OutputOk(t)'
  BY <1>2, OutputStays
<1>5. /\ op' \in [Threads -> Operation] /\ rest' \in [Threads -> Seq(Cell)]
      /\ \/ /\ pc'[t] = "idle" /\ then'[t] = "idle" /\ rest'[t] = <<>>
         \/ /\ pc'[t] = "write" /\ then'[t] = "idle"
            /\ \E w \in Operation : rest'[t] = Cells(w)
         \/ /\ pc'[t] = "down" /\ then'[t] \in {"copy_to_user", "free", "sys"}
            /\ rest'[t] = <<>>
  <2>1. CASE dev_open(t)
    BY <1>2, <1>3, <2>1 DEF dev_open, thread
  <2>2. CASE dev_read(t) \/ dev_release(t)
    BY <1>2, <1>3, <2>2 DEF dev_read, dev_release, ProcessThen, GoTo
  <2>3. \A k \in Nat : [o EXCEPT !.serial = k] \in Operation
    BY DEF Operation
  <2>4. CASE write_all(t, o)
    <3>1. [o EXCEPT !.serial = serial + 1] \in Operation
      <4>1. serial + 1 \in Nat
        OBVIOUS
      <4>. QED BY <2>3, <4>1
    <3>2. PICK o1 : o1 = [o EXCEPT !.serial = serial + 1]
      OBVIOUS
    <3>3. o1 \in Operation
      BY <3>1, <3>2
    <3>4. Cells(o1) \in Seq(Cell)
      BY <3>3, SizeFacts
    <3>. QED BY <1>2, <1>3, <2>4, <3>2, <3>3, <3>4 DEF write_all, GoTo
  <2>5. CASE system_call(t, o)
    BY <1>2, <1>3, <2>3, <2>5 DEF system_call, GoTo, ProcessThen
  <2>. QED BY <1>1, <2>1, <2>2, <2>4, <2>5
<1>6. Data'
  BY <1>2, <1>5
<1>7. InputOk(t)'
  <2>1. Unread(t)' = Unread(t) /\ BeginsWhole(t)
    BY <1>2 DEF Unread, InputOk
  <2>2. BeginsWhole(t)'
    BY <1>2, <1>3, <2>1 DEF BeginsWhole
  <2>3. WritesWhole(t)'
    <3>1. ASSUME NEW w \in Operation, rest'[t] = Cells(w)
          PROVE  rest'[t] = Cells(rest'[t][1].of)
      BY <3>1, SizeFacts
    <3>. QED BY <1>5, <3>1 DEF WritesWhole
  <2>4. OpAtHand(t)' /\ Quiet(t)'
    BY <1>2, <1>3, <1>5, <2>1 DEF OpAtHand, Quiet
  <2>. QED BY <2>2, <2>3, <2>4 DEF InputOk
<1>. QED BY <1>4, <1>6, <1>7

LEMMA FirstCell ==
  ASSUME NEW s \in Seq(Cell), s # <<>>
  PROVE  /\ Head(s) = s[1] /\ Head(s) \in Cell /\ Head(s).of \in Operation
         /\ Len(s) \in Nat \ {0}
<1>1. Len(s) \in Nat \ {0}
  OBVIOUS
<1>2. Head(s) = s[1] /\ s[1] \in Cell
  BY <1>1
<1>. QED BY <1>1, <1>2 DEF Cell

LEMMA ConcatHead ==
  ASSUME NEW S, NEW s \in Seq(S), NEW t \in Seq(S)
  PROVE  /\ s = <<>> => s \o t = t
         /\ s # <<>> => s \o t # <<>> /\ Head(s \o t) = Head(s)
OBVIOUS

LEMMA TakeAll ==
  ASSUME NEW S, NEW s \in Seq(S)
  PROVE  SubSeq(s, 1, Len(s)) = s /\ DropFirst(s, Len(s)) = <<>>
BY DropFirstFacts

LEMMA AtMostFacts ==
  ASSUME NEW a \in Nat, NEW b \in Nat
  PROVE  /\ AtMost(a, b) \in Nat /\ AtMost(a, b) <= a /\ AtMost(a, b) <= b
         /\ AtMost(a, b) = a \/ AtMost(a, b) = b
BY DEF AtMost

(* What a write takes in keeps the buffer whole: either an operation goes  *)
(* in at once, or the buffer had one before and is stuck from now on.      *)
LEMMA WriteBuffers ==
  ASSUME BInv, NEW t \in Threads, dev_write(t)
  PROVE  Data' /\ InputOk(t)' /\ OutputOk(t)'
<1>1. PICK i \in Seq(Cell), r \in Seq(Cell) : i = input[t] /\ r = rest[t]
  BY DEF BInv, Data
<1>2. /\ pc[t] \in {"write", "retry"} /\ Len(i) < USER_BUF_CAP
      /\ Len(r) \in Nat /\ Space(t) \in Nat /\ Space(t) = USER_BUF_CAP - Len(i)
  BY <1>1 DEF dev_write, Space, BInv, InputOk, BeginsWhole
<1>3. PICK c : c = AtMost(Len(r), Space(t))
  OBVIOUS
<1>4. /\ c \in 0..Len(r) /\ Len(i) + c <= USER_BUF_CAP
      /\ c = Len(r) \/ Len(i) + c = USER_BUF_CAP
  <2>1. c \in Nat /\ c <= Len(r) /\ c <= Space(t) /\ (c = Len(r) \/ c = Space(t))
    BY <1>2, <1>3, AtMostFacts
  <2>2. Len(i) \in Nat
    OBVIOUS
  <2>. QED BY <1>2, <2>1, <2>2
<1>5. PICK f : f = SubSeq(r, 1, c)
  OBVIOUS
<1>6. PICK d : d = DropFirst(r, c)
  OBVIOUS
<1>7. /\ input' = [input EXCEPT ![t] = i \o f]
      /\ to_execute' = [to_execute EXCEPT ![t] = @ \o f]
      /\ rest' = [rest EXCEPT ![t] = d]
      /\ pc' = [pc EXCEPT ![t] = "down"]
      /\ then' = [then EXCEPT ![t] = IF c = Len(r) THEN "idle" ELSE "write"]
      /\ UNCHANGED <<phone_directory, serial, pending, output, op, l_index,
                     to_deliver, disturbed>>
  BY <1>1, <1>3, <1>5, <1>6 DEF dev_write, ProcessThen, GoTo, BInv, Data
<1>8. f \in Seq(Cell) /\ Len(f) = c
  BY <1>4, <1>5, TakeAndDrop
<1>9. d \in Seq(Cell) /\ Len(d) = Len(r) - c
  BY <1>4, <1>6, DropFirstFacts
<1>10. c = Len(r) => f = r /\ d = <<>>
  BY <1>5, <1>6, TakeAll
<1>11. PICK j : j = i \o f
  OBVIOUS
<1>12. j \in Seq(Cell) /\ Len(j) = Len(i) + c
  BY <1>8, <1>11, ConcatFacts
<1>13. /\ i = <<>> => j = f
       /\ i # <<>> => j # <<>> /\ Head(j) = Head(i)
  BY <1>8, <1>11, ConcatHead
<1>14. Data'
  <2>1. to_execute[t] \in Seq(Cell)
    BY DEF BInv, Data
  <2>2. to_execute[t] \o f \in Seq(Cell)
    BY <1>8, <2>1, ConcatFacts
  <2>. QED BY <1>7, <1>9, <1>11, <1>12, <2>2 DEF BInv, IInv, Control, Data
<1>15. OutputOk(t)'
  BY <1>7, OutputStays DEF BInv
(* The state before. *)
<1>16. /\ l_index[t] = 0 /\ then[t] = "idle"
       /\ to_execute[t] = Unread(t)
  BY <1>2 DEF BInv, InputOk, BeginsWhole, WritesWhole
<1>17. Unread(t) = i /\ Unread(t)' = j
  <2>1. DropFirst(i, 0) = i /\ DropFirst(j, 0) = j
    BY <1>12, DropFirstFacts
  <2>. QED BY <1>1, <1>7, <1>11, <1>16, <2>1 DEF Unread, BInv, Data
<1>18. /\ i # <<>> => Head(i).part = 1 /\ Size(Head(i).of) \in Nat /\ Size(Head(i).of) <= Len(i)
       /\ ~disturbed[t] => i = <<>>
       /\ r # <<>> => (i # <<>> /\ Size(Head(i).of) < Len(i)) \/ r = Cells(r[1].of)
  <2>1. i # <<>> => Head(i).of \in Operation
    BY FirstCell
  <2>. QED BY <1>2, <1>1, <1>17, <2>1, SizeFacts DEF BInv, InputOk, BeginsWhole, WritesWhole, Quiet, Stuck
<1>19. i = <<>> /\ r # <<>> => \E o \in Operation : r = Cells(o) /\ c = Len(r)
  <2>1. SUFFICES ASSUME i = <<>>, r # <<>> PROVE \E o \in Operation : r = Cells(o) /\ c = Len(r)
    OBVIOUS
  <2>2. r[1].of \in Operation
    BY <2>1, FirstCell
  <2>3. r = Cells(r[1].of)
    BY <1>18, <2>1
  <2>4. Len(r) <= USER_BUF_CAP
    BY <2>2, <2>3, SizeFacts
  <2>5. c = Len(r)
    BY <1>2, <1>4, <2>1, <2>4
  <2>. QED BY <2>2, <2>3, <2>5
<1>20. j # <<>> => /\ Head(j).part = 1 /\ Size(Head(j).of) <= Len(j)
                   /\ i = <<>> => Size(Head(j).of) = Len(j)
  <2>1. CASE i # <<>>
    BY <1>2, <1>4, <1>12, <1>13, <1>18, <2>1
  <2>2. CASE i = <<>> /\ r # <<>>
    BY <1>10, <1>13, <1>19, <2>2, SizeFacts
  <2>3. CASE i = <<>> /\ r = <<>>
    BY <1>2, <1>4, <1>8, <1>13, <2>3
  <2>. QED BY <2>1, <2>2, <2>3
<1>21. BeginsWhole(t)'
  <2>1. to_execute'[t] = j /\ input'[t] = j /\ l_index'[t] = 0
    BY <1>1, <1>7, <1>11, <1>16, <1>17 DEF BInv, Data
  <2>2. 0 <= Len(j) /\ Len(j) <= USER_BUF_CAP
    BY <1>4, <1>12
  <2>. QED BY <1>17, <1>20, <2>1, <2>2 DEF BeginsWhole
<1>22. d # <<>> => j # <<>> /\ Size(Head(j).of) < Len(j) /\ c # Len(r)
  <2>1. SUFFICES ASSUME d # <<>> PROVE j # <<>> /\ Size(Head(j).of) < Len(j) /\ c # Len(r)
    OBVIOUS
  <2>2. c # Len(r) /\ c # 0 /\ r # <<>>
    BY <1>2, <1>4, <1>9, <1>10, <2>1
  <2>3. i # <<>>
    BY <1>19, <2>2
  <2>. QED BY <1>4, <1>12, <1>13, <1>18, <2>2, <2>3
<1>23. WritesWhole(t)'
  <2>1. pc'[t] = "down" /\ then'[t] = (IF c = Len(r) THEN "idle" ELSE "write") /\ rest'[t] = d
    BY <1>7 DEF BInv, IInv, Control, Data
  <2>. QED BY <1>17, <1>22, <2>1 DEF WritesWhole, Stuck
<1>24. OpAtHand(t)' /\ Quiet(t)'
  <2>1. then'[t] # "sys" /\ pc'[t] = "down" /\ disturbed'[t] = disturbed[t]
    BY <1>7 DEF BInv, IInv, Control
  <2>. QED BY <1>12, <1>17, <1>18, <1>20, <2>1 DEF OpAtHand, Quiet, Stuck, FromDevice
<1>. QED BY <1>14, <1>15, <1>21, <1>23, <1>24 DEF InputOk

(* Steps that leave what is unread alone.                                  *)
LEMMA CallBuffers ==
  ASSUME BInv, NEW t \in Threads,
         dev_write_full(t) \/ dev_write_fails(t) \/ down(t) \/ interrupted(t)
  PROVE  Data' /\ InputOk(t)' /\ OutputOk(t)'
<1> USE DEF BInv, IInv, Control, Data
<1>1. /\ UNCHANGED <<phone_directory, serial, input, pending, output, l_index,
                     to_execute, to_deliver>>
      /\ op' \in [Threads -> Operation] /\ rest' \in [Threads -> Seq(Cell)]
      /\ disturbed' \in [Threads -> BOOLEAN]
  <2>1. CASE dev_write_full(t) \/ down(t)
    BY <2>1 DEF dev_write_full, down, file, thread, history
  <2>2. CASE dev_write_fails(t)
    <3>1. <<>> \in Seq(Cell)
      OBVIOUS
    <3>. QED BY <2>2, <3>1 DEF dev_write_fails, file, thread, history
  <2>3. CASE interrupted(t)
    BY <2>3, NoOpIsOperation DEF interrupted, GoOn, file, thread, history
  <2>. QED BY <2>1, <2>2, <2>3
<1>2. OutputOk(t)'
  BY <1>1, OutputStays
<1>3. /\ Unread(t)' = Unread(t) /\ Stuck(t)' = Stuck(t) /\ InputOk(t)
  BY <1>1 DEF Unread, Stuck
<1>4. CASE dev_write_full(t)
  <2>1. /\ pc[t] = "write" /\ pc'[t] = "down" /\ then'[t] = "retry" /\ UNCHANGED <<rest, disturbed>>
    BY <1>4 DEF dev_write_full, ProcessThen, GoTo, thread, history
  <2>. QED BY <1>1, <1>2, <1>3, <2>1 DEF InputOk, BeginsWhole, WritesWhole, OpAtHand, Quiet, FromDevice
<1>5. CASE dev_write_fails(t)
  <2>1. /\ pc[t] = "retry" /\ pc'[t] = "idle" /\ rest'[t] = <<>> /\ UNCHANGED <<then, disturbed>>
    BY <1>5 DEF dev_write_fails, GoTo, thread, history
  <2>. QED BY <1>1, <1>2, <1>3, <2>1 DEF InputOk, BeginsWhole, WritesWhole, OpAtHand, Quiet, FromDevice
<1>6. CASE down(t)
  <2>1. /\ pc[t] = "down" /\ pc'[t] = IF FromDevice(t) THEN "input" ELSE "walk"
        /\ UNCHANGED <<then, rest, disturbed, op>>
    BY <1>6 DEF down, GoTo, thread, history
  <2>. QED BY <1>1, <1>2, <1>3, <2>1 DEF InputOk, BeginsWhole, WritesWhole, OpAtHand, Quiet, FromDevice
<1>7. CASE interrupted(t)
  <2>1. /\ pc[t] = "down" /\ pc'[t] = (IF FromDevice(t) THEN then[t] ELSE "idle")
        /\ then'[t] = "idle" /\ UNCHANGED rest
        /\ disturbed'[t] = (disturbed[t] \/ FromDevice(t))
    BY <1>7 DEF interrupted, GoOn, GoTo
  <2>. QED BY <1>1, <1>2, <1>3, <2>1 DEF InputOk, BeginsWhole, WritesWhole, OpAtHand, Quiet, FromDevice
<1>. QED BY <1>4, <1>5, <1>6, <1>7

(* What the processing of the buffers does to the input.                   *)
LEMMA ProcessBuffers ==
  ASSUME BInv, NEW t \in Threads, process_operation(t) \/ end_of_input(t)
  PROVE  Data' /\ InputOk(t)' /\ OutputOk(t)'
<1>1. /\ pc[t] \in {"input", "memmove"} /\ FromDevice(t) /\ FromDevice(t)' /\ then'[t] = then[t]
      /\ UNCHANGED <<phone_directory, serial, pending, output, rest, to_execute,
                     to_deliver, disturbed>>
  BY DEF process_operation, end_of_input, file, history, BInv, IInv, SysCallsOnlyWalk, FromDevice
<1>2. OutputOk(t)'
  BY <1>1, OutputStays DEF BInv
<1>3. PICK u : u = Unread(t)
  OBVIOUS
<1>4. u \in Seq(Cell) /\ Len(u) <= Len(input[t])
  <2>1. input[t] \in Seq(Cell) /\ l_index[t] \in 0..Len(input[t])
    BY DEF BInv, Data, InputOk, BeginsWhole
  <2>. QED BY <1>3, <2>1, DropFirstFacts DEF Unread
<1>5. /\ to_execute[t] = u /\ Len(input[t]) <= USER_BUF_CAP /\ l_index[t] <= Len(input[t])
      /\ u # <<>> => Head(u).part = 1 /\ Size(Head(u).of) <= Len(u)
      /\ rest[t] # <<>> =>
           /\ then[t] \in {"write", "retry"}
           /\ (u # <<>> /\ Size(Head(u).of) < Len(u)) \/ rest[t] = Cells(rest[t][1].of)
      /\ ~disturbed[t] => pc[t] # "memmove" /\ (u # <<>> => ~(Size(Head(u).of) < Len(u)))
  BY <1>1, <1>3 DEF BInv, InputOk, BeginsWhole, WritesWhole, Quiet, Stuck
<1>6. u # <<>> => Head(u).of \in Operation /\ Size(Head(u).of) \in Nat /\ Len(u) \in Nat
  BY <1>4, FirstCell, SizeFacts
<1>7. CASE process_operation(t)
  <2>1. /\ pc'[t] = "walk" /\ op' = [op EXCEPT ![t] = Head(u).of]
        /\ UNCHANGED <<input, l_index>>
        /\ pc[t] = "input" /\ u # <<>> /\ Len(u) <= Size(Head(u).of)
    BY <1>3, <1>7 DEF process_operation, Processable, GoTo, file, BInv, IInv, Control
  <2>2. op' \in [Threads -> Operation] /\ op'[t] = Head(u).of
    BY <1>6, <2>1 DEF BInv, Data
  <2>3. Data'
    BY <1>1, <2>1, <2>2 DEF BInv, Data
  <2>4. Unread(t)' = u
    BY <1>3, <2>1 DEF Unread
  <2>5. Len(u) = Size(Head(u).of)
    BY <1>5, <1>6, <2>1
  <2>6. InputOk(t)'
    BY <1>1, <1>5, <2>1, <2>2, <2>4, <2>5
       DEF InputOk, BeginsWhole, WritesWhole, OpAtHand, Quiet, Stuck, BInv
  <2>. QED BY <1>2, <2>3, <2>6
<1>8. CASE end_of_input(t)
  <2>1. /\ pc'[t] = "output" /\ input' = [input EXCEPT ![t] = u]
        /\ l_index' = [l_index EXCEPT ![t] = 0] /\ UNCHANGED op
        /\ pc[t] = "memmove" \/ u = <<>> \/ ~(Len(u) <= Size(Head(u).of))
    BY <1>3, <1>8 DEF end_of_input, Processable, GoTo, BInv, IInv, Control
  <2>2. Data'
    BY <1>1, <1>4, <2>1 DEF BInv, Data
  <2>3. input'[t] = u /\ l_index'[t] = 0
    BY <2>1 DEF BInv, Data
  <2>4. Unread(t)' = u
    BY <1>4, <2>3, DropFirstFacts DEF Unread
  <2>5. ~disturbed[t] => u = <<>>
    BY <1>5, <1>6, <2>1
  <2>6. Len(u) \in Nat /\ Len(u) <= USER_BUF_CAP
    <3>1. Len(u) \in Nat /\ Len(input[t]) \in Nat
      BY <1>4 DEF BInv, Data
    <3>. QED BY <1>4, <1>5, <3>1
  <2>7. InputOk(t)'
    BY <1>1, <1>5, <2>1, <2>3, <2>4, <2>5, <2>6
       DEF InputOk, BeginsWhole, WritesWhole, OpAtHand, Quiet, Stuck
  <2>. QED BY <1>2, <2>2, <2>7
<1>. QED BY <1>7, <1>8

(* Carrying an operation out takes it, and it alone, out of the input.     *)
LEMMA DoneInput ==
  ASSUME BInv, NEW t \in Threads, pc[t] = "walk", Done(t)
  PROVE  /\ InputOk(t)'
         /\ input' = input /\ rest' = rest /\ serial' = serial /\ output' = output
         /\ disturbed' = disturbed
         /\ to_execute' \in [Threads -> Seq(Cell)] /\ op' \in [Threads -> Operation]
         /\ l_index' \in [Threads -> Nat]
<1>1. UNCHANGED <<serial, input, output, rest, disturbed>>
  BY DEF Done
<1>2. InputOk(t) /\ l_index[t] \in Nat /\ Len(input[t]) \in Nat /\ input[t] \in Seq(Cell)
  BY DEF BInv, Data
<1>3. CASE FromDevice(t)
  <2>1. /\ l_index' = [l_index EXCEPT ![t] = @ + Size(op[t])]
        /\ to_execute' = [to_execute EXCEPT ![t] = DropFirst(@, Size(op[t]))]
        /\ pc' = [pc EXCEPT ![t] = "input"] /\ op' = [op EXCEPT ![t] = NoOp]
        /\ UNCHANGED then
    BY <1>3 DEF Done, GoTo
  <2>2. PICK u : u = Unread(t)
    OBVIOUS
  <2>3. u \in Seq(Cell) /\ Len(u) = Len(input[t]) - l_index[t] /\ l_index[t] <= Len(input[t])
    <3>1. l_index[t] \in 0..Len(input[t])
      BY <1>2 DEF InputOk, BeginsWhole
    <3>. QED BY <1>2, <2>2, <3>1, DropFirstFacts DEF Unread
  <2>4. u # <<>> /\ Len(u) = Size(op[t]) /\ op[t] = Head(u).of /\ to_execute[t] = u
    BY <1>2, <1>3, <2>2 DEF InputOk, OpAtHand, BeginsWhole
  <2>5. op[t] \in Operation /\ Size(op[t]) \in Nat
    BY SizeFacts DEF BInv, Data
  <2>6. l_index[t] + Size(op[t]) = Len(input[t])
    BY <1>2, <2>3, <2>4, <2>5
  <2>7. DropFirst(u, Size(op[t])) = <<>> /\ <<>> \in Seq(Cell)
    BY <2>3, <2>4, TakeAll
  <2>8. /\ to_execute'[t] = <<>> /\ l_index'[t] = Len(input[t]) /\ pc'[t] = "input"
        /\ then'[t] = then[t]
    BY <2>1, <2>4, <2>6, <2>7 DEF BInv, IInv, Control, Data
  <2>9. Unread(t)' = <<>>
    BY <1>1, <1>2, <2>8, TakeAll DEF Unread
  <2>10. ~Stuck(t)
    BY <2>2, <2>4, <2>5 DEF Stuck
  <2>11. InputOk(t)'
    BY <1>1, <1>2, <1>3, <2>8, <2>9, <2>10
       DEF InputOk, BeginsWhole, WritesWhole, OpAtHand, Quiet, FromDevice
  <2>12. to_execute' \in [Threads -> Seq(Cell)]
    BY <2>1, <2>4, <2>7 DEF BInv, Data
  <2>13. op' \in [Threads -> Operation] /\ l_index' \in [Threads -> Nat]
    BY <2>1, <2>5, NoOpIsOperation DEF BInv, Data
  <2>. QED BY <1>1, <2>11, <2>12, <2>13
<1>4. CASE ~FromDevice(t)
  <2>1. /\ pc' = [pc EXCEPT ![t] = "idle"] /\ then' = [then EXCEPT ![t] = "idle"]
        /\ op' = [op EXCEPT ![t] = NoOp] /\ UNCHANGED <<l_index, to_execute>>
    BY <1>4 DEF Done, GoOn, GoTo
  <2>2. Unread(t)' = Unread(t) /\ Stuck(t)' = Stuck(t)
    BY <1>1, <2>1 DEF Unread, Stuck
  <2>3. pc'[t] = "idle" /\ then'[t] = "idle" /\ then[t] = "sys"
    BY <1>4, <2>1 DEF BInv, IInv, Control, FromDevice
  <2>4. InputOk(t)'
    BY <1>1, <1>2, <1>4, <2>1, <2>2, <2>3
       DEF InputOk, BeginsWhole, WritesWhole, OpAtHand, Quiet, FromDevice
  <2>. QED BY <1>1, <2>1, <2>4, NoOpIsOperation DEF BInv, Data
<1>. QED BY <1>3, <1>4

(* The walks.  What is found is added to both accounts of the output.      *)
LEMMA WalkBuffers ==
  ASSUME BInv, NEW t \in Threads,
         phonedir_add_record(t) \/ phonedir_del(t) \/ phonedir_find(t)
  PROVE  Data' /\ InputOk(t)' /\ OutputOk(t)'
<1>1. pc[t] = "walk" /\ Done(t)
  BY DEF phonedir_add_record, phonedir_del, phonedir_find
<1>2. /\ InputOk(t)'
      /\ UNCHANGED <<input, rest, serial, output, disturbed>>
      /\ to_execute' \in [Threads -> Seq(Cell)] /\ op' \in [Threads -> Operation]
      /\ l_index' \in [Threads -> Nat]
  BY <1>1, DoneInput
<1>3. phone_directory \in Seq(Entry) /\ op[t] \in Operation
  BY DEF BInv, Data
<1>4. CASE phonedir_add_record(t)
  <2>1. PICK e : e = [surname |-> op[t].surname, serial |-> op[t].serial]
    OBVIOUS
  <2>2. e \in Entry
    BY <1>3, <2>1 DEF Entry, Operation
  <2>3. <<e>> \in Seq(Entry)
    BY <2>2
  <2>4. <<e>> \o phone_directory \in Seq(Entry)
    BY <1>3, <2>3, ConcatFacts
  <2>5. phone_directory' \in Seq(Entry) /\ UNCHANGED <<pending, to_deliver>>
    BY <1>4, <2>1, <2>4 DEF phonedir_add_record
  <2>6. OutputOk(t)'
    BY <1>2, <2>5, OutputStays DEF BInv
  <2>. QED BY <1>2, <2>5, <2>6 DEF BInv, Data
<1>5. CASE phonedir_del(t)
  <2>1. phone_directory' \in Seq(Entry) /\ UNCHANGED <<pending, to_deliver>>
    BY <1>3, <1>5, OnlyIsSeq DEF phonedir_del
  <2>2. OutputOk(t)'
    BY <1>2, <2>1, OutputStays DEF BInv
  <2>. QED BY <1>2, <2>1, <2>2 DEF BInv, Data
<1>6. CASE phonedir_find(t)
  <2>1. walked[t] = phone_directory
    BY <1>1 DEF BInv, IInv, WalkIsCurrent
  <2>2. \A copied : Only(Reverse(walked[t]), copied) \in Seq(Entry)
    BY <1>3, <2>1, ReverseIsSeq, OnlyIsSeq
  <2>3. CASE FromDevice(t)
    <3>1. PICK matches \in Seq(Entry) :
            /\ pending' = [pending EXCEPT ![t] = @ \o matches]
            /\ to_deliver' = [to_deliver EXCEPT ![t] = @ \o Records(matches)]
      BY <1>6, <2>2, <2>3 DEF phonedir_find
    <3>2. PICK p \in Seq(Entry), o \in Seq(RecordCell) : p = pending[t] /\ o = output[t]
      BY DEF BInv, Data
    <3>3. to_deliver[t] = o \o Records(p)
      BY <3>2 DEF BInv, OutputOk
    <3>4. /\ Records(p) \in Seq(RecordCell) /\ Records(matches) \in Seq(RecordCell)
          /\ p \o matches \in Seq(Entry)
      BY RecordsFacts, ConcatFacts
    <3>5. Records(p \o matches) = Records(p) \o Records(matches)
      BY RecordsOfConcat
    <3>6. (o \o Records(p)) \o Records(matches) = o \o Records(p \o matches)
      BY <3>4, <3>5, ConcatAssoc
    <3>7. o \o Records(p \o matches) \in Seq(RecordCell)
      <4>1. Records(p \o matches) \in Seq(RecordCell)
        BY <3>4, RecordsFacts
      <4>. QED BY <4>1, ConcatFacts
    <3>8. /\ pending' \in [Threads -> Seq(Entry)] /\ pending'[t] = p \o matches
          /\ to_deliver' \in [Threads -> Seq(RecordCell)]
          /\ to_deliver'[t] = o \o Records(p \o matches)
      BY <3>1, <3>2, <3>3, <3>4, <3>6, <3>7 DEF BInv, Data
    <3>9. phone_directory' = phone_directory
      BY <1>6 DEF phonedir_find
    <3>10. OutputOk(t)'
      BY <1>2, <3>2, <3>8 DEF BInv, OutputOk
    <3>. QED BY <1>2, <3>8, <3>9, <3>10 DEF BInv, Data
  <2>4. CASE ~FromDevice(t)
    <3>1. UNCHANGED <<pending, to_deliver, phone_directory>>
      BY <1>6, <2>4 DEF phonedir_find
    <3>2. OutputOk(t)'
      BY <1>2, <3>1, OutputStays DEF BInv
    <3>. QED BY <1>2, <3>1, <3>2 DEF BInv, Data
  <2>. QED BY <2>3, <2>4
<1>. QED BY <1>4, <1>5, <1>6

(* A failed allocation leaves the operation in the buffer, and that is     *)
(* noted.                                                                  *)
LEMMA NoMemoryBuffers ==
  ASSUME BInv, NEW t \in Threads, no_memory(t)
  PROVE  Data' /\ InputOk(t)' /\ OutputOk(t)'
<1>1. /\ pc[t] = "walk"
      /\ UNCHANGED <<phone_directory, serial, input, pending, output, rest, l_index,
                     to_execute, to_deliver>>
  BY DEF no_memory, file
<1>2. OutputOk(t)' /\ Unread(t)' = Unread(t) /\ Stuck(t)' = Stuck(t) /\ InputOk(t)
  BY <1>1, OutputStays DEF BInv, Unread, Stuck
<1>3. CASE FromDevice(t)
  <2>1. /\ pc'[t] = "memmove" /\ disturbed' = [disturbed EXCEPT ![t] = TRUE]
        /\ UNCHANGED <<then, op>>
    BY <1>3 DEF no_memory, GoTo, BInv, IInv, Control
  <2>2. Data' /\ disturbed'[t]
    BY <1>1, <2>1 DEF BInv, Data
  <2>3. InputOk(t)'
    BY <1>1, <1>2, <1>3, <2>1, <2>2
       DEF InputOk, BeginsWhole, WritesWhole, OpAtHand, Quiet, FromDevice
  <2>. QED BY <1>2, <2>2, <2>3
<1>4. CASE ~FromDevice(t)
  <2>1. /\ pc'[t] = "idle" /\ then'[t] = "idle" /\ UNCHANGED disturbed
        /\ op' = [op EXCEPT ![t] = NoOp] /\ then[t] = "sys"
    BY <1>4 DEF no_memory, GoOn, GoTo, BInv, IInv, Control, FromDevice
  <2>2. Data'
    BY <1>1, <2>1, NoOpIsOperation DEF BInv, Data
  <2>3. InputOk(t)'
    BY <1>1, <1>2, <1>4, <2>1
       DEF InputOk, BeginsWhole, WritesWhole, OpAtHand, Quiet, FromDevice
  <2>. QED BY <1>2, <2>2, <2>3
<1>. QED BY <1>3, <1>4

(* Records move from the list into the output buffer, as many as fit.      *)
LEMMA OutputBuffers ==
  ASSUME BInv, NEW t \in Threads, handle_process_output_buffers(t)
  PROVE  Data' /\ InputOk(t)' /\ OutputOk(t)'
<1>1. PICK p \in Seq(Entry), o \in Seq(RecordCell) : p = pending[t] /\ o = output[t]
  BY DEF BInv, Data
<1>2. PICK k \in Nat : Len(o) = k * RecSize
  BY <1>1 DEF BInv, OutputOk
<1>3. PICK n : n = RoomFor(t)
  OBVIOUS
<1>4. PICK q : q = (USER_BUF_CAP - Len(o)) \div RecSize
  OBVIOUS
<1>5. PICK room \in Nat : room = USER_BUF_CAP - Len(o)
  <2>1. Len(o) \in Nat
    OBVIOUS
  <2>2. Len(o) <= USER_BUF_CAP
    BY <1>1 DEF BInv, OutputOk
  <2>. QED BY <2>1, <2>2
<1>6. q \in Nat /\ q * RecSize <= room
  BY <1>4, <1>5
<1>7. n \in 0..Len(p) /\ n <= q
  <2>1. Len(p) \in Nat
    OBVIOUS
  <2>2. n = AtMost(Len(p), q)
    BY <1>1, <1>3, <1>4 DEF RoomFor
  <2>. QED BY <1>6, <2>1, <2>2, AtMostFacts
<1>8. n * RecSize \in Nat /\ n * RecSize <= room
  <2>1. n * RecSize \in Nat /\ n * RecSize <= q * RecSize
    BY <1>6, <1>7
  <2>. QED BY <1>6, <2>1
<1>9. PICK f : f = SubSeq(p, 1, n)
  OBVIOUS
<1>10. PICK d : d = DropFirst(p, n)
  OBVIOUS
<1>11. f \in Seq(Entry) /\ Len(f) = n /\ p = f \o d
  BY <1>7, <1>9, <1>10, TakeAndDrop
<1>12. d \in Seq(Entry)
  BY <1>7, <1>10, DropFirstFacts
<1>13. PICK rf, rd : rf = Records(f) /\ rd = Records(d)
  OBVIOUS
<1>14. rf \in Seq(RecordCell) /\ Len(rf) = n * RecSize /\ rd \in Seq(RecordCell)
  BY <1>11, <1>12, <1>13, RecordsFacts
<1>15. Records(p) = rf \o rd
  BY <1>11, <1>12, <1>13, RecordsOfConcat
<1>16. PICK o1 : o1 = o \o rf
  OBVIOUS
<1>17. o1 \in Seq(RecordCell) /\ Len(o1) = Len(o) + Len(rf)
  BY <1>14, <1>16, ConcatFacts
<1>18. o \o Records(p) = o1 \o rd
  <2>1. (o \o rf) \o rd = o \o (rf \o rd)
    BY <1>14, ConcatAssoc
  <2>. QED BY <1>15, <1>16, <2>1
<1>19. /\ output' = [output EXCEPT ![t] = o1] /\ pending' = [pending EXCEPT ![t] = d]
       /\ pc[t] = "output"
       /\ UNCHANGED <<phone_directory, serial, input, rest, l_index, to_execute, to_deliver,
                      disturbed>>
  BY <1>1, <1>3, <1>9, <1>10, <1>13, <1>16 DEF handle_process_output_buffers, history
<1>20. FromDevice(t) /\ op' = [op EXCEPT ![t] = NoOp] /\ pc'[t] = then[t] /\ then'[t] = "idle"
  BY <1>19 DEF handle_process_output_buffers, GoOn, GoTo, BInv, IInv, Control, SysCallsOnlyWalk, FromDevice
<1>21. Data'
  BY <1>12, <1>17, <1>19, <1>20, NoOpIsOperation DEF BInv, Data
<1>22. OutputOk(t)'
  <2>1. output'[t] = o1 /\ pending'[t] = d /\ to_deliver'[t] = o \o Records(p)
    BY <1>1, <1>19 DEF BInv, Data, OutputOk
  <2>2. Len(o1) = (k + n) * RecSize /\ k + n \in Nat
    BY <1>2, <1>7, <1>14, <1>17, Distributes
  <2>3. Len(o1) <= USER_BUF_CAP
    BY <1>5, <1>8, <1>14, <1>17
  <2>. QED BY <1>13, <1>18, <2>1, <2>2, <2>3 DEF OutputOk
<1>23. InputOk(t)'
  <2>1. Unread(t)' = Unread(t) /\ Stuck(t)' = Stuck(t) /\ InputOk(t)
    BY <1>19 DEF Unread, Stuck, BInv
  <2>2. then[t] \in {"idle", "write", "retry", "copy_to_user", "free"}
    BY <1>20 DEF FromDevice, BInv, IInv, Control
  <2>. QED BY <1>19, <1>20, <2>1, <2>2
           DEF InputOk, BeginsWhole, WritesWhole, OpAtHand, Quiet, FromDevice
<1>. QED BY <1>21, <1>22, <1>23

(* A record, or all that is there if there is none, leaves both accounts.  *)
LEMMA ReadBuffers ==
  ASSUME BInv, NEW t \in Threads, copy_to_user(t)
  PROVE  Data' /\ InputOk(t)' /\ OutputOk(t)'
<1>1. PICK p \in Seq(Entry), o \in Seq(RecordCell) : p = pending[t] /\ o = output[t]
  BY DEF BInv, Data
<1>2. PICK k \in Nat : Len(o) = k * RecSize
  BY <1>1 DEF BInv, OutputOk
<1>3. PICK n : n = AtMost(RecSize, Len(o))
  OBVIOUS
<1>4. n \in 0..Len(o) /\ (n = RecSize \/ n = Len(o))
  <2>1. Len(o) \in Nat
    OBVIOUS
  <2>. QED BY <1>3, <2>1, AtMostFacts
<1>5. PICK d : d = DropFirst(o, n)
  OBVIOUS
<1>6. d \in Seq(RecordCell) /\ Len(d) = Len(o) - n
  BY <1>4, <1>5, DropFirstFacts
<1>7. PICK rp \in Seq(RecordCell) : rp = Records(p)
  BY RecordsFacts
<1>8. DropFirst(o \o rp, n) = d \o rp
  BY <1>4, <1>5, DropOfConcat
<1>9. d \o rp \in Seq(RecordCell)
  BY <1>6, ConcatFacts
<1>10. /\ to_deliver' = [to_deliver EXCEPT ![t] = DropFirst(@, n)]
       /\ output' = [output EXCEPT ![t] = d]
       /\ pc[t] = "copy_to_user" /\ pc' = [pc EXCEPT ![t] = "idle"]
       /\ UNCHANGED <<phone_directory, serial, input, pending, then, op, rest, l_index,
                      to_execute, disturbed>>
  BY <1>1, <1>3, <1>5 DEF copy_to_user, GoTo, thread
<1>11. to_deliver[t] = o \o rp
  BY <1>1, <1>7 DEF BInv, OutputOk
<1>12. Data'
  BY <1>6, <1>8, <1>9, <1>10, <1>11 DEF BInv, Data
<1>13. OutputOk(t)'
  <2>1. output'[t] = d /\ pending'[t] = p /\ to_deliver'[t] = d \o rp
    BY <1>1, <1>8, <1>10, <1>11 DEF BInv, Data
  <2>2. \E j \in Nat : Len(d) = j * RecSize
    <3>1. CASE n = Len(o)
      <4>1. Len(d) = 0 * RecSize
        BY <1>6, <3>1
      <4>. QED BY <4>1
    <3>2. CASE n # Len(o)
      <4>1. k # 0 /\ n = RecSize
        BY <1>2, <1>4, <3>2
      <4>2. k - 1 \in Nat /\ (k - 1) * RecSize = k * RecSize - RecSize
        BY <4>1
      <4>. QED BY <1>2, <1>6, <4>1, <4>2
    <3>. QED BY <3>1, <3>2
  <2>3. Len(d) <= USER_BUF_CAP
    <3>1. Len(o) \in Nat
      OBVIOUS
    <3>2. Len(o) <= USER_BUF_CAP
      BY <1>1 DEF BInv, OutputOk
    <3>. QED BY <1>4, <1>6, <3>1, <3>2
  <2>. QED BY <1>7, <2>1, <2>2, <2>3 DEF OutputOk
<1>14. InputOk(t)'
  <2>1. Unread(t)' = Unread(t) /\ Stuck(t)' = Stuck(t) /\ InputOk(t)
    BY <1>10 DEF Unread, Stuck, BInv
  <2>2. pc'[t] = "idle"
    BY <1>10 DEF BInv, IInv, Control
  <2>. QED BY <1>10, <2>1, <2>2
           DEF InputOk, BeginsWhole, WritesWhole, OpAtHand, Quiet, FromDevice
<1>. QED BY <1>12, <1>13, <1>14

(* What is freed is empty, and so is what it owes.                         *)
LEMMA FreeBuffers ==
  ASSUME BInv, NEW t \in Threads, handle_free(t)
  PROVE  Data' /\ InputOk(t)' /\ OutputOk(t)'
<1>1. /\ pc[t] = "free" /\ pc'[t] = "idle"
      /\ UNCHANGED <<phone_directory, serial, then, op, rest, l_index>>
      /\ input' = [input EXCEPT ![t] = <<>>] /\ pending' = [pending EXCEPT ![t] = <<>>]
      /\ output' = [output EXCEPT ![t] = <<>>] /\ to_execute' = [to_execute EXCEPT ![t] = <<>>]
      /\ to_deliver' = [to_deliver EXCEPT ![t] = <<>>]
      /\ disturbed' = [disturbed EXCEPT ![t] = FALSE]
  BY DEF handle_free, GoTo, thread, BInv, IInv, Control
<1>2. <<>> \in Seq(Cell) /\ <<>> \in Seq(Entry) /\ <<>> \in Seq(RecordCell)
  OBVIOUS
<1>3. Data'
  BY <1>1, <1>2 DEF BInv, Data
<1>4. /\ input'[t] = <<>> /\ pending'[t] = <<>> /\ output'[t] = <<>>
      /\ to_execute'[t] = <<>> /\ to_deliver'[t] = <<>>
  BY <1>1 DEF BInv, Data
<1>5. InputOk(t) /\ l_index[t] = 0 /\ then[t] = "idle" /\ rest[t] = <<>>
  BY <1>1 DEF BInv, InputOk, BeginsWhole, WritesWhole
<1>6. Unread(t)' = <<>>
  <2>1. PICK e : e = <<>>
    OBVIOUS
  <2>2. e \in Seq(Cell) /\ 0 = Len(e)
    BY <2>1
  <2>3. DropFirst(e, Len(e)) = <<>>
    BY <2>2, TakeAll
  <2>. QED BY <1>1, <1>4, <1>5, <2>1, <2>2, <2>3 DEF Unread
<1>7. Len(<<>>) = 0 * RecSize /\ Len(<<>>) = 0 /\ <<>> \o <<>> = <<>>
  OBVIOUS
<1>8. InputOk(t)'
  BY <1>1, <1>4, <1>5, <1>6, <1>7
     DEF InputOk, BeginsWhole, WritesWhole, OpAtHand, Quiet, FromDevice
<1>9. OutputOk(t)'
  BY <1>4, <1>7, NoRecords DEF OutputOk
<1>. QED BY <1>3, <1>8, <1>9

LEMMA StepBInv == BInv /\ [Next]_vars => BInv'
<1> SUFFICES ASSUME BInv, [Next]_vars PROVE BInv'
  OBVIOUS
<1>1. IInv'
  BY StepIInv DEF BInv
<1>2. CASE UNCHANGED vars
  <2>1. Data'
    BY <1>2 DEF vars, file, thread, history, BInv, Data
  <2>2. ASSUME NEW t \in Threads PROVE InputOk(t)' /\ OutputOk(t)'
    <3>1. InputOk(t) /\ OutputOk(t)
      BY DEF BInv
    <3>2. /\ pc'[t] = pc[t] /\ then'[t] = then[t] /\ input'[t] = input[t]
          /\ rest'[t] = rest[t] /\ l_index'[t] = l_index[t] /\ op'[t] = op[t]
          /\ to_execute'[t] = to_execute[t] /\ disturbed'[t] = disturbed[t]
          /\ pending'[t] = pending[t] /\ output'[t] = output[t]
          /\ to_deliver'[t] = to_deliver[t]
      BY <1>2 DEF vars, file, thread, history
    <3>. QED BY <3>1, <3>2, InputStays, OutputStays
  <2>. QED BY <1>1, <2>1, <2>2 DEF BInv
<1>3. ASSUME NEW t \in Threads, Begin(t) \/ down(t) \/ interrupted(t) \/ Go(t)
      PROVE  BInv'
  <2>1. Data' /\ InputOk(t)' /\ OutputOk(t)'
    BY <1>3, BeginBuffers, CallBuffers, WriteBuffers, ProcessBuffers, WalkBuffers,
       NoMemoryBuffers, OutputBuffers, ReadBuffers, FreeBuffers DEF Go
  <2>2. \A u \in Threads \ {t} : InputOk(u)' /\ OutputOk(u)'
    BY <1>3, OthersStay
  <2>. QED BY <1>1, <2>1, <2>2 DEF BInv
<1>. QED BY <1>2, <1>3 DEF Next

LEMMA AlwaysBInv == Spec => []BInv
<1>1. Init => BInv                       BY InitBInv
<1>2. BInv /\ [Next]_vars => BInv'       BY StepBInv
<1>. QED BY <1>1, <1>2, PTL DEF Spec

(* Nothing that was written is lost, repeated or reordered before it is    *)
(* carried out.                                                            *)
THEOREM CarriedOutInOrder == Spec => []ExecutedInOrder
<1>1. BInv => ExecutedInOrder
  BY DEF BInv, InputOk, BeginsWhole, ExecutedInOrder
<1>. QED BY <1>1, AlwaysBInv, PTL

(* input_offset neither passes the end of the buffer nor becomes negative. *)
THEOREM BuffersHold == Spec => []NeverOverruns
<1>1. BInv => NeverOverruns
  BY DEF BInv, InputOk, BeginsWhole, NeverOverruns
<1>. QED BY <1>1, AlwaysBInv, PTL

(* What read returns is what was found.                                    *)
THEOREM FoundIsRead == Spec => []ReadsWhatWasFound
<1>1. BInv => ReadsWhatWasFound
  BY DEF BInv, OutputOk, ReadsWhatWasFound
<1>. QED BY <1>1, AlwaysBInv, PTL

(* A read returns whole records.                                           *)
THEOREM OnlyWholeQuants == Spec => []WholeQuants
<1>1. BInv => WholeQuants
  <2>1. ASSUME NEW k \in Nat PROVE (k * RecSize) % RecSize = 0
    BY WhichFacts, WhichShifted DEF PartOf
  <2>. QED BY <2>1 DEF BInv, OutputOk, WholeQuants
<1>. QED BY <1>1, AlwaysBInv, PTL

(* A write that returns undisturbed leaves nothing in the buffer.          *)
THEOREM WrittenIsDone == Spec => []DoneWhenWritten
<1>1. BInv => DoneWhenWritten
  <2>1. SUFFICES ASSUME BInv, NEW t \in Threads, pc[t] = "idle", ~disturbed[t]
                 PROVE  input[t] = <<>>
    BY DEF DoneWhenWritten
  <2>2. l_index[t] = 0 /\ Unread(t) = <<>>
    BY <2>1 DEF BInv, InputOk, BeginsWhole, Quiet
  <2>3. input[t] \in Seq(Cell)
    BY <2>1 DEF BInv, Data
  <2>. QED BY <2>2, <2>3, DropFirstFacts DEF Unread
<1>. QED BY <1>1, AlwaysBInv, PTL
=============================================================================
