---------------------------- MODULE SyncLogProofs ----------------------------
(***************************************************************************)
(* The safety of SyncLog, proved for any writers, conversations, lag and   *)
(* page.  The invariant says who holds a conversation's row (LockInv), how *)
(* numbers and ids were given out under it (OrderInv), and how far the     *)
(* reader's cursor and clock may have come (ReaderInv).                    *)
(***************************************************************************)
EXTENDS SyncLog, FiniteSetTheorems, TLAPS

Numbered(w) == phase[w] \in {"locked", "inserted", "committed"}
HasId(w) == phase[w] \in {"inserted", "committed"}
Holds(w) == phase[w] \in {"locked", "inserted"}

(* The row of a conversation is held by the one writer that has a number   *)
(* and has not ended, and that number is the next.                         *)
LockInv ==
  /\ \A w \in Writers :
       /\ phase[w] # "idle" => conv[w] \in Conversations /\ start[w] <= now
       /\ Holds(w) => holder[conv[w]] = w /\ seq[w] = lastSeq[conv[w]] + 1
       /\ phase[w] = "committed" => seq[w] <= lastSeq[conv[w]]
  /\ \A c \in Conversations : holder[c] # None => Holds(holder[c]) /\ conv[holder[c]] = c

(* Ids are given out in order, and later to the holder of a row than to    *)
(* those who held it before.                                               *)
OrderInv ==
  /\ nextId > 0
  /\ \A w \in Writers : HasId(w) => 0 < id[w] /\ id[w] < nextId
  /\ \A v, w \in Writers : HasId(v) /\ HasId(w) /\ id[v] = id[w] => v = w
  /\ IdsFollowSeqs

(* What was delivered is committed and behind the cursor, which has not    *)
(* passed the ids that are still to come.                                  *)
ReaderInv ==
  /\ syncStart # None => syncStart <= now
  /\ cursor < nextId
  /\ \A w \in delivered : phase[w] = "committed" /\ id[w] <= cursor

Inv == TypeOK /\ LockInv /\ OrderInv /\ ReaderInv /\ SkipsExplained

-----------------------------------------------------------------------------
(* The clock, rows and ids have their types after every step.              *)
LEMMA TypeStep == TypeOK /\ LockInv /\ [Next]_vars => TypeOK'
<1> SUFFICES ASSUME TypeOK, LockInv, [Next]_vars PROVE TypeOK'
  OBVIOUS
<1> USE SyncAssumption DEF TypeOK, SyncAssumption, Phase, tx, reader
<1>1. ASSUME NEW w \in Writers, NEW c \in Conversations, Begin(w, c) PROVE TypeOK'
  BY <1>1 DEF Begin
<1>2. ASSUME NEW w \in Writers, AllocSeq(w) PROVE TypeOK'
  <2>1. lastSeq[conv[w]] + 1 \in Nat
    BY <1>2 DEF AllocSeq, LockInv
  <2> QED BY <1>2, <2>1 DEF AllocSeq
<1>3. ASSUME NEW w \in Writers, Insert(w) PROVE TypeOK'
  BY <1>3 DEF Insert
<1>4. ASSUME NEW w \in Writers, Commit(w) PROVE TypeOK'
  BY <1>4 DEF Commit
<1>5. ASSUME NEW w \in Writers, Abort(w) PROVE TypeOK'
  BY <1>5 DEF Abort
<1>6. CASE BeginSync
  BY <1>6 DEF BeginSync
<1>7. CASE ReadPage
  <2>1. Page \subseteq Writers
    BY DEF Page, Visible, Committed
  <2>2. cursor' \in Nat
    BY <1>7, <2>1 DEF ReadPage
  <2> QED BY <1>7, <2>1, <2>2 DEF ReadPage
<1>8. CASE Tick
  BY <1>8 DEF Tick
<1>9. CASE UNCHANGED vars
  BY <1>9 DEF vars
<1> QED BY <1>1, <1>2, <1>3, <1>4, <1>5, <1>6, <1>7, <1>8, <1>9 DEF Next

-----------------------------------------------------------------------------
(* Writers                                                                 *)

(* The number of a held row goes to its holder only.                       *)
LEMMA LockStep == TypeOK /\ LockInv /\ [Next]_vars => LockInv'
<1> SUFFICES ASSUME TypeOK, LockInv, [Next]_vars PROVE LockInv'
  OBVIOUS
<1> USE SyncAssumption DEF TypeOK, SyncAssumption, LockInv, Holds
<1>1. ASSUME NEW w \in Writers, NEW c \in Conversations, Begin(w, c) PROVE LockInv'
  BY <1>1 DEF Begin
<1>2. ASSUME NEW w \in Writers, AllocSeq(w) PROVE LockInv'
  BY <1>2 DEF AllocSeq
<1>3. ASSUME NEW w \in Writers, Insert(w) PROVE LockInv'
  BY <1>3 DEF Insert
<1>4. ASSUME NEW w \in Writers, Commit(w) PROVE LockInv'
  BY <1>4 DEF Commit
<1>5. ASSUME NEW w \in Writers, Abort(w) PROVE LockInv'
  BY <1>5 DEF Abort, Open
<1>6. CASE BeginSync \/ ReadPage
  BY <1>6 DEF BeginSync, ReadPage, tx
<1>7. CASE Tick
  BY <1>7 DEF Tick, tx
<1>8. CASE UNCHANGED vars
  BY <1>8 DEF vars, tx
<1> QED BY <1>1, <1>2, <1>3, <1>4, <1>5, <1>6, <1>7, <1>8 DEF Next

(* A transaction that holds a row is the last of its conversation.         *)
LEMMA HolderIsLast ==
  ASSUME TypeOK, LockInv, NEW w \in Writers, Holds(w),
         NEW v \in Writers, v # w, Numbered(v), conv[v] = conv[w]
  PROVE  phase[v] = "committed" /\ seq[v] < seq[w]
<1>1. phase[v] = "committed"
  BY DEF LockInv, Holds, Numbered
<1>2. seq[v] <= lastSeq[conv[w]] /\ seq[w] = lastSeq[conv[w]] + 1 /\ conv[w] \in Conversations
  BY <1>1 DEF LockInv, Holds
<1> QED BY <1>1, <1>2 DEF TypeOK

(* An insert takes an id above all, and a number above all of its          *)
(* conversation.                                                           *)
LEMMA OrderStep == TypeOK /\ LockInv /\ OrderInv /\ [Next]_vars => OrderInv'
<1> SUFFICES ASSUME TypeOK, LockInv, OrderInv, [Next]_vars PROVE OrderInv'
  OBVIOUS
<1> USE SyncAssumption DEF SyncAssumption
<1>1. ASSUME UNCHANGED <<seq, id, conv, nextId>>,
             \A w \in Writers : HasId(w)' => HasId(w)
      PROVE  OrderInv'
  <2>1. \A v, w \in Writers : HasId(v)' /\ HasId(w)' => HasId(v) /\ HasId(w)
    BY <1>1
  <2>2. IdsFollowSeqs'
    BY <1>1, <2>1 DEF OrderInv, IdsFollowSeqs, HasId
  <2> QED BY <1>1, <2>2 DEF OrderInv
<1>2. ASSUME NEW w \in Writers, NEW c \in Conversations, Begin(w, c) PROVE OrderInv'
  <2>1. \A v \in Writers : HasId(v)' =>
          v # w /\ HasId(v) /\ seq'[v] = seq[v] /\ id'[v] = id[v] /\ conv'[v] = conv[v]
    BY <1>2 DEF Begin, HasId, TypeOK
  <2>2. IdsFollowSeqs'
    BY <2>1 DEF OrderInv, IdsFollowSeqs, HasId
  <2> QED BY <1>2, <2>1, <2>2 DEF Begin, OrderInv
<1>3. ASSUME NEW w \in Writers, AllocSeq(w) PROVE OrderInv'
  <2>1. \A v \in Writers : HasId(v)' =>
          v # w /\ HasId(v) /\ seq'[v] = seq[v] /\ id'[v] = id[v] /\ conv'[v] = conv[v]
    BY <1>3 DEF AllocSeq, HasId, TypeOK
  <2>2. IdsFollowSeqs'
    BY <2>1 DEF OrderInv, IdsFollowSeqs, HasId
  <2> QED BY <1>3, <2>1, <2>2 DEF AllocSeq, OrderInv
<1>4. ASSUME NEW w \in Writers, Insert(w) PROVE OrderInv'
  <2>1. /\ id'[w] = nextId /\ nextId' = nextId + 1 /\ nextId \in Nat
        /\ UNCHANGED <<seq, conv>>
        /\ \A v \in Writers \ {w} : id'[v] = id[v] /\ (HasId(v)' <=> HasId(v))
    BY <1>4 DEF Insert, HasId, TypeOK
  <2>2. \A v \in Writers : id[v] \in Nat
    BY DEF TypeOK
  <2>3. \A v \in Writers \ {w} : HasId(v) /\ conv[v] = conv[w] => seq[v] < seq[w]
    BY <1>4, HolderIsLast DEF Insert, Holds, HasId, Numbered
  <2>4. \A v \in Writers \ {w} : HasId(v) => 0 < id[v] /\ id[v] < nextId
    BY DEF OrderInv
  <2>5. IdsFollowSeqs'
    <3> SUFFICES ASSUME NEW u \in Writers, NEW v \in Writers, HasId(u)', HasId(v)',
                        conv[u] = conv[v], id'[u] < id'[v]
                 PROVE  seq[u] < seq[v]
      BY <2>1 DEF IdsFollowSeqs, HasId
    <3>1. CASE v = w
      BY <2>1, <2>3, <3>1
    <3>2. CASE u = w /\ v # w
      BY <2>1, <2>2, <2>4, <3>2
    <3>3. CASE u # w /\ v # w
      BY <2>1, <3>3 DEF OrderInv, IdsFollowSeqs, HasId
    <3> QED BY <3>1, <3>2, <3>3
  <2>6. \A v \in Writers : HasId(v)' => 0 < id'[v] /\ id'[v] < nextId'
    BY <2>1, <2>2, <2>4 DEF OrderInv
  <2>7. ASSUME NEW u \in Writers, NEW v \in Writers, HasId(u)', HasId(v)', id'[u] = id'[v]
        PROVE  u = v
    BY <2>1, <2>2, <2>4, <2>7 DEF OrderInv
  <2>8. nextId' > 0
    BY <2>1
  <2> QED BY <2>5, <2>6, <2>7, <2>8 DEF OrderInv
<1>5. ASSUME NEW w \in Writers, Commit(w) PROVE OrderInv'
  BY <1>1, <1>5 DEF Commit, HasId, TypeOK
<1>6. ASSUME NEW w \in Writers, Abort(w) PROVE OrderInv'
  BY <1>1, <1>6 DEF Abort, HasId, TypeOK
<1>7. CASE BeginSync \/ ReadPage \/ Tick \/ UNCHANGED vars
  BY <1>1, <1>7 DEF BeginSync, ReadPage, Tick, vars, tx, HasId
<1> QED BY <1>2, <1>3, <1>4, <1>5, <1>6, <1>7 DEF Next

-----------------------------------------------------------------------------
(* The reader                                                              *)

(* What a page holds, and where the cursor stands after it.                *)
LEMMA PageFacts ==
  ASSUME TypeOK, OrderInv, ReadPage
  PROVE  /\ Page \subseteq Visible
         /\ \/ Page = {} /\ cursor' = cursor
            \/ \E x \in Page : /\ cursor' = id[x] /\ cursor < id[x]
                             /\ \A v \in Page : id[v] <= id[x]
BY DEF ReadPage, Page, Visible, IsLast

(* Reading does not outrun what has been written.                          *)
LEMMA ReaderStep == TypeOK /\ OrderInv /\ ReaderInv /\ [Next]_vars => ReaderInv'
<1> SUFFICES ASSUME TypeOK, OrderInv, ReaderInv, [Next]_vars PROVE ReaderInv'
  OBVIOUS
<1> USE SyncAssumption DEF TypeOK, SyncAssumption, ReaderInv, tx, reader
<1>1. ASSUME NEW w \in Writers, NEW c \in Conversations, Begin(w, c) PROVE ReaderInv'
  BY <1>1 DEF Begin
<1>2. ASSUME NEW w \in Writers, AllocSeq(w) PROVE ReaderInv'
  BY <1>2 DEF AllocSeq
<1>3. ASSUME NEW w \in Writers, Insert(w) PROVE ReaderInv'
  BY <1>3 DEF Insert
<1>4. ASSUME NEW w \in Writers, Commit(w) PROVE ReaderInv'
  BY <1>4 DEF Commit
<1>5. ASSUME NEW w \in Writers, Abort(w) PROVE ReaderInv'
  BY <1>5 DEF Abort, Open
<1>6. CASE BeginSync
  BY <1>6 DEF BeginSync
<1>7. CASE ReadPage
  <2>1. \A v \in Visible : v \in Writers /\ phase[v] = "committed" /\ id[v] < nextId
    BY DEF Visible, Committed, OrderInv, HasId
  <2>2. cursor' < nextId /\ cursor <= cursor' /\ \A v \in Page : id[v] <= cursor'
    BY <1>7, <2>1, PageFacts
  <2>3. \A v \in delivered' : phase[v] = "committed" /\ id[v] <= cursor'
    <3> SUFFICES ASSUME NEW v \in delivered' PROVE phase[v] = "committed" /\ id[v] <= cursor'
      OBVIOUS
    <3>1. CASE v \in delivered
      <4>1. phase[v] = "committed" /\ id[v] <= cursor /\ v \in Writers
        BY <3>1
      <4>2. \A x \in Page : id[x] \in Nat
        BY <1>7, <2>1, PageFacts
      <4>3. cursor' \in Nat /\ id[v] \in Nat
        BY <1>7, <4>1, <4>2, PageFacts
      <4> QED BY <2>2, <4>1, <4>3
    <3>2. CASE v \in Page
      BY <2>1, <2>2, <3>2, <1>7, PageFacts
    <3> QED BY <1>7, <3>1, <3>2 DEF ReadPage
  <2> QED BY <1>7, <2>2, <2>3 DEF ReadPage
<1>8. CASE Tick
  BY <1>8 DEF Tick
<1>9. CASE UNCHANGED vars
  BY <1>9 DEF vars
<1> QED BY <1>1, <1>2, <1>3, <1>4, <1>5, <1>6, <1>7, <1>8, <1>9 DEF Next

(* Ids are distinct, so only finitely many of them are at most n.          *)
LEMMA FewIds ==
  ASSUME TypeOK, OrderInv, NEW n \in Nat
  PROVE  IsFiniteSet({v \in Visible : id[v] <= n})
<1> DEFINE S == {v \in Visible : id[v] <= n}
           f == [v \in S |-> id[v]]
<1>1. \A v \in S : v \in Writers /\ HasId(v) /\ id[v] \in 0..n
  BY DEF Visible, Committed, HasId, OrderInv, TypeOK
<1>2. f \in Injection(S, 0..n)
  BY <1>1 DEF Injection, IsInjective, OrderInv
<1>3. IsFiniteSet(0..n)
  BY FS_Interval
<1> HIDE DEF S, f
<1>4. IsFiniteSet(S)
  BY <1>2, <1>3, FS_Injection
<1> QED BY <1>4 DEF S

(* A page leaves out nothing visible below its last row.                   *)
LEMMA PageIsPrefix ==
  ASSUME TypeOK, OrderInv, NEW x \in Page, NEW w \in Visible, id[w] <= id[x]
  PROVE  w \in Page
<1> USE SyncAssumption DEF SyncAssumption
<1> DEFINE Below(v) == {u \in Visible : id[u] <= id[v]}
<1>1. x \in Visible /\ Cardinality(Below(x)) <= Limit
  BY DEF Page
<1>2. \A v \in Visible : v \in Writers /\ id[v] \in Nat
  BY DEF Visible, Committed, TypeOK
<1>3. IsFiniteSet(Below(x)) /\ IsFiniteSet(Below(w))
  BY <1>1, <1>2, FewIds
<1>4. Below(w) \subseteq Below(x)
  BY <1>1, <1>2
<1>5. Cardinality(Below(w)) <= Cardinality(Below(x))
  BY <1>3, <1>4, FS_Subset
<1>6. Cardinality(Below(w)) \in Nat /\ Cardinality(Below(x)) \in Nat
  BY <1>3, FS_CardinalityType
<1>7. Cardinality(Below(w)) <= Limit
  BY <1>1, <1>5, <1>6
<1> QED BY <1>7 DEF Page

(* The explanations of a skip stay true, and a page passes nothing         *)
(* without one.                                                            *)
LEMMA SkipStep == Inv /\ [Next]_vars => SkipsExplained'
<1> SUFFICES ASSUME Inv, [Next]_vars, NEW w \in Writers, Passed(w)'
             PROVE  Slow(w)' \/ Overtaken(w)'
  BY DEF SkipsExplained
<1> USE SyncAssumption DEF SyncAssumption
<1>1. TypeOK /\ LockInv /\ OrderInv /\ ReaderInv /\ SkipsExplained
  BY DEF Inv
<1>2. now \in Nat /\ cursor \in Nat /\ \A v \in Writers : start[v] \in Nat /\ id[v] \in Nat
  BY <1>1 DEF TypeOK
<1>3. ASSUME Passed(w),
             delivered \subseteq delivered',
             start'[w] = start[w], id'[w] = id[w], now <= now', now' \in Nat,
             \A v \in delivered : start'[v] = start[v] /\ id'[v] = id[v],
             phase[w] = "committed" => phase'[w] = "committed" /\ ended'[w] = ended[w],
             phase[w] # "committed" /\ phase'[w] = "committed" => ended'[w] = now
      PROVE  Slow(w)' \/ Overtaken(w)'
  <2>1. CASE Overtaken(w)
    BY <1>3, <2>1 DEF Overtaken
  <2>2. CASE Slow(w)
    BY <1>2, <1>3, <2>2 DEF Slow
  <2> QED BY <1>1, <1>3, <2>1, <2>2 DEF SkipsExplained
<1>4. delivered \subseteq Writers /\ \A v \in delivered : phase[v] = "committed"
  BY <1>1 DEF TypeOK, ReaderInv
<1>5. ASSUME NEW v \in Writers, NEW c \in Conversations, Begin(v, c)
      PROVE  Slow(w)' \/ Overtaken(w)'
  <2>1. v # w /\ v \notin delivered
    BY <1>1, <1>4, <1>5 DEF Begin, Passed, TypeOK
  <2>2. Passed(w)
    BY <1>1, <1>5, <2>1 DEF Begin, Passed, TypeOK, reader
  <2> QED BY <1>1, <1>2, <1>3, <1>4, <1>5, <2>1, <2>2 DEF Begin, TypeOK, reader
<1>6. ASSUME NEW v \in Writers, AllocSeq(v) PROVE Slow(w)' \/ Overtaken(w)'
  <2>1. v # w /\ v \notin delivered
    BY <1>1, <1>4, <1>6 DEF AllocSeq, Passed, TypeOK
  <2>2. Passed(w)
    BY <1>1, <1>6, <2>1 DEF AllocSeq, Passed, TypeOK, reader
  <2> QED BY <1>1, <1>2, <1>3, <1>4, <1>6, <2>1, <2>2 DEF AllocSeq, TypeOK, reader
<1>7. ASSUME NEW v \in Writers, Insert(v) PROVE Slow(w)' \/ Overtaken(w)'
  <2>1. v \notin delivered /\ v # w
    BY <1>1, <1>2, <1>4, <1>7 DEF Insert, Passed, TypeOK, ReaderInv, reader
  <2>2. Passed(w)
    BY <1>1, <1>7, <2>1 DEF Insert, Passed, TypeOK, reader
  <2> QED BY <1>1, <1>2, <1>3, <1>4, <1>7, <2>1, <2>2 DEF Insert, TypeOK, reader
<1>8. ASSUME NEW v \in Writers, Commit(v) PROVE Slow(w)' \/ Overtaken(w)'
  <2>1. Passed(w)
    BY <1>1, <1>8 DEF Commit, Passed, TypeOK, reader
  <2> QED BY <1>1, <1>2, <1>3, <1>4, <1>8, <2>1 DEF Commit, TypeOK, reader
<1>9. ASSUME NEW v \in Writers, Abort(v) PROVE Slow(w)' \/ Overtaken(w)'
  <2>1. Passed(w)
    BY <1>1, <1>9 DEF Abort, Passed, TypeOK, reader
  <2> QED BY <1>1, <1>2, <1>3, <1>4, <1>9, <2>1 DEF Abort, TypeOK, reader, Passed
<1>10. CASE BeginSync
  BY <1>2, <1>3, <1>10 DEF BeginSync, tx, Passed
<1>11. CASE Tick
  BY <1>2, <1>3, <1>11 DEF Tick, tx, reader, Passed
<1>12. CASE UNCHANGED vars
  BY <1>2, <1>3, <1>12 DEF vars, tx, reader, Passed
<1>13. CASE ReadPage
  <2>1. /\ HasId(w) /\ conv[w] \in Mine /\ id[w] <= cursor' /\ w \notin delivered \cup Page
        /\ UNCHANGED <<now, tx>> /\ delivered' = delivered \cup Page
    BY <1>13 DEF ReadPage, Passed, HasId, tx
  <2>2. CASE id[w] <= cursor
    <3>1. Passed(w)
      BY <2>1, <2>2 DEF Passed, HasId
    <3> QED BY <1>2, <1>3, <2>1, <3>1 DEF tx
  <2>3. CASE cursor < id[w]
    <3>1. PICK x \in Page : cursor' = id[x] /\ cursor < id[x]
      BY <1>1, <1>2, <1>13, <2>1, <2>3, PageFacts
    <3>2. /\ x \in Writers /\ HasId(x) /\ start[x] < syncStart - Lag
          /\ syncStart \in Nat /\ syncStart <= now
      BY <1>1, <1>13, <3>1, PageFacts
         DEF ReadPage, Visible, Committed, HasId, ReaderInv, TypeOK
    <3>3. id[w] < id[x]
      BY <1>1, <1>2, <2>1, <3>1, <3>2 DEF OrderInv
    <3>4. w \notin Visible
      BY <1>1, <2>1, <3>1, <3>3, <1>2, <3>2, PageIsPrefix
    <3>5. CASE start[x] < start[w]
      BY <2>1, <3>3, <3>5 DEF Overtaken, tx
    <3>6. CASE start[w] <= start[x]
      <4>1. start[w] < syncStart - Lag
        BY <1>2, <3>2, <3>6
      <4>2. phase[w] # "committed"
        BY <2>1, <2>3, <3>4, <4>1 DEF Visible, Committed
      <4>3. start[w] + Lag < now
        BY <1>2, <3>2, <4>1
      <4> QED BY <2>1, <4>2, <4>3 DEF Slow, tx
    <3> QED BY <1>2, <3>2, <3>5, <3>6
  <2> QED BY <1>2, <2>1, <2>2, <2>3
<1> QED BY <1>5, <1>6, <1>7, <1>8, <1>9, <1>10, <1>11, <1>12, <1>13 DEF Next

-----------------------------------------------------------------------------
(* Before anything has been written.                                       *)
LEMMA InvInit == Init => Inv
<1> SUFFICES ASSUME Init PROVE Inv
  OBVIOUS
<1> USE SyncAssumption DEF Init, SyncAssumption
<1>1. TypeOK
  BY DEF TypeOK, Phase
<1>2. LockInv
  BY DEF LockInv, Holds
<1>3. OrderInv
  BY DEF OrderInv, HasId, IdsFollowSeqs
<1>4. ReaderInv
  BY DEF ReaderInv
<1>5. SkipsExplained
  BY DEF SkipsExplained, Passed
<1> QED BY <1>1, <1>2, <1>3, <1>4, <1>5 DEF Inv

(* The invariant is inductive.                                             *)
LEMMA InvStep == Inv /\ [Next]_vars => Inv'
BY TypeStep, LockStep, OrderStep, ReaderStep, SkipStep DEF Inv

(* Rows are held, numbered and read as the invariant says, always.         *)
THEOREM LogIsOrdered == Spec => []Inv
BY InvInit, InvStep, PTL DEF Spec

(* Clock, transactions, ids and cursor have their types.                   *)
THEOREM TypeCorrect == Spec => []TypeOK
<1>1. Inv => TypeOK
  BY DEF Inv
<1> QED BY <1>1, LogIsOrdered, PTL

(* In one conversation, ids are in the order of sequence numbers.          *)
THEOREM IdsAreInOrder == Spec => []IdsFollowSeqs
<1>1. Inv => IdsFollowSeqs
  BY DEF Inv, OrderInv
<1> QED BY <1>1, LogIsOrdered, PTL

(* The cursor passes an event unread only if its transaction outlived the  *)
(* lag, or one that had started before took a later id.                    *)
THEOREM SkipsAreExplained == Spec => []SkipsExplained
<1>1. Inv => SkipsExplained
  BY DEF Inv
<1> QED BY <1>1, LogIsOrdered, PTL

(* What a call delivers of a conversation is newer than all before it.     *)
THEOREM ReplayIsForward == Spec => ReplayMovesOn
<1> DEFINE Forward == \A v \in delivered, w \in delivered' \ delivered :
                        conv[v] = conv[w] => seq[v] < seq[w]
<1>1. Inv /\ [Next]_vars => [Forward]_vars
  <2> SUFFICES ASSUME Inv, Next,
                      NEW v \in delivered, NEW w \in delivered' \ delivered, conv[v] = conv[w]
               PROVE  seq[v] < seq[w]
    OBVIOUS
  <2>1. ReadPage
    BY DEF Next, Begin, AllocSeq, Insert, Commit, Abort, BeginSync, Tick, reader
  <2>2. w \in Visible
    BY <2>1, PageFacts DEF Inv, ReadPage
  <2>3. /\ v \in Writers /\ w \in Writers /\ HasId(v) /\ HasId(w)
        /\ id[v] <= cursor /\ cursor < id[w]
        /\ id[v] \in Nat /\ id[w] \in Nat /\ cursor \in Nat
    BY <2>2 DEF Inv, ReaderInv, TypeOK, Visible, Committed, HasId
  <2> QED BY <2>3 DEF Inv, OrderInv, IdsFollowSeqs, HasId
<1> QED BY <1>1, LogIsOrdered, PTL DEF Spec, ReplayMovesOn
=============================================================================
