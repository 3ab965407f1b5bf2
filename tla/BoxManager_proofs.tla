-------------------------- MODULE BoxManager_proofs --------------------------
(***************************************************************************)
(* Proofs about BoxManager, for every set of callers, every set of         *)
(* requests, every count and every amount of memory.                       *)
(***************************************************************************)
EXTENDS BoxManager, SequenceTheorems, FiniteSetTheorems, TLAPS

(* Taking one element out of the middle of a waiter queue. *)
LEMMA RemoveAtType ==
    ASSUME NEW S, NEW q \in Seq(S), NEW k \in 1..Len(q)
    PROVE  RemoveAt(q, k) \in Seq(S)
<1>1. SubSeq(q, 1, k - 1) \in Seq(S)
  BY SubSeqProperties, ElementOfSeq
<1>2. SubSeq(q, k + 1, Len(q)) \in Seq(S)
  BY SubSeqProperties, ElementOfSeq
<1>3. QED
  BY <1>1, <1>2, ConcatProperties DEF RemoveAt

(* Removing the last sandbox keeps the others in their places. *)
LEMMA FrontLast ==
    ASSUME NEW S, NEW q \in Seq(S), q # <<>>
    PROVE  /\ Len(q) \in Nat \ {0}
           /\ Last(q) = q[Len(q)] /\ Last(q) \in S
           /\ Front(q) \in Seq(S)
           /\ Len(Front(q)) = Len(q) - 1
           /\ \A k \in 1..Len(Front(q)) : Front(q)[k] = q[k]
<1>1. Len(q) \in Nat \ {0}
  BY EmptySeq
<1>2. \A k \in 1..Len(q) : q[k] \in S
  BY ElementOfSeq
<1>3. /\ Front(q) \in Seq(S)
      /\ Len(Front(q)) = Len(q) - 1
      /\ \A k \in 1..Len(q) - 1 : Front(q)[k] = q[k]
  BY <1>1, <1>2, SubSeqProperties DEF Front
<1>4. QED
  BY <1>1, <1>2, <1>3 DEF Last

(* A caller outside "idle" runs a request; only "gen" has a number in hand. *)
PcInv ==
    \A c \in Caller :
        /\ pc[c] # "idle" => req[c] \in Shape
        /\ pc[c] = "gen" <=> hand[c] # None

(* Before the channel is closed every number is a real one. *)
NoZero ==
    /\ availableIDs \subseteq Id
    /\ ~Closed => \A c \in Caller : Zero \notin Held(c)

IInv == TypeOK /\ PcInv /\ NoZero /\ ExclusiveIds

LEMMA ShapeQuota ==
    ASSUME NEW s \in Shape, NEW k \in Nat
    PROVE  Quota(s, k) \in Nat /\ Weight(s) \in Nat
BY ShapeAssumption DEF ShapeType, Quota, Weight

LEMMA NextQuotaType ==
    ASSUME TypeOK, PcInv, NEW c \in Caller, pc[c] # "idle"
    PROVE  NextQuota(c) \in Nat
<1>1. boxes[c] \in Seq(Id \cup {Zero}) /\ req[c] \in Shape
  BY DEF TypeOK, PcInv
<1>2. Len(boxes[c]) + 1 \in Nat
  BY <1>1, LenProperties
<1>3. QED
  BY <1>1, <1>2, ShapeQuota DEF NextQuota

-----------------------------------------------------------------------------
LEMMA InitInv == Init => IInv
<1> SUFFICES ASSUME Init PROVE IInv
  OBVIOUS
<1>1. TypeOK
  <2>1. /\ <<>> \in Seq(Caller \cup {Closer})
        /\ <<>> \in Seq(Caller)
        /\ <<>> \in Seq(Id \cup {Zero})
    BY EmptySeq
  <2>2. /\ pc \in [Caller -> PC]
        /\ req \in [Caller -> Shape \cup {None}]
        /\ hand \in [Caller -> Id \cup {Zero, None}]
    BY DEF Init, PC
  <2>3. /\ boxes \in [Caller -> Seq(Id \cup {Zero})]
        /\ concQ \in Seq(Caller \cup {Closer}) /\ memQ \in Seq(Caller)
    BY <2>1 DEF Init
  <2>4. /\ concFree \in Int /\ memFree \in Int
        /\ lostMem \in Nat
    BY SizeAssumption DEF Init
  <2>5. panicked \in BOOLEAN
    BY DEF Init
  <2>6. QED
    BY <2>2, <2>3, <2>4, <2>5 DEF Init, TypeOK
<1>2. \A c \in Caller : Len(boxes[c]) = 0 /\ Held(c) = {}
  BY EmptySeq DEF Init, Held
<1>3. QED
  BY <1>1, <1>2, DistinctAssumption DEF Init, IInv, PcInv, NoZero, ExclusiveIds, Closed

LEMMA NextType ==
    ASSUME TypeOK, PcInv, [Next]_vars
    PROVE  TypeOK'
<1> USE DEF TypeOK, PC, Goto, idVars, concVars, memVars
<1>1. ASSUME NEW c \in Caller, NEW s \in Shape, Call(c, s) PROVE TypeOK'
  BY <1>1 DEF Call
<1>2. ASSUME NEW c \in Caller, AcquireConc(c) PROVE TypeOK'
  <2>1. concQ' \in Seq(Caller \cup {Closer})
    BY <1>2, HeadTailProperties DEF AcquireConc
  <2>2. concFree' \in Int
    BY <1>2, ShapeQuota, ShapeAssumption DEF AcquireConc, PcInv, Weight, ShapeType
  <2>3. QED
    BY <1>2, <2>1, <2>2 DEF AcquireConc
<1>3. ASSUME NEW c \in Caller, GiveUpConc(c) PROVE TypeOK'
  BY <1>3, RemoveAtType DEF GiveUpConc
<1>4. ASSUME NEW c \in Caller, MakeFifos(c) PROVE TypeOK'
  BY <1>4 DEF MakeFifos
<1>5. ASSUME NEW c \in Caller, GetBox(c) PROVE TypeOK'
  <2>1. pc' \in [Caller -> PC]
    <3>1. PICK l \in PC : pc' = [pc EXCEPT ![c] = l]
      BY <1>5 DEF GetBox
    <3>2. QED
      BY <3>1
  <2>2. memQ' \in Seq(Caller)
    <3>1. memQ' = Append(memQ, c) \/ UNCHANGED memQ
      BY <1>5 DEF GetBox
    <3>2. memQ \in Seq(Caller) /\ Append(memQ, c) \in Seq(Caller)
      OBVIOUS
    <3>3. QED
      BY <3>1, <3>2
  <2>3. QED
    BY <1>5, <2>1, <2>2 DEF GetBox
<1>6. ASSUME NEW c \in Caller, AcquireMem(c) PROVE TypeOK'
  <2>1. NextQuota(c) \in Nat
    BY <1>6, NextQuotaType DEF AcquireMem
  <2>2. QED
    BY <1>6, <2>1, HeadTailProperties DEF AcquireMem
<1>7. ASSUME NEW c \in Caller, GiveUpMem(c) PROVE TypeOK'
  BY <1>7, RemoveAtType DEF GiveUpMem
<1>8. ASSUME NEW c \in Caller, DrawId(c) PROVE TypeOK'
  BY <1>8 DEF DrawId
<1>9. ASSUME NEW c \in Caller, GenOk(c) PROVE TypeOK'
  BY <1>9 DEF GenOk, PcInv
<1>10. ASSUME NEW c \in Caller, GenFail(c) PROVE TypeOK'
  <2>1. NextQuota(c) \in Nat
    BY <1>10, NextQuotaType DEF GenFail
  <2>2. QED
    BY <1>10, <2>1 DEF GenFail, PcInv
<1>11. ASSUME NEW c \in Caller, Setup(c) PROVE TypeOK'
  BY <1>11 DEF Setup
<1>12. ASSUME NEW c \in Caller, Run(c) PROVE TypeOK'
  BY <1>12 DEF Run
<1>13. ASSUME NEW c \in Caller, YieldId(c) PROVE TypeOK'
  <2>1. CASE Closed
    BY <1>13, <2>1 DEF YieldId
  <2>2. CASE ~Closed
    <3>1. /\ Last(boxes[c]) \in Id \cup {Zero}
          /\ Front(boxes[c]) \in Seq(Id \cup {Zero})
      BY <1>13, FrontLast DEF YieldId
    <3>2. QED
      BY <1>13, <2>2, <3>1 DEF YieldId
  <2>3. QED
    BY <2>1, <2>2
<1>14. ASSUME NEW c \in Caller, FreeMem(c) PROVE TypeOK'
  <2>1. NextQuota(c) \in Nat
    BY <1>14, NextQuotaType DEF FreeMem
  <2>2. QED
    BY <1>14, <2>1 DEF FreeMem
<1>15. ASSUME NEW c \in Caller, ReleaseConc(c) PROVE TypeOK'
  <2>1. Weight(req[c]) \in Nat
    BY <1>15, ShapeQuota DEF ReleaseConc, PcInv
  <2>2. QED
    BY <1>15, <2>1 DEF ReleaseConc
<1>16. ASSUME BeginClose PROVE TypeOK'
  BY <1>16 DEF BeginClose
<1>17. ASSUME CloseAcquired PROVE TypeOK'
  BY <1>17, SizeAssumption DEF CloseAcquired
<1>18. ASSUME CloseCtxDone PROVE TypeOK'
  BY <1>18, RemoveAtType DEF CloseCtxDone
<1>19. CASE UNCHANGED vars
  BY <1>19 DEF vars
<1>20. QED
  BY <1>1, <1>2, <1>3, <1>4, <1>5, <1>6, <1>7, <1>8, <1>9, <1>10, <1>11, <1>12,
     <1>13, <1>14, <1>15, <1>16, <1>17, <1>18, <1>19
  DEF Next, Closing, Work, Step
-----------------------------------------------------------------------------
LEMMA NextPc ==
    ASSUME TypeOK, PcInv, [Next]_vars
    PROVE  PcInv'
<1> USE DEF TypeOK, PC, PcInv, Goto, idVars, concVars, memVars
<1>1. ASSUME NEW c \in Caller, NEW s \in Shape, Call(c, s) PROVE PcInv'
  BY <1>1 DEF Call
<1>2. ASSUME NEW c \in Caller, AcquireConc(c) PROVE PcInv'
  BY <1>2 DEF AcquireConc
<1>3. ASSUME NEW c \in Caller, GiveUpConc(c) PROVE PcInv'
  BY <1>3 DEF GiveUpConc
<1>4. ASSUME NEW c \in Caller, MakeFifos(c) PROVE PcInv'
  BY <1>4 DEF MakeFifos
<1>5. ASSUME NEW c \in Caller, GetBox(c) PROVE PcInv'
  <2>1. PICK l \in {"id", "mem", "doomed"} : pc' = [pc EXCEPT ![c] = l]
    BY <1>5 DEF GetBox
  <2>2. pc[c] = "getBox" /\ UNCHANGED <<req, hand>>
    BY <1>5 DEF GetBox
  <2>3. QED
    BY <2>1, <2>2
<1>6. ASSUME NEW c \in Caller, AcquireMem(c) PROVE PcInv'
  BY <1>6 DEF AcquireMem
<1>7. ASSUME NEW c \in Caller, GiveUpMem(c) PROVE PcInv'
  BY <1>7 DEF GiveUpMem
<1>8. ASSUME NEW c \in Caller, DrawId(c) PROVE PcInv'
  BY <1>8, DistinctAssumption DEF DrawId
<1>9. ASSUME NEW c \in Caller, GenOk(c) PROVE PcInv'
  BY <1>9 DEF GenOk
<1>10. ASSUME NEW c \in Caller, GenFail(c) PROVE PcInv'
  BY <1>10 DEF GenFail
<1>11. ASSUME NEW c \in Caller, Setup(c) PROVE PcInv'
  BY <1>11 DEF Setup
<1>12. ASSUME NEW c \in Caller, Run(c) PROVE PcInv'
  BY <1>12 DEF Run
<1>13. ASSUME NEW c \in Caller, YieldId(c) PROVE PcInv'
  BY <1>13 DEF YieldId
<1>14. ASSUME NEW c \in Caller, FreeMem(c) PROVE PcInv'
  BY <1>14 DEF FreeMem
<1>15. ASSUME NEW c \in Caller, ReleaseConc(c) PROVE PcInv'
  BY <1>15 DEF ReleaseConc
<1>16. ASSUME Closing PROVE PcInv'
  BY <1>16 DEF Closing, BeginClose, CloseAcquired, CloseCtxDone
<1>17. CASE UNCHANGED vars
  BY <1>17 DEF vars
<1>18. QED
  BY <1>1, <1>2, <1>3, <1>4, <1>5, <1>6, <1>7, <1>8, <1>9, <1>10, <1>11, <1>12,
     <1>13, <1>14, <1>15, <1>16, <1>17
  DEF Next, Work, Step

-----------------------------------------------------------------------------
(* What a step does to the box numbers.  All but four kinds of step leave  *)
(* them alone; those four are a step of BoxPool or no step of it.          *)
IdStep == /\ NoZero' /\ ExclusiveIds'
          /\ [Pool!Next]_(Pool!poolVars)

LEMMA QuietStep ==
    ASSUME IInv, UNCHANGED <<boxes, availableIDs, hand, lost>>, Closed => Closed'
    PROVE  IdStep
<1>1. \A c \in Caller : Held(c)' = Held(c)
  BY DEF Held
<1>2. NoZero' /\ ExclusiveIds'
  BY <1>1 DEF IInv, NoZero, ExclusiveIds
<1>3. UNCHANGED Pool!poolVars
  BY <1>1 DEF Pool!poolVars
<1>4. QED
  BY <1>2, <1>3 DEF IdStep

(* The sandboxes a caller has, as a set. *)
BoxSet(c) == {boxes[c][k] : k \in 1..Len(boxes[c])}

LEMMA HeldSplit ==
    ASSUME TypeOK, NEW c \in Caller
    PROVE  /\ BoxSet(c) \subseteq Id \cup {Zero}
           /\ hand[c] = None => Held(c) = BoxSet(c)
           /\ hand[c] # None => Held(c) = BoxSet(c) \cup {hand[c]}
<1>1. \A k \in 1..Len(boxes[c]) : boxes[c][k] \in Id \cup {Zero}
  BY ElementOfSeq DEF TypeOK
<1>2. BoxSet(c) \subseteq Id \cup {Zero}
  BY <1>1 DEF BoxSet
<1>3. Held(c) = (BoxSet(c) \cup {hand[c]}) \ {None}
  BY DEF Held, BoxSet
<1>4. QED
  BY <1>2, <1>3, DistinctAssumption

LEMMA DrawIdStep ==
    ASSUME IInv, TypeOK', NEW c \in Caller, DrawId(c)
    PROVE  IdStep
<1>1. /\ UNCHANGED <<boxes, lost, closing>>
      /\ hand[c] = None
      /\ \A d \in Caller : d # c => hand'[d] = hand[d]
  BY DEF DrawId, IInv, PcInv, TypeOK
<1>2. /\ \A d \in Caller : BoxSet(d)' = BoxSet(d)
      /\ \A d \in Caller : d # c => Held(d)' = Held(d)
  BY <1>1 DEF BoxSet, Held
<1>3. CASE \E i \in availableIDs : /\ availableIDs' = availableIDs \ {i}
                                  /\ hand' = [hand EXCEPT ![c] = i]
  <2>1. PICK i \in availableIDs : /\ availableIDs' = availableIDs \ {i}
                                   /\ hand' = [hand EXCEPT ![c] = i]
    BY <1>3
  <2>2. i \in Id /\ hand'[c] = i /\ i # Zero /\ i # None
    BY <2>1, DistinctAssumption DEF IInv, NoZero, TypeOK
  <2>3. Held(c) = BoxSet(c) /\ Held(c)' = BoxSet(c) \cup {i}
    BY <1>1, <1>2, <2>2, HeldSplit DEF IInv, Held, BoxSet
  <2>4. NoZero'
    BY <1>1, <1>2, <2>1, <2>2, <2>3 DEF IInv, NoZero, Closed
  <2>5. ExclusiveIds'
    <3>1. \A d, e \in Caller : d # e => (Held(d)' \cap Held(e)' \cap Id) = {}
      BY <1>2, <2>1, <2>3 DEF IInv, ExclusiveIds
    <3>2. \A d \in Caller : Held(d)' \cap (availableIDs' \cup lost') \cap Id = {}
      BY <1>1, <1>2, <2>1, <2>3 DEF IInv, ExclusiveIds
    <3>3. \A d \in Caller : \A k \in 1..Len(boxes[d]) :
             boxes[d][k] \in Id => boxes[d][k] # hand'[d]
      <4>1. \A k \in 1..Len(boxes[c]) : boxes[c][k] \in Held(c)
        BY <2>3 DEF BoxSet
      <4>2. i \notin Held(c)
        BY <2>2 DEF IInv, ExclusiveIds
      <4>3. QED
        BY <1>1, <2>2, <4>1, <4>2 DEF IInv, ExclusiveIds
    <3>4. QED
      BY <1>1, <2>1, <3>1, <3>2, <3>3 DEF IInv, ExclusiveIds
  <2>6. Pool!Take(c, i)
    BY <1>1, <1>2, <2>1, <2>2, <2>3 DEF Pool!Take
  <2>7. QED
    BY <2>2, <2>4, <2>5, <2>6 DEF IdStep, Pool!Next
<1>4. CASE /\ availableIDs = {} /\ Closed
           /\ hand' = [hand EXCEPT ![c] = Zero]
           /\ UNCHANGED availableIDs
  <2>1. hand'[c] = Zero
    BY <1>4 DEF IInv, TypeOK
  <2>2. Held(c) = BoxSet(c) /\ Held(c)' = BoxSet(c) \cup {Zero}
    BY <1>1, <1>2, <2>1, HeldSplit, DistinctAssumption DEF IInv, Held, BoxSet
  <2>3. \A d \in Caller : Held(d)' \cap Id = Held(d) \cap Id
    BY <1>2, <2>2, DistinctAssumption
  <2>4. NoZero'
    BY <1>1, <1>4 DEF IInv, NoZero, Closed
  <2>5. ExclusiveIds'
    BY <1>1, <1>4, <2>1, <2>3, DistinctAssumption DEF IInv, ExclusiveIds
  <2>6. UNCHANGED Pool!poolVars
    BY <1>1, <1>4, <2>3 DEF Pool!poolVars
  <2>7. QED
    BY <2>4, <2>5, <2>6 DEF IdStep
<1>5. QED
  BY <1>3, <1>4 DEF DrawId
LEMMA GenOkStep ==
    ASSUME IInv, TypeOK', NEW c \in Caller, GenOk(c)
    PROVE  IdStep
<1>1. /\ UNCHANGED <<availableIDs, lost, closing>>
      /\ hand[c] # None /\ hand'[c] = None
      /\ boxes[c] \in Seq(Id \cup {Zero}) /\ hand[c] \in Id \cup {Zero}
      /\ boxes'[c] = Append(boxes[c], hand[c])
      /\ \A d \in Caller : d # c => hand'[d] = hand[d] /\ boxes'[d] = boxes[d]
  BY DEF GenOk, IInv, PcInv, TypeOK
<1>2. /\ Len(boxes[c]) \in Nat
      /\ Len(boxes'[c]) = Len(boxes[c]) + 1
      /\ boxes'[c][Len(boxes[c]) + 1] = hand[c]
      /\ \A k \in 1..Len(boxes[c]) : boxes'[c][k] = boxes[c][k]
  BY <1>1
<1>3. BoxSet(c)' = BoxSet(c) \cup {hand[c]}
  BY <1>2 DEF BoxSet
<1>4. Held(c)' = Held(c)
  <2>1. Held(c)' = BoxSet(c)'
    BY <1>1, HeldSplit, <1>3, DistinctAssumption DEF Held, BoxSet, IInv
  <2>2. QED
    BY <2>1, <1>1, <1>3, HeldSplit DEF IInv
<1>5. \A d \in Caller : Held(d)' = Held(d)
  BY <1>1, <1>4 DEF Held
<1>6. NoZero'
  BY <1>1, <1>5 DEF IInv, NoZero, Closed
<1>7. ExclusiveIds'
  <2>1. \A j, k \in 1..Len(boxes'[c]) :
           boxes'[c][j] = boxes'[c][k] /\ boxes'[c][j] \in Id => j = k
    BY <1>1, <1>2 DEF IInv, ExclusiveIds
  <2>2. \A k \in 1..Len(boxes'[c]) : boxes'[c][k] \in Id => boxes'[c][k] # hand'[c]
    BY <1>1, DistinctAssumption
  <2>3. QED
    BY <1>1, <1>5, <2>1, <2>2 DEF IInv, ExclusiveIds
<1>8. UNCHANGED Pool!poolVars
  BY <1>1, <1>5 DEF Pool!poolVars
<1>9. QED
  BY <1>6, <1>7, <1>8 DEF IdStep

LEMMA GenFailStep ==
    ASSUME IInv, TypeOK', NEW c \in Caller, GenFail(c)
    PROVE  IdStep
<1>1. /\ UNCHANGED <<availableIDs, boxes, closing>>
      /\ hand[c] \in Id \cup {Zero} /\ hand'[c] = None
      /\ lost' = lost \cup {hand[c]}
      /\ \A d \in Caller : d # c => hand'[d] = hand[d]
  BY DEF GenFail, IInv, PcInv, TypeOK
<1>2. /\ BoxSet(c)' = BoxSet(c)
      /\ \A d \in Caller : d # c => Held(d)' = Held(d)
  BY <1>1 DEF BoxSet, Held
<1>3. Held(c)' = BoxSet(c) /\ Held(c) = BoxSet(c) \cup {hand[c]}
  <2>1. Held(c)' = (BoxSet(c) \cup {None}) \ {None}
    BY <1>1 DEF Held, BoxSet
  <2>2. BoxSet(c) \subseteq Id \cup {Zero}
    BY HeldSplit DEF IInv
  <2>3. QED
    BY <1>1, <2>1, <2>2, HeldSplit, DistinctAssumption DEF IInv
<1>4. hand[c] \in Id => hand[c] \notin BoxSet(c)
  BY DEF IInv, ExclusiveIds, BoxSet
<1>5. \A d \in Caller : Held(d)' \subseteq Held(d)
  BY <1>2, <1>3
<1>6. NoZero'
  BY <1>1, <1>5 DEF IInv, NoZero, Closed
<1>7. ExclusiveIds'
  <2>1. \A d, e \in Caller : d # e => (Held(d)' \cap Held(e)' \cap Id) = {}
    BY <1>5 DEF IInv, ExclusiveIds
  <2>2. \A d \in Caller : Held(d)' \cap (availableIDs' \cup lost') \cap Id = {}
    BY <1>1, <1>2, <1>3, <1>4 DEF IInv, ExclusiveIds
  <2>3. availableIDs' \cap lost' = {}
    BY <1>1, <1>3, DistinctAssumption DEF IInv, ExclusiveIds, NoZero
  <2>4. \A d \in Caller : \A k \in 1..Len(boxes'[d]) :
           boxes'[d][k] \in Id => boxes'[d][k] # hand'[d]
    BY <1>1, DistinctAssumption DEF IInv, ExclusiveIds
  <2>5. QED
    BY <1>1, <2>1, <2>2, <2>3, <2>4 DEF IInv, ExclusiveIds
<1>8. CASE hand[c] \in Id
  <2>1. Pool!Drop(c, hand[c])
    BY <1>1, <1>2, <1>3, <1>4, <1>8 DEF Pool!Drop
  <2>2. QED
    BY <1>6, <1>7, <1>8, <2>1 DEF IdStep, Pool!Next
<1>9. CASE hand[c] = Zero
  <2>1. \A d \in Caller : Held(d)' \cap Id = Held(d) \cap Id
    BY <1>2, <1>3, <1>9, DistinctAssumption
  <2>2. UNCHANGED Pool!poolVars
    BY <1>1, <1>9, <2>1, DistinctAssumption DEF Pool!poolVars
  <2>3. QED
    BY <1>6, <1>7, <2>2 DEF IdStep
<1>10. QED
  BY <1>1, <1>8, <1>9

LEMMA YieldIdStep ==
    ASSUME IInv, TypeOK', NEW c \in Caller, YieldId(c)
    PROVE  IdStep
<1>1. CASE Closed
  <2>1. UNCHANGED <<boxes, availableIDs, hand, lost, closing>>
    BY <1>1 DEF YieldId
  <2>2. QED
    BY <2>1, QuietStep DEF Closed
<1>2. CASE ~Closed
  <2> DEFINE i == Last(boxes[c])
  <2>1. /\ UNCHANGED <<hand, lost, closing>>
        /\ availableIDs' = availableIDs \cup {i}
        /\ boxes'[c] = Front(boxes[c])
        /\ \A d \in Caller : d # c => boxes'[d] = boxes[d]
    BY <1>2 DEF YieldId, IInv, TypeOK
  <2>2. /\ Len(boxes[c]) \in Nat \ {0}
        /\ i = boxes[c][Len(boxes[c])]
        /\ Len(boxes'[c]) = Len(boxes[c]) - 1
        /\ \A k \in 1..Len(boxes[c]) - 1 : boxes'[c][k] = boxes[c][k]
    <3>1. boxes[c] \in Seq(Id \cup {Zero}) /\ boxes[c] # <<>>
      BY DEF YieldId, IInv, TypeOK
    <3> DEFINE q == boxes[c]
    <3>2. /\ Len(q) \in Nat \ {0}
          /\ Last(q) = q[Len(q)]
          /\ Len(Front(q)) = Len(q) - 1
          /\ \A k \in 1..Len(Front(q)) : Front(q)[k] = q[k]
      <4> HIDE DEF q
      <4>1. q \in Seq(Id \cup {Zero}) /\ q # <<>>
        BY <3>1 DEF q
      <4>2. QED
        BY <4>1, FrontLast
    <3>3. QED
      BY <2>1, <3>2
  <2>3. i \in BoxSet(c)
    BY <2>2 DEF BoxSet
  <2>4. i \in Id /\ i \in Held(c)
    <3>1. i \in Held(c)
      BY <2>3, HeldSplit DEF IInv
    <3>2. QED
      BY <1>2, <2>3, <3>1, HeldSplit DEF IInv, NoZero
  <2>5. \A k \in 1..Len(boxes[c]) - 1 : boxes[c][k] # i
    BY <2>2, <2>4 DEF IInv, ExclusiveIds
  <2>6. BoxSet(c)' = BoxSet(c) \ {i}
    BY <2>2, <2>5 DEF BoxSet
  <2>7. Held(c)' = Held(c) \ {i}
    <3>1. hand[c] # i
      BY <2>2, <2>4 DEF IInv, ExclusiveIds
    <3>2. /\ Held(c)' = (BoxSet(c)' \cup {hand[c]}) \ {None}
          /\ Held(c) = (BoxSet(c) \cup {hand[c]}) \ {None}
      BY <2>1 DEF Held, BoxSet
    <3>3. QED
      BY <2>6, <3>1, <3>2
  <2>8. \A d \in Caller : d # c => Held(d)' = Held(d)
    BY <2>1 DEF Held
  <2>9. NoZero'
    BY <2>1, <2>4, <2>7, <2>8 DEF IInv, NoZero, Closed
  <2>10. ExclusiveIds'
    <3>1. \A d, e \in Caller : d # e => (Held(d)' \cap Held(e)' \cap Id) = {}
      BY <2>7, <2>8 DEF IInv, ExclusiveIds
    <3>2. \A d \in Caller : Held(d)' \cap (availableIDs' \cup lost') \cap Id = {}
      BY <2>1, <2>4, <2>7, <2>8 DEF IInv, ExclusiveIds
    <3>3. availableIDs' \cap lost' = {}
      BY <2>1, <2>4 DEF IInv, ExclusiveIds
    <3>4. /\ \A j, k \in 1..Len(boxes'[c]) :
                boxes'[c][j] = boxes'[c][k] /\ boxes'[c][j] \in Id => j = k
          /\ \A k \in 1..Len(boxes'[c]) : boxes'[c][k] \in Id => boxes'[c][k] # hand'[c]
      BY <2>1, <2>2 DEF IInv, ExclusiveIds
    <3>5. QED
      BY <2>1, <3>1, <3>2, <3>3, <3>4 DEF IInv, ExclusiveIds
  <2>11. Pool!Give(c, i)
    BY <2>1, <2>4, <2>7, <2>8 DEF Pool!Give
  <2>12. QED
    BY <2>4, <2>9, <2>10, <2>11 DEF IdStep, Pool!Next
<1>3. QED
  BY <1>1, <1>2

-----------------------------------------------------------------------------
LEMMA NextInv ==
    ASSUME IInv, [Next]_vars
    PROVE  IInv' /\ IdStep
<1>1. TypeOK' /\ PcInv'
  BY NextType, NextPc DEF IInv
<1>2. IdStep
  <2> USE DEF idVars, concVars, memVars
  <2>1. CASE \E c \in Caller : \/ \E s \in Shape : Call(c, s)
                              \/ AcquireConc(c) \/ GiveUpConc(c) \/ MakeFifos(c)
    BY <2>1, QuietStep DEF Call, AcquireConc, GiveUpConc, MakeFifos, Closed
  <2>2. CASE \E c \in Caller : GetBox(c) \/ AcquireMem(c) \/ GiveUpMem(c)
    BY <2>2, QuietStep DEF GetBox, AcquireMem, GiveUpMem, Closed
  <2>3. CASE \E c \in Caller : DrawId(c) \/ GenOk(c) \/ GenFail(c) \/ YieldId(c)
    BY <1>1, <2>3, DrawIdStep, GenOkStep, GenFailStep, YieldIdStep
  <2>4. CASE \E c \in Caller : Setup(c) \/ Run(c) \/ FreeMem(c) \/ ReleaseConc(c)
    BY <2>4, QuietStep DEF Setup, Run, FreeMem, ReleaseConc, Closed
  <2>5. CASE Closing
    BY <2>5, QuietStep DEF Closing, BeginClose, CloseAcquired, CloseCtxDone, Closed
  <2>6. CASE UNCHANGED vars
    BY <2>6, QuietStep DEF vars, Closed
  <2>7. QED
    BY <2>1, <2>2, <2>3, <2>4, <2>5, <2>6 DEF Next, Work, Step
<1>3. QED
  BY <1>1, <1>2 DEF IInv, IdStep

-----------------------------------------------------------------------------
(* What is out of a semaphore is counted as a set of units, n of them for  *)
(* each holder x.                                                          *)
LEMMA UnitCount ==
    ASSUME NEW x, NEW n \in Nat
    PROVE  IsFiniteSet({x} \X (1..n)) /\ Cardinality({x} \X (1..n)) = n
<1>1. IsFiniteSet({x}) /\ Cardinality({x}) = 1
  BY FS_Singleton
<1>2. IsFiniteSet(1..n) /\ Cardinality(1..n) = n
  BY FS_Interval
<1>3. /\ IsFiniteSet({x} \X (1..n))
      /\ Cardinality({x} \X (1..n)) = Cardinality({x}) * Cardinality(1..n)
  BY <1>1, <1>2, FS_Product
<1>4. QED
  BY <1>1, <1>2, <1>3

(* Acquire adds a holder, *)
LEMMA TakeUnits ==
    ASSUME NEW S, IsFiniteSet(S), NEW x, NEW n \in Nat, S \cap ({x} \X (1..n)) = {}
    PROVE  /\ IsFiniteSet(S \cup ({x} \X (1..n)))
           /\ Cardinality(S \cup ({x} \X (1..n))) = Cardinality(S) + n
<1> DEFINE T == {x} \X (1..n)
<1>1. IsFiniteSet(T) /\ Cardinality(T) = n
  BY UnitCount
<1>2. Cardinality(S) \in Nat
  BY FS_CardinalityType
<1> HIDE DEF T
<1>3. /\ IsFiniteSet(S \cup T)
      /\ Cardinality(S \cup T) = Cardinality(S) + Cardinality(T) - Cardinality(S \cap T)
  BY <1>1, FS_Union
<1>4. Cardinality(S \cap T) = 0
  <2>1. S \cap T = {}
    BY DEF T
  <2>2. QED
    BY <2>1, FS_EmptySet, Zenon
<1>5. Cardinality(S \cup T) = Cardinality(S) + n
  BY <1>1, <1>2, <1>3, <1>4
<1>6. QED
  BY <1>3, <1>5 DEF T

(* and Release removes one. *)
LEMMA ReturnUnits ==
    ASSUME NEW S, IsFiniteSet(S), NEW x, NEW n \in Nat, {x} \X (1..n) \subseteq S
    PROVE  /\ IsFiniteSet(S \ ({x} \X (1..n)))
           /\ Cardinality(S \ ({x} \X (1..n))) = Cardinality(S) - n
<1> DEFINE T == {x} \X (1..n)
<1>1. IsFiniteSet(T) /\ Cardinality(T) = n
  BY UnitCount
<1>2. S \cap T = T
  OBVIOUS
<1> HIDE DEF T
<1>3. /\ IsFiniteSet(S \ T)
      /\ Cardinality(S \ T) = Cardinality(S) - Cardinality(S \cap T)
  BY FS_Difference
<1>4. QED
  BY <1>1, <1>2, <1>3 DEF T

-----------------------------------------------------------------------------
(* How far a caller is: a request in progress was admitted and never has   *)
(* more sandboxes than its weight, and fewer while it gets or gives back   *)
(* one; it has none before its weight is granted; and it only queues for   *)
(* memory that the semaphore has.                                          *)
PlaceOf(c) ==
    /\ pc[c] # "idle" => Admitted(req[c]) /\ Len(boxes[c]) <= Weight(req[c])
    /\ pc[c] \in {"idle", "conc", "fifo"} => boxes[c] = <<>>
    /\ pc[c] \in {"getBox", "mem", "doomed", "id", "gen", "freeMem"} =>
          Len(boxes[c]) < Weight(req[c])
    /\ pc[c] = "mem" => NextQuota(c) \in 1..MaxMemory

PlaceInv == \A c \in Caller : PlaceOf(c)

(* A step of c leaves every other caller where it is. *)
OnlyMoves(c) ==
    \A d \in Caller : d # c =>
        pc'[d] = pc[d] /\ req'[d] = req[d] /\ boxes'[d] = boxes[d] /\ hand'[d] = hand[d]

LEMMA WorkMovesOne ==
    ASSUME TypeOK, NEW c \in Caller, Work(c)
    PROVE  OnlyMoves(c)
<1> USE DEF TypeOK, OnlyMoves, Goto, idVars
<1>1. CASE \/ \E s \in Shape : Call(c, s)
           \/ AcquireConc(c) \/ GiveUpConc(c) \/ MakeFifos(c)
  BY <1>1 DEF Call, AcquireConc, GiveUpConc, MakeFifos
<1>2. CASE GetBox(c) \/ AcquireMem(c) \/ GiveUpMem(c)
  BY <1>2 DEF GetBox, AcquireMem, GiveUpMem
<1>3. CASE DrawId(c) \/ GenOk(c) \/ GenFail(c) \/ YieldId(c)
  BY <1>3 DEF DrawId, GenOk, GenFail, YieldId
<1>4. CASE Setup(c) \/ Run(c) \/ FreeMem(c) \/ ReleaseConc(c)
  BY <1>4 DEF Setup, Run, FreeMem, ReleaseConc
<1>5. QED
  BY <1>1, <1>2, <1>3, <1>4 DEF Work, Step

LEMMA Lengths ==
    ASSUME IInv, NEW c \in Caller
    PROVE  /\ boxes[c] \in Seq(Id \cup {Zero})
           /\ Len(boxes[c]) \in Nat
           /\ boxes[c] = <<>> <=> Len(boxes[c]) = 0
           /\ pc[c] # "idle" => Weight(req[c]) \in Nat \ {0}
<1>1. boxes[c] \in Seq(Id \cup {Zero})
  BY DEF IInv, TypeOK
<1>2. pc[c] # "idle" => Weight(req[c]) \in Nat \ {0}
  BY ShapeAssumption DEF IInv, PcInv, ShapeType, Weight
<1>3. QED
  BY <1>1, <1>2, LenProperties, EmptySeq

LEMMA WorkPlace ==
    ASSUME IInv, PlaceInv, NEW c \in Caller, Work(c)
    PROVE  PlaceOf(c)'
<1> USE Lengths DEF IInv, TypeOK, PC, PlaceInv, PlaceOf, Goto
<1>1. ASSUME NEW s \in Shape, Call(c, s) PROVE PlaceOf(c)'
  BY <1>1, ShapeQuota DEF Call
<1>2. CASE AcquireConc(c)
  BY <1>2 DEF AcquireConc
<1>3. CASE GiveUpConc(c)
  BY <1>3 DEF GiveUpConc
<1>4. CASE MakeFifos(c)
  BY <1>4 DEF MakeFifos
<1>5. CASE GetBox(c)
  <2>1. /\ pc'[c] \in {"id", "mem", "doomed"}
        /\ pc'[c] = "mem" => NextQuota(c) \in 1..MaxMemory
    BY <1>5 DEF GetBox
  <2>2. pc[c] = "getBox" /\ UNCHANGED <<req, boxes>>
    BY <1>5 DEF GetBox
  <2>3. QED
    BY <2>1, <2>2 DEF NextQuota
<1>6. CASE AcquireMem(c)
  BY <1>6 DEF AcquireMem
<1>7. CASE GiveUpMem(c)
  BY <1>7 DEF GiveUpMem
<1>8. CASE DrawId(c)
  BY <1>8 DEF DrawId
<1>9. CASE GenOk(c)
  BY <1>9, AppendProperties DEF GenOk, PcInv
<1>10. CASE GenFail(c)
  BY <1>10 DEF GenFail
<1>11. CASE Setup(c)
  BY <1>11 DEF Setup
<1>12. CASE Run(c)
  BY <1>12 DEF Run
<1>13. CASE YieldId(c)
  <2>1. CASE Closed
    BY <1>13, <2>1 DEF YieldId
  <2>2. CASE ~Closed
    <3>1. /\ pc[c] = "unwind" /\ pc'[c] = "freeMem" /\ UNCHANGED req
          /\ boxes'[c] = Front(boxes[c]) /\ boxes[c] # <<>>
      BY <1>13, <2>2 DEF YieldId
    <3>2. Len(boxes'[c]) = Len(boxes[c]) - 1
      BY <3>1, Lengths, FrontLast
    <3>3. QED
      BY <3>1, <3>2
  <2>3. QED
    BY <2>1, <2>2
<1>14. CASE FreeMem(c)
  BY <1>14 DEF FreeMem
<1>15. CASE ReleaseConc(c)
  BY <1>15 DEF ReleaseConc
<1>16. QED
  BY <1>1, <1>2, <1>3, <1>4, <1>5, <1>6, <1>7, <1>8, <1>9, <1>10, <1>11, <1>12,
     <1>13, <1>14, <1>15
  DEF Work, Step

LEMMA NextPlace ==
    ASSUME IInv, PlaceInv, [Next]_vars
    PROVE  PlaceInv'
<1>1. ASSUME NEW c \in Caller, Work(c) PROVE PlaceInv'
  BY <1>1, WorkPlace, WorkMovesOne DEF IInv, OnlyMoves, PlaceInv, PlaceOf, NextQuota
<1>2. CASE Closing \/ UNCHANGED vars
  BY <1>2 DEF Closing, BeginClose, CloseAcquired, CloseCtxDone, vars, PlaceInv, PlaceOf, NextQuota
<1>3. QED
  BY <1>1, <1>2 DEF Next

-----------------------------------------------------------------------------
(* concSem: a unit of weight is free or with a caller that is in flight,   *)
(* until Close takes them all.                                             *)
ConcInv ==
    /\ IsFiniteSet(WeightTaken)
    /\ concFree >= 0
    /\ concFree + Cardinality(WeightTaken) = IF closing = "closed" THEN 0 ELSE Count

LEMMA WeightMembers ==
    /\ \A x : x \in WeightTaken <=> \E c \in InFlight : x \in {c} \X (1..Weight(req[c]))
    /\ \A c : c \in InFlight <=> c \in Caller /\ pc[c] \notin {"idle", "conc"}
BY DEF WeightTaken, InFlight

LEMMA WeightMembersPrime ==
    /\ \A x : x \in WeightTaken' <=> \E c \in InFlight' : x \in {c} \X (1..Weight(req'[c]))
    /\ \A c : c \in InFlight' <=> c \in Caller /\ pc'[c] \notin {"idle", "conc"}
BY DEF WeightTaken, InFlight, Weight

LEMMA SameWeight ==
    ASSUME NEW c \in Caller, OnlyMoves(c),
           c \in InFlight <=> c \in InFlight', c \in InFlight => req'[c] = req[c]
    PROVE  WeightTaken' = WeightTaken
<1>1. InFlight' = InFlight
  BY DEF InFlight, OnlyMoves
<1>2. \A d \in InFlight : req'[d] = req[d]
  BY DEF OnlyMoves, InFlight
<1>3. \A x : x \in WeightTaken' <=> x \in WeightTaken
  BY <1>1, <1>2, WeightMembers, WeightMembersPrime
<1>4. QED
  BY <1>3

LEMMA AcquireConcWeight ==
    ASSUME IInv, ConcInv, NEW c \in Caller, AcquireConc(c)
    PROVE  ConcInv'
<1> DEFINE U == {c} \X (1..Weight(req[c]))
<1>1. /\ pc[c] = "conc" /\ pc'[c] \in {"fifo", "getBox"}
      /\ OnlyMoves(c) /\ req' = req /\ closing' = closing
      /\ concFree >= Weight(req[c]) /\ concFree' = concFree - Weight(req[c])
  <2>1. ASSUME NEW d \in Caller, d # c PROVE pc'[d] = pc[d]
    BY <2>1 DEF AcquireConc, IInv, TypeOK, Goto
  <2>2. QED
    BY <2>1 DEF AcquireConc, IInv, TypeOK, Goto, OnlyMoves, idVars
<1>2. Weight(req[c]) \in Nat \ {0}
  BY <1>1, Lengths
<1>3. WeightTaken' = WeightTaken \cup U
  <2>1. InFlight' = InFlight \cup {c}
    BY <1>1 DEF InFlight, OnlyMoves
  <2>2. \A x : x \in WeightTaken' <=> x \in WeightTaken \/ x \in U
    BY <1>1, <2>1, WeightMembers, WeightMembersPrime
  <2>3. QED
    BY <2>2
<1>4. WeightTaken \cap U = {}
  BY <1>1, WeightMembers
<1>5. /\ IsFiniteSet(WeightTaken')
      /\ Cardinality(WeightTaken') = Cardinality(WeightTaken) + Weight(req[c])
  BY <1>2, <1>3, <1>4, TakeUnits DEF ConcInv
<1>6. Cardinality(WeightTaken) \in Nat
  BY FS_CardinalityType DEF ConcInv
<1>7. QED
  BY <1>1, <1>2, <1>5, <1>6 DEF ConcInv, IInv, TypeOK

LEMMA ReleaseConcWeight ==
    ASSUME IInv, ConcInv, NEW c \in Caller, ReleaseConc(c)
    PROVE  ConcInv'
<1> DEFINE U == {c} \X (1..Weight(req[c]))
<1>1. /\ pc[c] = "unwind" /\ pc'[c] = "idle"
      /\ OnlyMoves(c) /\ closing' = closing
      /\ concFree' = concFree + Weight(req[c])
  BY DEF ReleaseConc, IInv, TypeOK, Goto, OnlyMoves, idVars
<1>2. Weight(req[c]) \in Nat
  BY <1>1, Lengths
<1>3. WeightTaken' = WeightTaken \ U
  <2>1. InFlight' = InFlight \ {c} /\ \A d \in InFlight' : req'[d] = req[d]
    BY <1>1 DEF InFlight, OnlyMoves
  <2>2. \A x : x \in WeightTaken' <=> x \in WeightTaken /\ x \notin U
    BY <1>1, <2>1, WeightMembers, WeightMembersPrime
  <2>3. QED
    BY <2>2
<1>4. U \subseteq WeightTaken
  BY <1>1, WeightMembers
<1>5. /\ IsFiniteSet(WeightTaken')
      /\ Cardinality(WeightTaken') = Cardinality(WeightTaken) - Weight(req[c])
  BY <1>2, <1>3, <1>4, ReturnUnits DEF ConcInv
<1>6. Cardinality(WeightTaken) \in Nat /\ Cardinality(WeightTaken') \in Nat
  BY <1>5, FS_CardinalityType DEF ConcInv
<1>7. QED
  BY <1>1, <1>2, <1>5, <1>6, SizeAssumption DEF ConcInv, IInv, TypeOK

LEMMA NextConc ==
    ASSUME IInv, ConcInv, [Next]_vars
    PROVE  ConcInv'
<1> USE DEF IInv, TypeOK, PC, Goto, concVars
<1>1. ASSUME NEW c \in Caller, Work(c), ~AcquireConc(c), ~ReleaseConc(c)
      PROVE  ConcInv'
  <2>1. /\ UNCHANGED <<concFree, closing>>
        /\ c \in InFlight <=> c \in InFlight'
        /\ c \in InFlight => req'[c] = req[c]
    <3> USE DEF InFlight
    <3>1. CASE (\E s \in Shape : Call(c, s)) \/ GiveUpConc(c) \/ MakeFifos(c)
      BY <3>1 DEF Call, GiveUpConc, MakeFifos
    <3>2. CASE AcquireMem(c) \/ GiveUpMem(c)
      BY <3>2 DEF AcquireMem, GiveUpMem
    <3>3. CASE GetBox(c)
      <4>1. pc[c] = "getBox" /\ pc'[c] \in {"id", "mem", "doomed"}
        BY <3>3 DEF GetBox
      <4>2. QED
        BY <3>3, <4>1 DEF GetBox
    <3>4. CASE DrawId(c) \/ GenOk(c) \/ GenFail(c)
      BY <3>4 DEF DrawId, GenOk, GenFail
    <3>5. CASE Setup(c) \/ Run(c) \/ FreeMem(c) \/ YieldId(c)
      BY <3>5 DEF Setup, Run, FreeMem, YieldId
    <3>6. QED
      BY <1>1, <3>1, <3>2, <3>3, <3>4, <3>5 DEF Work, Step
  <2>2. WeightTaken' = WeightTaken
    BY <1>1, <2>1, WorkMovesOne, SameWeight
  <2>3. QED
    BY <2>1, <2>2 DEF ConcInv
<1>2. CASE BeginClose \/ CloseCtxDone \/ UNCHANGED vars
  <2>1. UNCHANGED <<pc, req, concFree>> /\ (closing' = "closed" <=> closing = "closed")
    BY <1>2 DEF BeginClose, CloseCtxDone, vars
  <2>2. WeightTaken' = WeightTaken
    BY <2>1 DEF WeightTaken, InFlight, Weight
  <2>3. QED
    BY <2>1, <2>2 DEF ConcInv
<1>3. CASE CloseAcquired
  <2>1. /\ UNCHANGED <<pc, req>> /\ closing = "waiting" /\ closing' = "closed"
        /\ concFree >= Count /\ concFree' = concFree - Count
    BY <1>3 DEF CloseAcquired
  <2>2. WeightTaken' = WeightTaken
    BY <2>1 DEF WeightTaken, InFlight, Weight
  <2>3. Cardinality(WeightTaken) \in Nat
    BY FS_CardinalityType DEF ConcInv
  <2>4. QED
    BY <2>1, <2>2, <2>3, SizeAssumption DEF ConcInv
<1>4. QED
  BY <1>1, <1>2, <1>3, AcquireConcWeight, ReleaseConcWeight DEF Next, Closing

(* Once Close has everything, no request is in flight. *)
LEMMA ClosedIsEmpty ==
    ASSUME IInv, ConcInv, closing = "closed"
    PROVE  InFlight = {}
<1>1. Cardinality(WeightTaken) = 0
  BY FS_CardinalityType DEF ConcInv, IInv, TypeOK
<1>2. WeightTaken = {}
  BY <1>1, FS_EmptySet DEF ConcInv
<1>3. ASSUME NEW c \in InFlight PROVE FALSE
  <2>1. c \in Caller /\ Weight(req[c]) \in Nat \ {0}
    BY <1>3, WeightMembers, Lengths
  <2>2. <<c, 1>> \in WeightTaken
    BY <1>3, <2>1, WeightMembers
  <2>3. QED
    BY <1>2, <2>2
<1>4. QED
  BY <1>3

-----------------------------------------------------------------------------
(* memSem: a unit of memory is free, with a caller, or gone with a failed  *)
(* generator call.                                                         *)
MemoryInv ==
    /\ IsFiniteSet(MemoryTaken)
    /\ MemoryBudget
    /\ lost = {} => lostMem = 0

LEMMA MemoryMembers ==
    \A x : x \in MemoryTaken <=>
        \E d \in Caller : \E k \in Paid(d) : x \in {<<d, k>>} \X (1..Quota(req[d], k))
BY DEF MemoryTaken, MemoryOf, SandboxMemory

LEMMA MemoryMembersPrime ==
    \A x : x \in MemoryTaken' <=>
        \E d \in Caller : \E k \in Paid(d)' : x \in {<<d, k>>} \X (1..Quota(req'[d], k))
BY DEF MemoryTaken, MemoryOf, SandboxMemory, Quota

LEMMA OthersPay ==
    ASSUME NEW c \in Caller, OnlyMoves(c), NEW d \in Caller, d # c
    PROVE  Paid(d)' = Paid(d) /\ req'[d] = req[d]
BY DEF OnlyMoves, Paid

LEMMA SameMemory ==
    ASSUME NEW c \in Caller, OnlyMoves(c),
           Paid(c)' = Paid(c), Paid(c) # {} => req'[c] = req[c]
    PROVE  MemoryTaken' = MemoryTaken
<1>1. \A d \in Caller : Paid(d)' = Paid(d) /\ (Paid(d) # {} => req'[d] = req[d])
  BY OthersPay
<1>2. \A x : x \in MemoryTaken' <=> x \in MemoryTaken
  BY <1>1, MemoryMembers, MemoryMembersPrime
<1>3. QED
  BY <1>2

LEMMA TakeMemory ==
    ASSUME IInv, MemoryInv, NEW c \in Caller, OnlyMoves(c),
           pc[c] # "idle", req'[c] = req[c],
           Paid(c) = 1..Len(boxes[c]), Paid(c)' = 1..(Len(boxes[c]) + 1)
    PROVE  /\ IsFiniteSet(MemoryTaken')
           /\ Cardinality(MemoryTaken') = Cardinality(MemoryTaken) + NextQuota(c)
<1> DEFINE n == Len(boxes[c]) + 1
           b == <<c, n>>
           U == {b} \X (1..NextQuota(c))
<1>1. n \in Nat /\ Paid(c)' = Paid(c) \cup {n} /\ n \notin Paid(c)
  BY Lengths
<1>2. Quota(req[c], n) = NextQuota(c) /\ NextQuota(c) \in Nat
  BY NextQuotaType DEF NextQuota, IInv
<1> HIDE DEF n
<1>3. \A x : x \in MemoryTaken' <=> x \in MemoryTaken \/ x \in U
  BY <1>1, <1>2, OthersPay, MemoryMembers, MemoryMembersPrime
<1>4. MemoryTaken' = MemoryTaken \cup U
  BY <1>3
<1>5. MemoryTaken \cap U = {}
  BY <1>1, MemoryMembers
<1> HIDE DEF b
<1>6. QED
  BY <1>2, <1>4, <1>5, TakeUnits DEF MemoryInv

LEMMA ReturnMemory ==
    ASSUME IInv, MemoryInv, NEW c \in Caller, OnlyMoves(c),
           pc[c] # "idle", req'[c] = req[c],
           Paid(c) = 1..(Len(boxes[c]) + 1), Paid(c)' = 1..Len(boxes[c])
    PROVE  /\ IsFiniteSet(MemoryTaken')
           /\ Cardinality(MemoryTaken') = Cardinality(MemoryTaken) - NextQuota(c)
<1> DEFINE n == Len(boxes[c]) + 1
           b == <<c, n>>
           U == {b} \X (1..NextQuota(c))
<1>1. n \in Nat /\ Paid(c)' = Paid(c) \ {n} /\ n \in Paid(c)
  BY Lengths
<1>2. Quota(req[c], n) = NextQuota(c) /\ NextQuota(c) \in Nat
  BY NextQuotaType DEF NextQuota, IInv
<1> HIDE DEF n
<1>3. \A x : x \in MemoryTaken' <=> x \in MemoryTaken /\ x \notin U
  <2>1. ASSUME NEW x, x \in MemoryTaken' PROVE x \in MemoryTaken /\ x \notin U
    <3>1. PICK d \in Caller : \E k \in Paid(d)' : x \in {<<d, k>>} \X (1..Quota(req'[d], k))
      BY <2>1, MemoryMembersPrime
    <3>2. PICK k \in Paid(d)' : x \in {<<d, k>>} \X (1..Quota(req'[d], k))
      BY <3>1
    <3>3. k \in Paid(d) /\ req'[d] = req[d] /\ <<d, k>> # b
      BY <1>1, <3>2, OthersPay
    <3>4. QED
      BY <3>2, <3>3, MemoryMembers
  <2>2. ASSUME NEW x, x \in MemoryTaken, x \notin U PROVE x \in MemoryTaken'
    <3>1. PICK d \in Caller : \E k \in Paid(d) : x \in {<<d, k>>} \X (1..Quota(req[d], k))
      BY <2>2, MemoryMembers
    <3>2. PICK k \in Paid(d) : x \in {<<d, k>>} \X (1..Quota(req[d], k))
      BY <3>1
    <3>3. d = c => k # n
      BY <1>2, <2>2, <3>2
    <3>4. k \in Paid(d)' /\ req'[d] = req[d]
      BY <1>1, <3>2, <3>3, OthersPay
    <3>5. QED
      BY <3>2, <3>4, MemoryMembersPrime
  <2>3. QED
    BY <2>1, <2>2
<1>4. MemoryTaken' = MemoryTaken \ U
  BY <1>3
<1>5. U \subseteq MemoryTaken
  BY <1>1, <1>2, MemoryMembers
<1> HIDE DEF b
<1>6. QED
  BY <1>2, <1>4, <1>5, ReturnUnits DEF MemoryInv

(* The steps that move no memory. *)
LEMMA QuietMemory ==
    ASSUME IInv, PlaceInv, NEW c \in Caller, Work(c),
           ~GetBox(c), ~AcquireMem(c), ~GenFail(c), ~FreeMem(c)
    PROVE  /\ UNCHANGED <<memFree, lost, lostMem>>
           /\ Paid(c)' = Paid(c)
           /\ Paid(c) # {} => req'[c] = req[c]
<1> USE Lengths DEF IInv, TypeOK, PC, Goto, concVars, memVars, idVars, Paid
<1>1. CASE (\E s \in Shape : Call(c, s)) \/ GiveUpConc(c) \/ ReleaseConc(c)
  <2>1. pc[c] \in {"idle", "conc", "unwind"} /\ boxes[c] = <<>>
    BY <1>1 DEF Call, GiveUpConc, ReleaseConc, PlaceInv, PlaceOf
  <2>2. /\ pc'[c] \in {"idle", "conc"} /\ UNCHANGED <<boxes, memFree, lost, lostMem>>
    BY <1>1 DEF Call, GiveUpConc, ReleaseConc
  <2>3. QED
    BY <2>1, <2>2
<1>2. CASE \/ AcquireConc(c) \/ MakeFifos(c) \/ GiveUpMem(c) \/ DrawId(c)
           \/ Setup(c) \/ Run(c)
  <2>1. /\ pc[c] \in {"conc", "fifo", "mem", "doomed", "id", "setup", "run"}
        /\ pc[c] = "id" <=> pc'[c] \in {"id", "gen", "freeMem"}
        /\ UNCHANGED <<req, boxes, memFree, lost, lostMem>>
    BY <1>2 DEF AcquireConc, MakeFifos, GiveUpMem, DrawId, Setup, Run
  <2>2. QED
    BY <2>1
<1>3. CASE GenOk(c)
  <2>1. /\ pc[c] = "gen" /\ pc'[c] = "setup" /\ hand[c] \in Id \cup {Zero}
        /\ boxes'[c] = Append(boxes[c], hand[c])
        /\ UNCHANGED <<memFree, req, lost, lostMem>>
    BY <1>3 DEF GenOk, PcInv
  <2>2. Len(boxes'[c]) = Len(boxes[c]) + 1
    BY <2>1, AppendProperties
  <2>3. QED
    BY <2>1, <2>2
<1>4. CASE YieldId(c)
  <2>1. CASE Closed
    BY <1>4, <2>1 DEF YieldId
  <2>2. CASE ~Closed
    <3>1. /\ pc[c] = "unwind" /\ pc'[c] = "freeMem" /\ boxes[c] # <<>>
          /\ boxes'[c] = Front(boxes[c])
          /\ UNCHANGED <<memFree, req, lost, lostMem>>
      BY <1>4, <2>2 DEF YieldId
    <3>2. Len(boxes'[c]) = Len(boxes[c]) - 1
      BY <3>1, FrontLast
    <3>3. QED
      BY <3>1, <3>2
  <2>3. QED
    BY <2>1, <2>2
<1>5. QED
  BY <1>1, <1>2, <1>3, <1>4 DEF Work, Step

LEMMA NextMemory ==
    ASSUME IInv, PlaceInv, MemoryInv, [Next]_vars
    PROVE  MemoryInv'
<1> USE DEF IInv, TypeOK, PC, Goto
<1>1. Cardinality(MemoryTaken) \in Nat
  BY FS_CardinalityType DEF MemoryInv
<1>2. ASSUME NEW c \in Caller, Work(c),
             ~GetBox(c), ~AcquireMem(c), ~GenFail(c), ~FreeMem(c)
      PROVE  MemoryInv'
  <2>1. MemoryTaken' = MemoryTaken
    BY <1>2, QuietMemory, WorkMovesOne, SameMemory
  <2>2. QED
    BY <1>2, <2>1, QuietMemory DEF MemoryInv, MemoryBudget
<1>3. ASSUME NEW c \in Caller, Work(c), GetBox(c) PROVE MemoryInv'
  <2>1. /\ pc[c] = "getBox" /\ UNCHANGED <<req, boxes, lost, lostMem, memFree>>
        /\ pc'[c] \in {"id", "mem", "doomed"}
        /\ pc'[c] = "id" => NextQuota(c) = 0
    BY <1>3 DEF GetBox, idVars
  <2>2. OnlyMoves(c)
    BY <1>3, WorkMovesOne
  <2>3. CASE pc'[c] = "id"
    <3>1. Paid(c) = 1..Len(boxes[c]) /\ Paid(c)' = 1..(Len(boxes[c]) + 1)
      BY <2>1, <2>3, Lengths DEF Paid
    <3>2. /\ IsFiniteSet(MemoryTaken')
          /\ Cardinality(MemoryTaken') = Cardinality(MemoryTaken) + NextQuota(c)
      BY <2>1, <2>2, <3>1, TakeMemory
    <3>3. QED
      BY <1>1, <2>1, <2>3, <3>2 DEF MemoryInv, MemoryBudget
  <2>4. CASE pc'[c] # "id"
    <3>1. MemoryTaken' = MemoryTaken
      BY <2>1, <2>2, <2>4, SameMemory DEF Paid
    <3>2. QED
      BY <2>1, <3>1 DEF MemoryInv, MemoryBudget
  <2>5. QED
    BY <2>3, <2>4
<1>4. ASSUME NEW c \in Caller, Work(c), AcquireMem(c) PROVE MemoryInv'
  <2>1. /\ pc[c] = "mem" /\ pc'[c] = "id" /\ UNCHANGED <<req, boxes, lost, lostMem>>
        /\ memFree >= NextQuota(c) /\ memFree' = memFree - NextQuota(c)
        /\ NextQuota(c) \in Nat
    BY <1>4, NextQuotaType DEF AcquireMem, idVars
  <2>2. Paid(c) = 1..Len(boxes[c]) /\ Paid(c)' = 1..(Len(boxes[c]) + 1)
    BY <2>1, Lengths DEF Paid
  <2>3. OnlyMoves(c)
    BY <1>4, WorkMovesOne
  <2>4. /\ IsFiniteSet(MemoryTaken')
        /\ Cardinality(MemoryTaken') = Cardinality(MemoryTaken) + NextQuota(c)
    BY <2>1, <2>2, <2>3, TakeMemory
  <2>5. QED
    BY <1>1, <2>1, <2>4 DEF MemoryInv, MemoryBudget
<1>5. ASSUME NEW c \in Caller, Work(c), GenFail(c) PROVE MemoryInv'
  <2>1. /\ pc[c] = "gen" /\ pc'[c] = "unwind" /\ UNCHANGED <<req, boxes, memFree>>
        /\ lostMem' = lostMem + NextQuota(c) /\ NextQuota(c) \in Nat
        /\ lost' # {}
    BY <1>5, NextQuotaType DEF GenFail, memVars
  <2>2. Paid(c) = 1..(Len(boxes[c]) + 1) /\ Paid(c)' = 1..Len(boxes[c])
    BY <2>1, Lengths DEF Paid
  <2>3. OnlyMoves(c)
    BY <1>5, WorkMovesOne
  <2>4. /\ IsFiniteSet(MemoryTaken')
        /\ Cardinality(MemoryTaken') = Cardinality(MemoryTaken) - NextQuota(c)
    BY <2>1, <2>2, <2>3, ReturnMemory
  <2>5. MemoryBudget'
    <3>1. /\ memFree \in Int /\ memFree >= 0 /\ lostMem \in Nat
          /\ memFree + lostMem + Cardinality(MemoryTaken) = MaxMemory
      BY DEF MemoryInv, MemoryBudget
    <3>2. memFree' >= 0
      BY <2>1, <3>1
    <3>3. memFree' + lostMem' + Cardinality(MemoryTaken') = MaxMemory
      BY <1>1, <2>1, <2>4, <3>1, SizeAssumption
    <3>4. QED
      BY <3>2, <3>3 DEF MemoryBudget
  <2>6. QED
    BY <2>1, <2>4, <2>5 DEF MemoryInv
<1>6. ASSUME NEW c \in Caller, Work(c), FreeMem(c) PROVE MemoryInv'
  <2>1. /\ pc[c] = "freeMem" /\ pc'[c] = "unwind"
        /\ UNCHANGED <<req, boxes, lost, lostMem>>
        /\ memFree' = memFree + NextQuota(c) /\ NextQuota(c) \in Nat
    BY <1>6, NextQuotaType DEF FreeMem, idVars
  <2>2. Paid(c) = 1..(Len(boxes[c]) + 1) /\ Paid(c)' = 1..Len(boxes[c])
    BY <2>1, Lengths DEF Paid
  <2>3. OnlyMoves(c)
    BY <1>6, WorkMovesOne
  <2>4. /\ IsFiniteSet(MemoryTaken')
        /\ Cardinality(MemoryTaken') = Cardinality(MemoryTaken) - NextQuota(c)
    BY <2>1, <2>2, <2>3, ReturnMemory
  <2>5. MemoryBudget'
    <3>1. /\ memFree \in Int /\ memFree >= 0 /\ lostMem \in Nat
          /\ memFree + lostMem + Cardinality(MemoryTaken) = MaxMemory
      BY DEF MemoryInv, MemoryBudget
    <3>2. memFree' >= 0
      BY <2>1, <3>1
    <3>3. memFree' + lostMem' + Cardinality(MemoryTaken') = MaxMemory
      BY <1>1, <2>1, <2>4, <3>1, SizeAssumption
    <3>4. QED
      BY <3>2, <3>3 DEF MemoryBudget
  <2>6. QED
    BY <2>1, <2>4, <2>5 DEF MemoryInv
<1>7. CASE Closing \/ UNCHANGED vars
  <2>1. UNCHANGED <<pc, req, boxes, memFree, lost, lostMem>>
    BY <1>7 DEF Closing, BeginClose, CloseAcquired, CloseCtxDone, vars, memVars, idVars
  <2>2. MemoryTaken' = MemoryTaken
    BY <2>1 DEF MemoryTaken, MemoryOf, SandboxMemory, Paid, Quota
  <2>3. QED
    BY <2>1, <2>2 DEF MemoryInv, MemoryBudget
<1>8. QED
  BY <1>2, <1>3, <1>4, <1>5, <1>6, <1>7 DEF Next

-----------------------------------------------------------------------------
(* The box numbers as a whole: none goes missing, the lost ones are real   *)
(* unless Close was cut short, and only then does a send panic.            *)
PoolInv ==
    /\ \A i \in Id : i \in availableIDs \cup lost \/ \E c \in Caller : i \in Held(c)
    /\ closing # "cut" => lost \subseteq Id
    /\ panicked => closing = "cut"

LEMMA ClosedHoldsNothing ==
    ASSUME IInv, PlaceInv, ConcInv, closing = "closed", NEW c \in Caller
    PROVE  Held(c) = {}
<1>1. pc[c] \in {"idle", "conc"}
  BY ClosedIsEmpty, WeightMembers
<1>2. boxes[c] = <<>> /\ hand[c] = None
  BY <1>1 DEF PlaceInv, PlaceOf, IInv, PcInv
<1>3. QED
  BY <1>2, Lengths DEF Held

LEMMA NextPool ==
    ASSUME IInv, PlaceInv, ConcInv, PoolInv, [Next]_vars
    PROVE  PoolInv'
<1>1. IInv' /\ [Pool!Next]_(Pool!poolVars)
  BY NextInv DEF IdStep
<1>2. \A i \in Id : i \in availableIDs' \cup lost' \/ \E c \in Caller : i \in Held(c)'
  <2> DEFINE use == [c \in Caller |-> Held(c) \cap Id]
             usep == [c \in Caller |-> Held(c)' \cap Id]
  <2>1. CASE UNCHANGED Pool!poolVars
    <3>1. /\ availableIDs' = availableIDs /\ lost' \cap Id = lost \cap Id
          /\ usep = use
      BY <2>1 DEF Pool!poolVars
    <3>2. \A c \in Caller : usep[c] = use[c]
      BY <3>1
    <3>3. QED
      BY <3>1, <3>2 DEF PoolInv
  <2>2. CASE Pool!Next
    <3>1. PICK c \in Caller, i \in Id : Pool!Take(c, i) \/ Pool!Give(c, i) \/ Pool!Drop(c, i)
      BY <2>2 DEF Pool!Next
    <3>2. /\ \A d \in Caller : d # c => usep[d] = use[d]
          /\ use[c] \ {i} \subseteq usep[c]
      BY <3>1 DEF Pool!Take, Pool!Give, Pool!Drop
    <3>3. /\ availableIDs \ {i} \subseteq availableIDs'
          /\ lost \cap Id \subseteq lost' \cap Id
          /\ i \in availableIDs' \/ i \in lost' \/ i \in usep[c]
      BY <3>1 DEF Pool!Take, Pool!Give, Pool!Drop
    <3>4. QED
      BY <3>2, <3>3 DEF PoolInv
  <2>3. QED
    BY <1>1, <2>1, <2>2
<1>3. closing' # "cut" => lost' \subseteq Id
  <2> SUFFICES ASSUME closing' # "cut" PROVE lost' \subseteq Id
    OBVIOUS
  <2>1. ASSUME NEW c \in Caller, GenFail(c) PROVE lost' \subseteq Id
    <3>1. closing' = closing /\ pc[c] = "gen" /\ lost' = lost \cup {hand[c]}
      BY <2>1 DEF GenFail
    <3>2. hand[c] \in Id \cup {Zero} /\ hand[c] \in Held(c)
      BY <3>1 DEF IInv, TypeOK, PcInv, Held
    <3>3. Zero \notin Held(c)
      BY <3>1, ClosedHoldsNothing DEF IInv, TypeOK, NoZero, Closed
    <3>4. QED
      BY <3>1, <3>2, <3>3 DEF PoolInv
  <2>2. ASSUME NEW c \in Caller, Work(c), ~GenFail(c) PROVE lost' \subseteq Id
    <3>1. lost' = lost /\ closing' = closing
      <4> USE DEF idVars
      <4>1. CASE \/ \E s \in Shape : Call(c, s)
                 \/ AcquireConc(c) \/ GiveUpConc(c) \/ MakeFifos(c)
        BY <4>1 DEF Call, AcquireConc, GiveUpConc, MakeFifos
      <4>2. CASE GetBox(c) \/ AcquireMem(c) \/ GiveUpMem(c) \/ DrawId(c) \/ GenOk(c)
        BY <4>2 DEF GetBox, AcquireMem, GiveUpMem, DrawId, GenOk
      <4>3. CASE YieldId(c) \/ Setup(c) \/ Run(c) \/ FreeMem(c) \/ ReleaseConc(c)
        BY <4>3 DEF YieldId, Setup, Run, FreeMem, ReleaseConc
      <4>4. QED
        BY <2>2, <4>1, <4>2, <4>3 DEF Work, Step
    <3>2. QED
      BY <3>1 DEF PoolInv
  <2>3. CASE Closing \/ UNCHANGED vars
    BY <2>3 DEF Closing, BeginClose, CloseAcquired, CloseCtxDone, vars, idVars, PoolInv
  <2>4. QED
    BY <2>1, <2>2, <2>3 DEF Next
<1>4. panicked' => closing' = "cut"
  <2>1. ASSUME NEW c \in Caller, YieldId(c) PROVE panicked' => closing' = "cut"
    <3>1. closing' = closing /\ boxes[c] # <<>> /\ pc[c] = "unwind"
      BY <2>1 DEF YieldId
    <3>2. closing # "closed"
      BY <3>1, ClosedIsEmpty, WeightMembers
    <3>3. QED
      BY <2>1, <3>1, <3>2 DEF YieldId, Closed, PoolInv
  <2>2. ASSUME NEW c \in Caller, Work(c), ~YieldId(c) PROVE UNCHANGED <<panicked, closing>>
    <3>1. CASE \/ \E s \in Shape : Call(c, s)
               \/ AcquireConc(c) \/ GiveUpConc(c) \/ MakeFifos(c)
      BY <3>1 DEF Call, AcquireConc, GiveUpConc, MakeFifos
    <3>2. CASE GetBox(c) \/ AcquireMem(c) \/ GiveUpMem(c) \/ DrawId(c) \/ GenOk(c)
      BY <3>2 DEF GetBox, AcquireMem, GiveUpMem, DrawId, GenOk
    <3>3. CASE GenFail(c) \/ Setup(c) \/ Run(c) \/ FreeMem(c) \/ ReleaseConc(c)
      BY <3>3 DEF GenFail, Setup, Run, FreeMem, ReleaseConc
    <3>4. QED
      BY <2>2, <3>1, <3>2, <3>3 DEF Work, Step
  <2>3. CASE Closing \/ UNCHANGED vars
    <3>1. CASE Closing
      BY <3>1 DEF Closing, BeginClose, CloseAcquired, CloseCtxDone
    <3>2. CASE UNCHANGED vars
      BY <3>2 DEF vars, PoolInv
    <3>3. QED
      BY <2>3, <3>1, <3>2
  <2>4. QED
    BY <2>1, <2>2, <2>3 DEF Next, PoolInv
<1>5. QED
  BY <1>2, <1>3, <1>4 DEF PoolInv

-----------------------------------------------------------------------------
(* The unit of a caller's weight that its k-th box number stands on.       *)
Slots(c) == 1..(Len(boxes[c]) + IF hand[c] = None THEN 0 ELSE 1)
HeldAt(c, k) == IF k <= Len(boxes[c]) THEN boxes[c][k] ELSE hand[c]

LEMMA HeldBySlots ==
    ASSUME IInv, PlaceInv, NEW c \in Caller
    PROVE  /\ \A i : i \in Held(c) <=> \E k \in Slots(c) : HeldAt(c, k) = i
           /\ c \in InFlight => Slots(c) \subseteq 1..Weight(req[c])
           /\ c \notin InFlight => Held(c) = {} /\ Slots(c) = {}
<1>1. Len(boxes[c]) \in Nat /\ \A k \in 1..Len(boxes[c]) : boxes[c][k] # None
  BY Lengths, ElementOfSeq, DistinctAssumption DEF IInv
<1>2. \A i : i \in Held(c) <=> \E k \in Slots(c) : HeldAt(c, k) = i
  <2>1. CASE hand[c] = None
    BY <1>1, <2>1 DEF Held, Slots, HeldAt
  <2>2. CASE hand[c] # None
    <3>1. Slots(c) = 1..Len(boxes[c]) \cup {Len(boxes[c]) + 1}
      BY <1>1, <2>2 DEF Slots
    <3>2. HeldAt(c, Len(boxes[c]) + 1) = hand[c]
      BY <1>1 DEF HeldAt
    <3>3. \A k \in 1..Len(boxes[c]) : HeldAt(c, k) = boxes[c][k]
      BY <1>1 DEF HeldAt
    <3>4. \A i : i \in Held(c) <=> i = hand[c] \/ \E k \in 1..Len(boxes[c]) : boxes[c][k] = i
      BY <1>1, <2>2 DEF Held
    <3>5. QED
      BY <3>1, <3>2, <3>3, <3>4
  <2>3. QED
    BY <2>1, <2>2
<1>3. /\ hand[c] # None <=> pc[c] = "gen"
      /\ pc[c] \in PC
      /\ c \in InFlight <=> pc[c] \notin {"idle", "conc"}
  BY WeightMembers DEF IInv, TypeOK, PcInv
<1>4. ASSUME c \in InFlight PROVE Slots(c) \subseteq 1..Weight(req[c])
  <2>1. Weight(req[c]) \in Nat
    BY <1>3, <1>4, Lengths
  <2>2. /\ Len(boxes[c]) <= Weight(req[c])
        /\ hand[c] # None => Len(boxes[c]) < Weight(req[c])
    BY <1>3, <1>4 DEF PlaceInv, PlaceOf
  <2>3. PICK m \in Nat : Slots(c) = 1..m /\ m <= Weight(req[c])
    <3>1. CASE hand[c] = None
      BY <1>1, <2>1, <2>2, <3>1 DEF Slots
    <3>2. CASE hand[c] # None
      BY <1>1, <2>1, <2>2, <3>2 DEF Slots
    <3>3. QED
      BY <3>1, <3>2
  <2>4. QED
    BY <2>1, <2>3
<1>5. ASSUME c \notin InFlight PROVE Slots(c) = {}
  <2>1. hand[c] = None /\ Len(boxes[c]) = 0
    BY <1>3, <1>5, Lengths DEF PlaceInv, PlaceOf
  <2>2. QED
    BY <2>1 DEF Slots
<1>6. c \notin InFlight => Held(c) = {}
  BY <1>2, <1>5
<1>7. QED
  BY <1>2, <1>4, <1>5, <1>6

LEMMA HeldWithinWeight ==
    ASSUME IInv, PlaceInv, NEW c \in Caller
    PROVE  Cardinality(Held(c)) <= IF c \in InFlight THEN Weight(req[c]) ELSE 0
<1>1. CASE c \notin InFlight
  BY <1>1, HeldBySlots, FS_EmptySet
<1>2. CASE c \in InFlight
  <2> DEFINE f == [k \in Slots(c) |-> HeldAt(c, k)]
  <2>1. f \in Surjection(Slots(c), Held(c))
    BY HeldBySlots DEF Surjection
  <2>2. Weight(req[c]) \in Nat
    BY <1>2, WeightMembers, Lengths
  <2>3. IsFiniteSet(1..Weight(req[c])) /\ Cardinality(1..Weight(req[c])) = Weight(req[c])
    BY <2>2, FS_Interval
  <2>4. IsFiniteSet(Slots(c)) /\ Cardinality(Slots(c)) <= Weight(req[c])
    <3>1. Slots(c) \in SUBSET (1..Weight(req[c]))
      BY <1>2, HeldBySlots
    <3>2. IsFiniteSet(Slots(c)) /\ Cardinality(Slots(c)) <= Cardinality(1..Weight(req[c]))
      BY <2>3, <3>1, FS_Subset
    <3>3. QED
      BY <2>3, <3>2
  <2> HIDE DEF f
  <2>5. IsFiniteSet(Held(c)) /\ Cardinality(Held(c)) <= Cardinality(Slots(c))
    BY <2>1, <2>4, FS_Surjection
  <2>6. Cardinality(Held(c)) \in Nat /\ Cardinality(Slots(c)) \in Nat
    BY <2>4, <2>5, FS_CardinalityType
  <2>7. QED
    BY <1>2, <2>2, <2>4, <2>5, <2>6
<1>3. QED
  BY <1>1, <1>2

(* While a caller waits for a number, at least one unit of weight is out   *)
(* with no number on it, so the numbers in use are fewer than count.       *)
LEMMA NumbersInUse ==
    ASSUME IInv, PlaceInv, ConcInv, NEW c \in Caller, pc[c] = "id"
    PROVE  LET used == {i \in Id : \E d \in Caller : i \in Held(d)}
           IN  IsFiniteSet(used) /\ Cardinality(used) < Count
<1> DEFINE used == {i \in Id : \E d \in Caller : i \in Held(d)}
           spare == <<c, Len(boxes[c]) + 1>>
           S == {u \in WeightTaken : u[2] \in Slots(u[1]) /\ HeldAt(u[1], u[2]) \in Id}
           f == [u \in S |-> HeldAt(u[1], u[2])]
<1>1. \A u \in WeightTaken : u[1] \in InFlight /\ u = <<u[1], u[2]>>
  BY WeightMembers
<1>2. c \in InFlight /\ hand[c] = None /\ Len(boxes[c]) \in Nat
  BY Lengths DEF IInv, PcInv, InFlight
<1>3. spare \in WeightTaken
  <2>1. Len(boxes[c]) + 1 \in 1..Weight(req[c])
    BY Lengths DEF PlaceInv, PlaceOf
  <2>2. QED
    BY <1>2, <2>1, WeightMembers
<1>4. spare \notin S
  <2>1. Slots(c) = 1..Len(boxes[c])
    BY <1>2 DEF Slots
  <2>2. Len(boxes[c]) + 1 \notin Slots(c)
    BY <1>2, <2>1
  <2>3. spare[1] = c /\ spare[2] = Len(boxes[c]) + 1
    OBVIOUS
  <2>4. QED
    BY <2>2, <2>3
<1>5. f \in Surjection(S, used)
  <2>1. ASSUME NEW u \in S PROVE f[u] \in used
    BY <1>1, HeldBySlots, WeightMembers
  <2>2. ASSUME NEW i \in used PROVE \E u \in S : f[u] = i
    <3>1. PICK d \in Caller : i \in Held(d)
      OBVIOUS
    <3>2. PICK k \in Slots(d) : HeldAt(d, k) = i
      BY <3>1, HeldBySlots
    <3>3. d \in InFlight /\ k \in 1..Weight(req[d])
      BY <3>1, <3>2, HeldBySlots
    <3>4. <<d, k>> \in WeightTaken
      BY <3>3, WeightMembers
    <3>5. <<d, k>> \in S /\ f[<<d, k>>] = i
      BY <3>2, <3>4
    <3>6. QED
      BY <3>5
  <2>3. QED
    BY <2>1, <2>2 DEF Surjection
<1>6. S \subseteq WeightTaken \ {spare}
  BY <1>4
<1> HIDE DEF spare, S, f
<1>7. /\ IsFiniteSet(WeightTaken \ {spare})
      /\ Cardinality(WeightTaken \ {spare}) = Cardinality(WeightTaken) - 1
  BY <1>3, FS_RemoveElement DEF ConcInv
<1>8. Cardinality(WeightTaken) \in Nat /\ Cardinality(WeightTaken) <= Count
  BY FS_CardinalityType, SizeAssumption DEF ConcInv, IInv, TypeOK
<1>9. IsFiniteSet(S) /\ Cardinality(S) <= Cardinality(WeightTaken) - 1
  BY <1>6, <1>7, FS_Subset
<1> HIDE DEF used
<1>10. IsFiniteSet(used) /\ Cardinality(used) <= Cardinality(S)
  BY <1>5, <1>9, FS_Surjection
<1>11. Cardinality(used) \in Nat /\ Cardinality(S) \in Nat
  BY <1>9, <1>10, FS_CardinalityType
<1>12. Cardinality(used) < Count
  BY <1>8, <1>9, <1>10, <1>11, SizeAssumption
<1>13. QED
  BY <1>10, <1>12 DEF used

LEMMA NumbersSuffice ==
    ASSUME IInv, PlaceInv, ConcInv, PoolInv
    PROVE  IdsSuffice
<1> SUFFICES ASSUME NEW c \in Caller, pc[c] = "id", Cardinality(lost) <= Count,
                    availableIDs = {}
             PROVE  FALSE
  BY DEF IdsSuffice
<1> DEFINE used == {i \in Id : \E d \in Caller : i \in Held(d)}
<1>1. IsFiniteSet(used) /\ Cardinality(used) < Count
  BY NumbersInUse
<1>2. Id \subseteq lost \cup used
  BY DEF PoolInv
<1> HIDE DEF used
<1>3. IsFiniteSet(lost)
  <2>1. IsFiniteSet(Id \cup {Zero})
    BY IdAssumption, FS_AddElement
  <2>2. QED
    BY <2>1, FS_Subset DEF IInv, TypeOK
<1>4. /\ IsFiniteSet(lost \cup used)
      /\ Cardinality(lost \cup used)
            = Cardinality(lost) + Cardinality(used) - Cardinality(lost \cap used)
  BY <1>1, <1>3, FS_Union
<1>5. /\ Cardinality(lost \cap used) \in Nat /\ Cardinality(lost) \in Nat
      /\ Cardinality(used) \in Nat /\ Cardinality(lost \cup used) \in Nat
  BY <1>1, <1>3, <1>4, FS_CardinalityType, FS_Intersection
<1>6. Cardinality(Id) <= Cardinality(lost \cup used)
  BY <1>2, <1>4, FS_Subset
<1>7. QED
  BY <1>1, <1>4, <1>5, <1>6, IdAssumption, SizeAssumption

-----------------------------------------------------------------------------
(* Who waits for a semaphore, and that nobody waits twice. *)
Waiting(q, x) == \E k \in 1..Len(q) : q[k] = x
Once(q) == \A j, k \in 1..Len(q) : q[j] = q[k] => j = k

LEMMA AppendWaiting ==
    ASSUME NEW S, NEW q \in Seq(S), NEW x \in S, Once(q), ~Waiting(q, x)
    PROVE  /\ Once(Append(q, x))
           /\ \A y : Waiting(Append(q, x), y) <=> Waiting(q, y) \/ y = x
<1> DEFINE r == Append(q, x)
<1>1. /\ Len(q) \in Nat /\ Len(r) = Len(q) + 1
      /\ r[Len(q) + 1] = x
      /\ \A k \in 1..Len(q) : r[k] = q[k]
  BY AppendProperties
<1> HIDE DEF r
<1>2. Once(r)
  BY <1>1 DEF Once, Waiting
<1>3. \A y : Waiting(r, y) <=> Waiting(q, y) \/ y = x
  BY <1>1 DEF Waiting
<1>4. QED
  BY <1>2, <1>3 DEF r

LEMMA TailWaiting ==
    ASSUME NEW S, NEW q \in Seq(S), q # <<>>, Once(q)
    PROVE  /\ Head(q) \in S /\ Waiting(q, Head(q))
           /\ Once(Tail(q))
           /\ \A y : Waiting(Tail(q), y) <=> Waiting(q, y) /\ y # Head(q)
<1> DEFINE r == Tail(q)
<1>1. /\ Len(q) \in Nat \ {0} /\ Head(q) = q[1] /\ Head(q) \in S
      /\ Len(r) = Len(q) - 1
      /\ \A k \in 1..Len(r) : r[k] = q[k + 1]
  BY HeadTailProperties, EmptySeq
<1> HIDE DEF r
<1>2. Waiting(q, Head(q))
  BY <1>1 DEF Waiting
<1>3. Once(r)
  BY <1>1 DEF Once
<1>4. ASSUME NEW y, Waiting(r, y) PROVE Waiting(q, y) /\ y # Head(q)
  <2>1. PICK k \in 1..Len(r) : r[k] = y
    BY <1>4 DEF Waiting
  <2>2. k + 1 \in 1..Len(q) /\ q[k + 1] = y /\ 1 \in 1..Len(q) /\ k + 1 # 1
    BY <1>1, <2>1
  <2>3. QED
    BY <1>1, <2>2 DEF Waiting, Once
<1>5. ASSUME NEW y, Waiting(q, y), y # Head(q) PROVE Waiting(r, y)
  <2>1. PICK k \in 1..Len(q) : q[k] = y
    BY <1>5 DEF Waiting
  <2>2. k - 1 \in 1..Len(r) /\ r[k - 1] = y
    BY <1>1, <1>5, <2>1
  <2>3. QED
    BY <2>2 DEF Waiting
<1>6. QED
  BY <1>1, <1>2, <1>3, <1>4, <1>5 DEF r

LEMMA RemoveAtWaiting ==
    ASSUME NEW S, NEW q \in Seq(S), NEW i \in 1..Len(q), Once(q)
    PROVE  /\ Once(RemoveAt(q, i))
           /\ \A y : Waiting(RemoveAt(q, i), y) <=> Waiting(q, y) /\ y # q[i]
<1> DEFINE r == RemoveAt(q, i)
<1>1. /\ Len(q) \in Nat
      /\ Len(r) = Len(q) - 1
      /\ \A k \in 1..Len(r) : r[k] = IF k < i THEN q[k] ELSE q[k + 1]
  <2> DEFINE a == SubSeq(q, 1, i - 1)
             b == SubSeq(q, i + 1, Len(q))
  <2>1. Len(q) \in Nat /\ \A k \in 1..Len(q) : q[k] \in S
    BY ElementOfSeq
  <2>2. /\ a \in Seq(S) /\ Len(a) = i - 1
        /\ \A k \in 1..Len(a) : a[k] = q[k]
    BY <2>1, SubSeqProperties
  <2>3. /\ b \in Seq(S) /\ Len(b) = Len(q) - i
        /\ \A k \in 1..Len(b) : b[k] = q[k + i]
    BY <2>1, SubSeqProperties
  <2> HIDE DEF a, b
  <2>4. r = a \o b
    BY DEF RemoveAt, a, b
  <2>5. /\ Len(a \o b) = Len(a) + Len(b)
        /\ \A k \in 1..Len(a) + Len(b) :
              (a \o b)[k] = IF k <= Len(a) THEN a[k] ELSE b[k - Len(a)]
    BY <2>2, <2>3, ConcatProperties
  <2> HIDE DEF r
  <2>6. Len(r) = Len(q) - 1
    BY <2>1, <2>2, <2>3, <2>4, <2>5
  <2>7. ASSUME NEW k \in 1..Len(r) PROVE r[k] = IF k < i THEN q[k] ELSE q[k + 1]
    <3>1. r[k] = IF k <= i - 1 THEN a[k] ELSE b[k - (i - 1)]
      BY <2>1, <2>2, <2>3, <2>4, <2>5, <2>6
    <3>2. CASE k < i
      BY <2>1, <2>2, <3>1, <3>2
    <3>3. CASE k >= i
      <4>1. k - (i - 1) \in 1..Len(b) /\ k - (i - 1) + i = k + 1
        BY <2>1, <2>3, <2>6, <3>3
      <4>2. QED
        BY <2>1, <2>3, <3>1, <3>3, <4>1
    <3>4. QED
      BY <2>1, <3>2, <3>3
  <2>8. QED
    BY <2>1, <2>6, <2>7
<1> HIDE DEF r
<1>2. Once(r)
  BY <1>1 DEF Once
<1>3. ASSUME NEW y, Waiting(r, y) PROVE Waiting(q, y) /\ y # q[i]
  <2>1. PICK k \in 1..Len(r) : r[k] = y
    BY <1>3 DEF Waiting
  <2>2. PICK j \in 1..Len(q) : q[j] = y /\ j # i
    BY <1>1, <2>1
  <2>3. QED
    BY <2>2 DEF Waiting, Once
<1>4. ASSUME NEW y, Waiting(q, y), y # q[i] PROVE Waiting(r, y)
  <2>1. PICK k \in 1..Len(q) : q[k] = y /\ k # i
    BY <1>4 DEF Waiting
  <2>2. CASE k < i
    BY <1>1, <2>1, <2>2 DEF Waiting
  <2>3. CASE k > i
    <3>1. k - 1 \in 1..Len(r) /\ r[k - 1] = y
      BY <1>1, <2>1, <2>3
    <3>2. QED
      BY <3>1 DEF Waiting
  <2>4. QED
    BY <2>1, <2>2, <2>3
<1>5. QED
  BY <1>2, <1>3, <1>4 DEF r

(* A caller waits for a semaphore exactly when its pc says so. *)
QueueInv ==
    /\ Once(concQ) /\ Once(memQ)
    /\ \A c \in Caller : pc[c] = "conc" <=> Waiting(concQ, c)
    /\ \A c \in Caller : pc[c] = "mem" <=> Waiting(memQ, c)
    /\ closing = "waiting" <=> Waiting(concQ, Closer)

LEMMA NextQueue ==
    ASSUME IInv, QueueInv, [Next]_vars
    PROVE  QueueInv'
<1> USE DistinctAssumption DEF IInv, TypeOK, PC, Goto, QueueInv
<1>1. ASSUME NEW c \in Caller, NEW s \in Shape, Call(c, s) PROVE QueueInv'
  <2>1. concQ' = Append(concQ, c) /\ ~Waiting(concQ, c)
    BY <1>1 DEF Call
  <2>2. /\ Once(concQ')
        /\ \A y : Waiting(concQ', y) <=> Waiting(concQ, y) \/ y = c
    BY <2>1, AppendWaiting
  <2>3. QED
    BY <1>1, <2>2 DEF Call, memVars
<1>2. ASSUME NEW c \in Caller, AcquireConc(c) PROVE QueueInv'
  <2>1. /\ Once(concQ')
        /\ \A y : Waiting(concQ', y) <=> Waiting(concQ, y) /\ y # c
    BY <1>2, TailWaiting DEF AcquireConc
  <2>2. QED
    BY <1>2, <2>1 DEF AcquireConc, memVars
<1>3. ASSUME NEW c \in Caller, GiveUpConc(c) PROVE QueueInv'
  <2>1. /\ Once(concQ')
        /\ \A y : Waiting(concQ', y) <=> Waiting(concQ, y) /\ y # c
    BY <1>3, RemoveAtWaiting DEF GiveUpConc
  <2>2. QED
    BY <1>3, <2>1 DEF GiveUpConc, memVars
<1>4. ASSUME NEW c \in Caller, GetBox(c) PROVE QueueInv'
  <2>1. /\ pc[c] = "getBox" /\ UNCHANGED <<concQ, closing>>
        /\ \/ pc' = [pc EXCEPT ![c] = "mem"] /\ memQ' = Append(memQ, c)
           \/ /\ pc' = [pc EXCEPT ![c] = "id"] \/ pc' = [pc EXCEPT ![c] = "doomed"]
              /\ UNCHANGED memQ
    BY <1>4 DEF GetBox, concVars
  <2>2. CASE pc' = [pc EXCEPT ![c] = "mem"] /\ memQ' = Append(memQ, c)
    <3>1. /\ Once(memQ')
          /\ \A y : Waiting(memQ', y) <=> Waiting(memQ, y) \/ y = c
      BY <2>1, <2>2, AppendWaiting
    <3>2. QED
      BY <2>1, <2>2, <3>1
  <2>3. QED
    BY <2>1, <2>2
<1>5. ASSUME NEW c \in Caller, AcquireMem(c) PROVE QueueInv'
  <2>1. /\ Once(memQ')
        /\ \A y : Waiting(memQ', y) <=> Waiting(memQ, y) /\ y # c
    BY <1>5, TailWaiting DEF AcquireMem
  <2>2. QED
    BY <1>5, <2>1 DEF AcquireMem, concVars
<1>6. ASSUME NEW c \in Caller, GiveUpMem(c), pc[c] = "mem" PROVE QueueInv'
  <2>1. /\ Once(memQ')
        /\ \A y : Waiting(memQ', y) <=> Waiting(memQ, y) /\ y # c
    BY <1>6, RemoveAtWaiting DEF GiveUpMem
  <2>2. QED
    BY <1>6, <2>1 DEF GiveUpMem, concVars
<1>7. ASSUME NEW c \in Caller, GiveUpMem(c), pc[c] # "mem" PROVE QueueInv'
  BY <1>7 DEF GiveUpMem, concVars
<1>8. ASSUME NEW c \in Caller, MakeFifos(c) \/ DrawId(c) \/ GenOk(c) \/ GenFail(c)
      PROVE  QueueInv'
  BY <1>8 DEF MakeFifos, DrawId, GenOk, GenFail, concVars, memVars
<1>9. ASSUME NEW c \in Caller, Setup(c) \/ Run(c) \/ YieldId(c) PROVE QueueInv'
  BY <1>9 DEF Setup, Run, YieldId, concVars, memVars
<1>10. ASSUME NEW c \in Caller, FreeMem(c) \/ ReleaseConc(c) PROVE QueueInv'
  BY <1>10 DEF FreeMem, ReleaseConc, concVars, memVars
<1>11. CASE BeginClose
  <2>1. /\ Once(concQ')
        /\ \A y : Waiting(concQ', y) <=> Waiting(concQ, y) \/ y = Closer
    BY <1>11, AppendWaiting DEF BeginClose
  <2>2. QED
    BY <1>11, <2>1 DEF BeginClose, memVars
<1>12. CASE CloseAcquired
  <2>1. /\ Once(concQ')
        /\ \A y : Waiting(concQ', y) <=> Waiting(concQ, y) /\ y # Closer
    BY <1>12, TailWaiting DEF CloseAcquired
  <2>2. QED
    BY <1>12, <2>1 DEF CloseAcquired, memVars
<1>13. CASE CloseCtxDone
  <2>1. /\ Once(concQ')
        /\ \A y : Waiting(concQ', y) <=> Waiting(concQ, y) /\ y # Closer
    BY <1>13, RemoveAtWaiting DEF CloseCtxDone
  <2>2. QED
    BY <1>13, <2>1 DEF CloseCtxDone, memVars
<1>14. CASE UNCHANGED vars
  BY <1>14 DEF vars
<1>15. QED
  BY <1>1, <1>2, <1>3, <1>4, <1>5, <1>6, <1>7, <1>8, <1>9, <1>10, <1>11, <1>12,
     <1>13, <1>14
  DEF Next, Closing, Work, Step

-----------------------------------------------------------------------------
(* Why the manager can come to a stop. *)

(* If nobody has its weight, the head of concSem's queue can have its own: *)
(* either nobody waits there or somebody can go on.                        *)
LEMMA ConcNeverStops ==
    ASSUME IInv, PlaceInv, ConcInv, QueueInv, ~Closed, InFlight = {},
           NEW c \in Caller, pc[c] = "conc"
    PROVE  ~CloseBlocked \/ \E h \in Caller : ~Blocked(h)
<1>1. concFree = Count
  <2>1. \A x : x \notin WeightTaken
    BY WeightMembers
  <2>2. WeightTaken = {}
    BY <2>1
  <2>3. QED
    BY <2>2, FS_EmptySet, SizeAssumption DEF ConcInv, Closed, IInv, TypeOK
<1>2. PICK h \in Caller \cup {Closer} : h = Head(concQ) /\ Waiting(concQ, h)
  <2>1. concQ # <<>>
    BY EmptySeq DEF QueueInv, Waiting
  <2>2. QED
    BY <2>1, TailWaiting DEF QueueInv, IInv, TypeOK
<1>3. CASE h = Closer
  BY <1>1, <1>2, <1>3, SizeAssumption DEF QueueInv, CloseBlocked
<1>4. CASE h \in Caller
  <2>1. pc[h] = "conc" /\ req[h] \in Shape
    BY <1>2, <1>4 DEF QueueInv, IInv, PcInv
  <2>2. Weight(req[h]) <= Count
    <3>1. Admitted(req[h])
      BY <2>1, <1>4 DEF PlaceInv, PlaceOf
    <3>2. CASE req[h].multi
      BY <3>1, <3>2 DEF Admitted
    <3>3. CASE ~req[h].multi
      BY <2>1, <3>3, ShapeAssumption, SizeAssumption DEF Weight
    <3>4. QED
      BY <3>2, <3>3
  <2>3. ~Blocked(h)
    BY <1>1, <1>2, <2>1, <2>2 DEF Blocked
  <2>4. QED
    BY <1>4, <2>3
<1>5. QED
  BY <1>2, <1>3, <1>4

LEMMA IntervalCount ==
    /\ \A n \in Nat : IsFiniteSet(1..n) /\ Cardinality(1..n) = n
    /\ \A n \in Nat \ {0} : IsFiniteSet(2..n) /\ Cardinality(2..n) = n - 1
<1>1. ASSUME NEW n \in Nat PROVE IsFiniteSet(1..n) /\ Cardinality(1..n) = n
  BY FS_Interval
<1>2. ASSUME NEW n \in Nat \ {0} PROVE IsFiniteSet(2..n) /\ Cardinality(2..n) = n - 1
  BY FS_Interval
<1>3. QED
  BY <1>1, <1>2

LEMMA Monotone ==
    ASSUME NEW a \in Nat, NEW b \in Nat, NEW u \in Nat, a <= b
    PROVE  a * u <= b * u
<1>1. PICK d \in Nat : b = a + d
  <2>1. b - a \in Nat /\ b = a + (b - a)
    OBVIOUS
  <2>2. QED
    BY <2>1
<1>2. b * u = a * u + d * u
  BY <1>1
<1>3. d * u \in Nat /\ a * u \in Nat
  BY <1>1
<1>4. QED
  BY <1>2, <1>3

(* A request that has all the memory that is out can have its next sandbox *)
(* as well: this is what RunMultibox3 checks before it starts.             *)
LEMMA AloneAlwaysFits ==
    ASSUME IInv, PlaceInv, NEW h \in Caller, pc[h] = "mem",
           MemoryTaken \subseteq MemoryOf(h)
    PROVE  /\ IsFiniteSet(MemoryTaken)
           /\ Cardinality(MemoryTaken) + NextQuota(h) <= MaxMemory
<1> DEFINE n == Len(boxes[h])
           m == req[h].mgrMem
           u == req[h].userMem
           A == {<<h, 1>>} \X (1..m)
           K == {h} \X (2..n)
           B == K \X (1..u)
<1>1. /\ req[h] \in Shape /\ n \in Nat /\ m \in Nat /\ u \in Nat
      /\ req[h].users \in Nat
      /\ ~req[h].multi => req[h].users = 0
  BY Lengths, ShapeAssumption DEF IInv, PcInv, ShapeType
<1>2. /\ n <= req[h].users
      /\ Admitted(req[h])
      /\ NextQuota(h) \in 1..MaxMemory
  BY <1>1 DEF PlaceInv, PlaceOf, Weight
<1>3. \A x : x \in MemoryTaken =>
         \E k \in 1..n : x \in {<<h, k>>} \X (1..Quota(req[h], k))
  <2>1. Paid(h) = 1..n
    BY <1>1 DEF Paid
  <2>2. QED
    BY <2>1 DEF MemoryOf, SandboxMemory
<1>4. CASE n = 0
  <2>1. MemoryTaken = {}
    BY <1>3, <1>4
  <2>2. QED
    BY <1>2, <2>1, FS_EmptySet, SizeAssumption
<1>5. CASE n > 0
  <2>1. MemoryTaken \subseteq A \cup B
    <3> SUFFICES ASSUME NEW x \in MemoryTaken PROVE x \in A \cup B
      OBVIOUS
    <3>1. PICK k \in 1..n : x \in {<<h, k>>} \X (1..Quota(req[h], k))
      BY <1>3
    <3>2. CASE k = 1
      BY <3>1, <3>2 DEF Quota
    <3>3. CASE k # 1
      <4>1. <<h, k>> \in K
        BY <1>1, <3>3
      <4>2. QED
        BY <1>1, <3>1, <3>3, <4>1 DEF Quota
    <3>4. QED
      BY <3>2, <3>3
  <2>2. IsFiniteSet(A) /\ Cardinality(A) = m
    BY <1>1, UnitCount
  <2>3. IsFiniteSet(B) /\ Cardinality(B) = (n - 1) * u
    <3>1. IsFiniteSet({h}) /\ Cardinality({h}) = 1
      BY FS_Singleton
    <3> HIDE DEF u, n
    <3>2. IsFiniteSet(2..n) /\ Cardinality(2..n) = n - 1
      <4>1. n \in Nat \ {0}
        BY <1>1, <1>5
      <4>2. QED
        BY <4>1, IntervalCount
    <3>3. IsFiniteSet(1..u) /\ Cardinality(1..u) = u
      BY <1>1, IntervalCount
    <3>4. IsFiniteSet(K) /\ Cardinality(K) = Cardinality({h}) * Cardinality(2..n)
      BY <3>1, <3>2, FS_Product
    <3>5. IsFiniteSet(K) /\ Cardinality(K) = n - 1
      BY <1>1, <3>1, <3>2, <3>4
    <3> HIDE DEF K
    <3>6. IsFiniteSet(B) /\ Cardinality(B) = Cardinality(K) * Cardinality(1..u)
      BY <3>3, <3>5, FS_Product
    <3>7. QED
      BY <3>3, <3>5, <3>6
  <2> HIDE DEF A, B, m, u, n
  <2>4. IsFiniteSet(A \cup B) /\ Cardinality(A \cup B) <= m + (n - 1) * u
    <3>1. /\ IsFiniteSet(A \cup B)
          /\ Cardinality(A \cup B) = Cardinality(A) + Cardinality(B) - Cardinality(A \cap B)
      BY <2>2, <2>3, FS_Union
    <3>2. Cardinality(A \cap B) \in Nat
      BY <2>2, FS_Intersection, FS_CardinalityType
    <3>3. (n - 1) * u \in Int /\ m \in Int
      BY <1>1
    <3>4. QED
      BY <2>2, <2>3, <3>1, <3>2, <3>3
  <2>5. /\ IsFiniteSet(MemoryTaken)
        /\ Cardinality(MemoryTaken) <= Cardinality(A \cup B)
    BY <2>1, <2>4, FS_Subset
  <2>6. NextQuota(h) = u
    BY <1>1, <1>5 DEF NextQuota, Quota, n, u
  <2>7. m + n * u <= MaxMemory
    <3>1. m + req[h].users * u <= MaxMemory
      BY <1>1, <1>2, <1>5 DEF Admitted, m, u
    <3>2. n * u <= req[h].users * u
      BY <1>1, <1>2, Monotone
    <3>3. n * u \in Int /\ req[h].users * u \in Int
      BY <1>1
    <3>4. QED
      BY <1>1, <3>1, <3>2, <3>3, SizeAssumption
  <2>8. (n - 1) * u + u = n * u
    BY <1>1
  <2>9. Cardinality(MemoryTaken) \in Nat /\ Cardinality(A \cup B) \in Nat
    BY <2>4, <2>5, FS_CardinalityType
  <2>10. Cardinality(MemoryTaken) + u <= MaxMemory
    <3>1. (n - 1) * u \in Int /\ n * u \in Int
      BY <1>1
    <3>2. QED
      BY <1>1, <2>4, <2>5, <2>7, <2>8, <2>9, <3>1, SizeAssumption
  <2>11. QED
    BY <2>5, <2>6, <2>10
<1>6. QED
  BY <1>1, <1>4, <1>5

LEMMA EmptyPaid ==
    ASSUME NEW c, Len(boxes[c]) = 0, pc[c] \notin {"id", "gen", "freeMem"}
    PROVE  Paid(c) = {}
<1>1. Paid(c) = 1..(0 + 0)
  BY DEF Paid
<1>2. QED
  BY <1>1

LEMMA OnlyHoldAndWait ==
    ASSUME IInv, PlaceInv, ConcInv, MemoryInv, PoolInv, QueueInv
    PROVE  StuckOnlyByHoldAndWait
<1> SUFFICES ASSUME NEW c \in Caller, pc[c] # "idle",
                    \A d \in Caller : Blocked(d), CloseBlocked,
                    ~HoldAndWait, \A d \in Caller : pc[d] # "doomed",
                    lost = {}, ~Closed
             PROVE  FALSE
  BY DEF StuckOnlyByHoldAndWait
<1>1. \A d \in Caller : pc[d] \in {"idle", "conc", "mem"}
  <2>1. Cardinality(lost) <= Count
    BY FS_EmptySet, SizeAssumption
  <2>2. \A d \in Caller : pc[d] = "id" => availableIDs # {}
    BY <2>1, NumbersSuffice DEF IdsSuffice
  <2>3. QED
    BY <2>2 DEF Blocked
<1>2. PICK h \in Caller : pc[h] = "mem" /\ h = Head(memQ)
  <2>1. CASE \A d \in Caller : pc[d] # "mem"
    <3>1. InFlight = {} /\ pc[c] = "conc"
      BY <1>1, <2>1 DEF InFlight
    <3>2. QED
      BY <3>1, ConcNeverStops
  <2>2. CASE \E d \in Caller : pc[d] = "mem"
    <3>1. memQ # <<>>
      BY <2>2, EmptySeq DEF QueueInv, Waiting
    <3>2. QED
      BY <3>1, TailWaiting DEF QueueInv, IInv, TypeOK
  <2>3. QED
    BY <2>1, <2>2
<1>3. ~(memFree >= NextQuota(h))
  BY <1>2 DEF Blocked
<1>4. \A d \in Caller : d # h => boxes[d] = <<>>
  BY <1>1, <1>2 DEF HoldAndWait, PlaceInv, PlaceOf
<1>5. ASSUME NEW d \in Caller, d # h PROVE Paid(d) = {}
  <2>1. Len(boxes[d]) = 0
    BY <1>4, <1>5, Lengths
  <2>2. pc[d] \notin {"id", "gen", "freeMem"}
    BY <1>1
  <2>3. QED
    BY <2>1, <2>2, EmptyPaid
<1>6. MemoryTaken \subseteq MemoryOf(h)
  BY <1>5, MemoryMembers DEF MemoryOf, SandboxMemory
<1>7. Cardinality(MemoryTaken) + NextQuota(h) <= MaxMemory
  BY <1>2, <1>6, AloneAlwaysFits
<1>8. memFree + Cardinality(MemoryTaken) = MaxMemory
  BY FS_CardinalityType DEF MemoryInv, MemoryBudget, IInv, TypeOK
<1>9. NextQuota(h) \in Nat /\ Cardinality(MemoryTaken) \in Nat
  BY <1>2, NextQuotaType, FS_CardinalityType DEF IInv, MemoryInv
<1>10. QED
  BY <1>3, <1>7, <1>8, <1>9, SizeAssumption DEF IInv, TypeOK

-----------------------------------------------------------------------------
FullInv ==
    /\ IInv /\ PlaceInv /\ QueueInv
    /\ ConcInv /\ MemoryInv /\ PoolInv

LEMMA InitFull == Init => FullInv
<1> SUFFICES ASSUME Init PROVE FullInv
  OBVIOUS
<1>1. IInv
  BY InitInv
<1>2. \A c \in Caller : pc[c] = "idle" /\ boxes[c] = <<>> /\ Len(boxes[c]) = 0
  BY EmptySeq DEF Init
<1>3. PlaceInv
  BY <1>2 DEF PlaceInv, PlaceOf
<1>4. QueueInv
  <2>1. Len(concQ) = 0 /\ Len(memQ) = 0
    BY EmptySeq DEF Init
  <2>2. QED
    BY <1>2, <2>1 DEF Init, QueueInv, Waiting, Once
<1>5. ConcInv
  <2>1. \A x : x \notin WeightTaken
    BY <1>2, WeightMembers
  <2>2. WeightTaken = {}
    BY <2>1
  <2>3. QED
    BY <2>2, FS_EmptySet, SizeAssumption DEF Init, ConcInv
<1>6. MemoryInv
  <2>1. \A c \in Caller : Paid(c) = {}
    BY <1>2, EmptyPaid
  <2>2. \A x : x \notin MemoryTaken
    BY <2>1, MemoryMembers
  <2>3. MemoryTaken = {}
    BY <2>2
  <2>4. QED
    BY <2>3, FS_EmptySet, SizeAssumption DEF Init, MemoryInv, MemoryBudget
<1>7. PoolInv
  BY DEF Init, PoolInv
<1>8. QED
  BY <1>1, <1>3, <1>4, <1>5, <1>6, <1>7 DEF FullInv

LEMMA FullInvariant == Spec => []FullInv
<1>1. FullInv /\ [Next]_vars => FullInv'
  BY NextInv, NextPlace, NextQueue, NextConc, NextMemory, NextPool DEF FullInv
<1>2. QED
  BY InitFull, <1>1, PTL DEF Spec
(* Every behaviour of the scheduler keeps its variables in their types.    *)
THEOREM TypeCorrect == Spec => []TypeOK
<1>1. IInv => TypeOK
  BY DEF IInv
<1>2. IInv /\ [Next]_vars => IInv'
  BY NextInv
<1>3. QED
  BY InitInv, <1>1, <1>2, PTL DEF Spec

(* getBox, releaseBox and their error paths never let two sandboxes have   *)
(* the same box number, however the goroutines interleave, whichever       *)
(* generator calls fail and whenever Close is called.                      *)
THEOREM NoSharedBox == Spec => []ExclusiveIds
<1>1. IInv => ExclusiveIds
  BY DEF IInv
<1>2. IInv /\ [Next]_vars => IInv'
  BY NextInv
<1>3. QED
  BY InitInv, <1>1, <1>2, PTL DEF Spec

(* The scheduler implements the pool of exclusive box numbers.             *)
THEOREM ImplementsPool == Spec => PoolSpec
<1>1. Init => Pool!Init
  <2> SUFFICES ASSUME Init PROVE Pool!Init
    OBVIOUS
  <2>1. \A c \in Caller : Held(c) = {}
    BY EmptySeq DEF Init, Held
  <2>2. QED
    BY <2>1 DEF Init, Pool!Init
<1>2. IInv /\ [Next]_vars => IInv' /\ [Pool!Next]_(Pool!poolVars)
  BY NextInv DEF IdStep
<1>3. QED
  BY InitInv, <1>1, <1>2, PTL DEF Spec, PoolSpec, Pool!Spec

(* No unit of sandbox memory is used twice, leaks or comes back twice,     *)
(* whatever calls fail or give up between memSem.Acquire and the deferred  *)
(* Release of getBox and releaseBox.                                       *)
THEOREM MemoryInBudget == Spec => []MemoryBudget
<1>1. FullInv => MemoryBudget
  BY DEF FullInv, MemoryInv
<1>2. QED
  BY FullInvariant, <1>1, PTL

(* The sandboxes alive never outnumber the weight taken from concSem, and  *)
(* concSem is returned exactly what was taken from it.                     *)
THEOREM ConcurrencyInBudget == Spec => []ConcurrencyBudget
<1>1. FullInv => ConcurrencyBudget
  BY HeldWithinWeight DEF FullInv, ConcInv, ConcurrencyBudget
<1>2. QED
  BY FullInvariant, <1>1, PTL

(* New's 2*count box numbers are enough: the receive in getBox, which does *)
(* not watch the context, finds one while at most count were lost.         *)
THEOREM NumbersAreEnough == Spec => []IdsSuffice
<1>1. FullInv => IdsSuffice
  BY NumbersSuffice DEF FullInv
<1>2. QED
  BY FullInvariant, <1>1, PTL

(* A Close that obtained concSem left every number in the channel but the  *)
(* lost ones, and only a Close that was cut short makes a send panic.      *)
THEOREM CleanClose == Spec => []CloseIsClean
<1>1. FullInv => CloseIsClean
  <2> SUFFICES ASSUME FullInv PROVE CloseIsClean
    OBVIOUS
  <2>1. closing = "closed" => \A c \in Caller : Held(c) = {}
    BY ClosedHoldsNothing DEF FullInv
  <2>2. QED
    BY <2>1 DEF FullInv, PoolInv, IInv, NoZero, CloseIsClean
<1>2. QED
  BY FullInvariant, <1>1, PTL

(* The manager stops only because a request keeps its sandboxes while it   *)
(* queues for memory with another, because RunBox3 asked for more than     *)
(* there is, after a generator failure or after Close: for every number of *)
(* callers, every mix of requests and every size of the two semaphores.    *)
THEOREM StopsOnlyByHoldAndWait == Spec => []StuckOnlyByHoldAndWait
<1>1. FullInv => StuckOnlyByHoldAndWait
  BY OnlyHoldAndWait DEF FullInv
<1>2. QED
  BY FullInvariant, <1>1, PTL
=============================================================================
