----------------------------- MODULE BoxManager -----------------------------
(***************************************************************************)
(* The sandbox scheduler, eval/scheduler/manager.go.                       *)
(*                                                                         *)
(* A caller is a goroutine of a grader evaluation, of an RPC handler or of *)
(* the language manager.  It asks for one sandbox (RunBox3) or for a       *)
(* manager sandbox and several user sandboxes (RunMultibox3).  A request   *)
(* first takes its weight from concSem, then for each sandbox takes the    *)
(* memory quota from memSem, receives a box number from availableIDs and   *)
(* calls the box generator.  The deferred calls undo this in reverse.      *)
(*                                                                         *)
(* Both semaphores are golang.org/x/sync/semaphore.Weighted: waiters are   *)
(* served first come, first served, and a waiter may give up when its      *)
(* context is done.  availableIDs is a channel; which of the numbers in it *)
(* comes out does not matter to any property, so it is a set here.         *)
(***************************************************************************)
EXTENDS Integers, Sequences, FiniteSets, SequencesExt

CONSTANTS
    Caller,     \* goroutines that call RunBox3 and RunMultibox3
    Shape,      \* the requests they may make
    Count,      \* numConcurrent
    MaxMemory,  \* maxMemory
    Id,         \* the 2*count box numbers New puts into availableIDs
    Zero,       \* what a receive from the closed, empty channel returns
    None,       \* no request, no box number
    Closer,     \* the goroutine that calls Close
    CtxMayEnd,  \* may the context given to Close be done?
    MaxLost     \* bound: box generator failures in one behaviour

\* A request: RunBox3 has no user sandbox, and its memQuota is mgrMem.
ShapeType == [multi : BOOLEAN, users : Nat, mgrMem : Nat, userMem : Nat]

ASSUME ShapeAssumption ==
    /\ Shape \subseteq ShapeType
    /\ \A s \in Shape : ~s.multi => s.users = 0
ASSUME SizeAssumption ==
    Count \in Nat \ {0} /\ MaxMemory \in Nat /\ MaxLost \in Nat /\ CtxMayEnd \in BOOLEAN
ASSUME IdAssumption == IsFiniteSet(Id) /\ Cardinality(Id) = 2 * Count
ASSUME DistinctAssumption ==
    /\ Zero \notin Id /\ None \notin Id \cup {Zero}
    /\ None \notin Shape /\ Closer \notin Caller

VARIABLES
    pc,             \* pc[c]: where caller c is in RunBox3 or RunMultibox3
    req,            \* req[c]: the request c runs, or None
    boxes,          \* boxes[c]: the sandboxes c holds, in the order it got them
    hand,           \* hand[c]: number received but not yet given to a sandbox
    concQ, concFree,    \* concSem: waiters and free weight
    memQ, memFree,      \* memSem: waiters and free weight
    availableIDs,   \* the numbers in the channel
    closing,        \* the call of Close: "closed" after it got all of concSem,
                    \* "cut" when its context ended first
    panicked,       \* a send on the closed channel took the process down
    lost, lostMem   \* numbers and memory that no deferred call gives back

vars == <<pc, req, boxes, hand, concQ, concFree, memQ, memFree,
          availableIDs, closing, panicked, lost, lostMem>>
concVars == <<concQ, concFree>>
memVars == <<memQ, memFree>>
idVars == <<availableIDs, hand, lost>>

PC == {"idle", "conc", "fifo", "getBox", "mem", "doomed", "id", "gen",
       "setup", "run", "unwind", "freeMem"}

Weight(s) == s.users + 1
Quota(s, k) == IF k = 1 THEN s.mgrMem ELSE s.userMem
\* The quota of the sandbox c is getting, or has just given back.
NextQuota(c) == Quota(req[c], Len(boxes[c]) + 1)
Goto(c, l) == pc' = [pc EXCEPT ![c] = l]
Closed == closing \in {"closed", "cut"}

\* Mutant of Init: New puts only count numbers into the channel.
InitFewIds ==
    /\ pc = [c \in Caller |-> "idle"]
    /\ req = [c \in Caller |-> None]
    /\ boxes = [c \in Caller |-> <<>>]
    /\ hand = [c \in Caller |-> None]
    /\ concQ = <<>> /\ concFree = Count
    /\ memQ = <<>> /\ memFree = MaxMemory
    /\ availableIDs = CHOOSE S \in SUBSET Id : Cardinality(S) = Count
    /\ closing = "open" /\ panicked = FALSE
    /\ lost = {} /\ lostMem = 0

Init ==
    /\ pc = [c \in Caller |-> "idle"]
    /\ req = [c \in Caller |-> None]
    /\ boxes = [c \in Caller |-> <<>>]
    /\ hand = [c \in Caller |-> None]
    /\ concQ = <<>> /\ concFree = Count
    /\ memQ = <<>> /\ memFree = MaxMemory
    /\ availableIDs = Id
    /\ closing = "open" /\ panicked = FALSE
    /\ lost = {} /\ lostMem = 0

-----------------------------------------------------------------------------
(* Admission *)

\* RunMultibox3 refuses what can never fit; RunBox3 checks nothing.
Admitted(s) ==
    s.multi => /\ s.mgrMem + s.users * s.userMem <= MaxMemory
               /\ Weight(s) <= Count

Call(c, s) ==
    /\ pc[c] = "idle"
    /\ Admitted(s)
    /\ req' = [req EXCEPT ![c] = s]
    /\ concQ' = Append(concQ, c)
    /\ Goto(c, "conc")
    /\ UNCHANGED <<boxes, idVars, concFree, memVars, closing, panicked, lostMem>>

\* Mutant of AcquireConc: every request counts as one sandbox.
AcquireConcOne(c) ==
    /\ pc[c] = "conc" /\ concQ # <<>> /\ Head(concQ) = c
    /\ concFree >= 1
    /\ concQ' = Tail(concQ)
    /\ concFree' = concFree - 1
    /\ Goto(c, IF req[c].multi THEN "fifo" ELSE "getBox")
    /\ UNCHANGED <<req, boxes, idVars, memVars, closing, panicked, lostMem>>

AcquireConc(c) ==
    /\ pc[c] = "conc" /\ concQ # <<>> /\ Head(concQ) = c
    /\ concFree >= Weight(req[c])
    /\ concQ' = Tail(concQ)
    /\ concFree' = concFree - Weight(req[c])
    /\ Goto(c, IF req[c].multi THEN "fifo" ELSE "getBox")
    /\ UNCHANGED <<req, boxes, idVars, memVars, closing, panicked, lostMem>>

\* The context is done while waiting: nothing is held yet.
GiveUpConc(c) ==
    /\ pc[c] = "conc"
    /\ \E k \in 1..Len(concQ) : concQ[k] = c /\ concQ' = RemoveAt(concQ, k)
    /\ req' = [req EXCEPT ![c] = None]
    /\ Goto(c, "idle")
    /\ UNCHANGED <<boxes, idVars, concFree, memVars, closing, panicked, lostMem>>

\* The communication FIFOs are made, or making one fails.
MakeFifos(c) ==
    /\ pc[c] = "fifo"
    /\ \E l \in {"getBox", "unwind"} : Goto(c, l)
    /\ UNCHANGED <<req, boxes, idVars, concVars, memVars, closing, panicked, lostMem>>

-----------------------------------------------------------------------------
(* getBox: memory, then a number, then the generator *)

GetBox(c) ==
    /\ pc[c] = "getBox"
    /\ \/ /\ NextQuota(c) = 0
          /\ Goto(c, "id") /\ UNCHANGED memQ
       \/ /\ NextQuota(c) \in 1..MaxMemory
          /\ Goto(c, "mem") /\ memQ' = Append(memQ, c)
       \/ \* more than the semaphore's size: waits, but not in the queue
          /\ NextQuota(c) > MaxMemory
          /\ Goto(c, "doomed") /\ UNCHANGED memQ
    /\ UNCHANGED <<req, boxes, idVars, concVars, memFree, closing, panicked, lostMem>>

AcquireMem(c) ==
    /\ pc[c] = "mem" /\ memQ # <<>> /\ Head(memQ) = c
    /\ memFree >= NextQuota(c)
    /\ memQ' = Tail(memQ)
    /\ memFree' = memFree - NextQuota(c)
    /\ Goto(c, "id")
    /\ UNCHANGED <<req, boxes, idVars, concVars, closing, panicked, lostMem>>

\* Mutant of GiveUpMem: the deferred release is set up before the Acquire.
GiveUpMemReleasing(c) ==
    /\ pc[c] = "mem"
    /\ \E k \in 1..Len(memQ) : memQ[k] = c /\ memQ' = RemoveAt(memQ, k)
    /\ memFree' = memFree + NextQuota(c)
    /\ Goto(c, "unwind")
    /\ UNCHANGED <<req, boxes, idVars, concVars, closing, panicked, lostMem>>

GiveUpMem(c) ==
    /\ \/ /\ pc[c] = "mem"
          /\ \E k \in 1..Len(memQ) : memQ[k] = c /\ memQ' = RemoveAt(memQ, k)
       \/ pc[c] = "doomed" /\ UNCHANGED memQ
    /\ Goto(c, "unwind")
    /\ UNCHANGED <<req, boxes, idVars, concVars, memFree, closing, panicked, lostMem>>

\* Mutant of DrawId: the number is looked up and stays available.
DrawIdPeek(c) ==
    /\ pc[c] = "id"
    /\ \E i \in availableIDs : hand' = [hand EXCEPT ![c] = i]
    /\ Goto(c, "gen")
    /\ UNCHANGED <<req, boxes, availableIDs, lost, concVars, memVars, closing, panicked, lostMem>>

\* The receive does not watch the context: it waits until a number comes or
\* the channel is closed.
DrawId(c) ==
    /\ pc[c] = "id"
    /\ \/ \E i \in availableIDs :
            /\ availableIDs' = availableIDs \ {i}
            /\ hand' = [hand EXCEPT ![c] = i]
       \/ /\ availableIDs = {} /\ Closed
          /\ hand' = [hand EXCEPT ![c] = Zero]
          /\ UNCHANGED availableIDs
    /\ Goto(c, "gen")
    /\ UNCHANGED <<req, boxes, lost, concVars, memVars, closing, panicked, lostMem>>

\* Mutant of GenOk: the number is cleared before the sandbox gets it.
GenOkCleared(c) ==
    /\ pc[c] = "gen"
    /\ hand' = [hand EXCEPT ![c] = None]
    /\ boxes' = [boxes EXCEPT ![c] = Append(@, hand'[c])]
    /\ Goto(c, "setup")
    /\ UNCHANGED <<req, availableIDs, lost, concVars, memVars, closing, panicked, lostMem>>

GenOk(c) ==
    /\ pc[c] = "gen"
    /\ boxes' = [boxes EXCEPT ![c] = Append(@, hand[c])]
    /\ hand' = [hand EXCEPT ![c] = None]
    /\ Goto(c, "setup")
    /\ UNCHANGED <<req, availableIDs, lost, concVars, memVars, closing, panicked, lostMem>>

\* Mutant of GenFail: the number is forgotten without being dropped.
GenFailForgetting(c) ==
    /\ pc[c] = "gen"
    /\ hand' = [hand EXCEPT ![c] = None]
    /\ Goto(c, "unwind")
    /\ UNCHANGED <<req, boxes, availableIDs, lost, concVars, memVars, closing, panicked, lostMem>>

\* No sandbox, hence no deferred releaseBox: the number and the memory stay out.
GenFail(c) ==
    /\ pc[c] = "gen"
    /\ Cardinality(lost) < MaxLost
    /\ lost' = lost \cup {hand[c]}
    /\ lostMem' = lostMem + NextQuota(c)
    /\ hand' = [hand EXCEPT ![c] = None]
    /\ Goto(c, "unwind")
    /\ UNCHANGED <<req, boxes, availableIDs, concVars, memVars, closing, panicked>>

-----------------------------------------------------------------------------
(* Running and unwinding *)

\* setupSandbox copies the scratch files in; the next sandbox, the commands,
\* or, when a copy fails, the deferred calls come next.
Setup(c) ==
    /\ pc[c] = "setup"
    /\ \/ Goto(c, IF Len(boxes[c]) = Weight(req[c]) THEN "run" ELSE "getBox")
       \/ Goto(c, "unwind")
    /\ UNCHANGED <<req, boxes, idVars, concVars, memVars, closing, panicked, lostMem>>

\* The commands end and the response is collected, or one of these fails.
Run(c) ==
    /\ pc[c] = "run"
    /\ Goto(c, "unwind")
    /\ UNCHANGED <<req, boxes, idVars, concVars, memVars, closing, panicked, lostMem>>

\* releaseBox, first half: the last sandbox is closed and its number sent back.
YieldId(c) ==
    /\ pc[c] = "unwind" /\ boxes[c] # <<>>
    /\ IF Closed
       THEN panicked' = TRUE /\ UNCHANGED <<boxes, availableIDs, pc>>
       ELSE /\ availableIDs' = availableIDs \cup {Last(boxes[c])}
            /\ boxes' = [boxes EXCEPT ![c] = Front(@)]
            /\ Goto(c, "freeMem")
            /\ UNCHANGED panicked
    /\ UNCHANGED <<req, hand, lost, concVars, memVars, closing, lostMem>>

\* Mutant of FreeMem: the quota is not returned.
FreeMemKeeping(c) ==
    /\ pc[c] = "freeMem"
    /\ Goto(c, "unwind")
    /\ UNCHANGED <<req, boxes, idVars, concVars, memVars, closing, panicked, lostMem>>

\* releaseBox, second half: its memory is returned.
FreeMem(c) ==
    /\ pc[c] = "freeMem"
    /\ memFree' = memFree + NextQuota(c)
    /\ Goto(c, "unwind")
    /\ UNCHANGED <<req, boxes, idVars, concVars, memQ, closing, panicked, lostMem>>

\* Mutant of ReleaseConc: the weight of one sandbox is returned.
ReleaseConcOne(c) ==
    /\ pc[c] = "unwind" /\ boxes[c] = <<>>
    /\ concFree' = concFree + 1
    /\ req' = [req EXCEPT ![c] = None]
    /\ Goto(c, "idle")
    /\ UNCHANGED <<boxes, idVars, concQ, memVars, closing, panicked, lostMem>>

ReleaseConc(c) ==
    /\ pc[c] = "unwind" /\ boxes[c] = <<>>
    /\ concFree' = concFree + Weight(req[c])
    /\ req' = [req EXCEPT ![c] = None]
    /\ Goto(c, "idle")
    /\ UNCHANGED <<boxes, idVars, concQ, memVars, closing, panicked, lostMem>>

-----------------------------------------------------------------------------
(* Close *)

BeginClose ==
    /\ closing = "open"
    /\ closing' = "waiting"
    /\ concQ' = Append(concQ, Closer)
    /\ UNCHANGED <<pc, req, boxes, idVars, concFree, memVars, panicked, lostMem>>

\* Mutant of CloseAcquired: it does not wait for the weight.
CloseAtOnce ==
    /\ closing = "waiting"
    /\ concQ # <<>> /\ Head(concQ) = Closer
    /\ concQ' = Tail(concQ)
    /\ concFree' = concFree - Count
    /\ closing' = "closed"
    /\ UNCHANGED <<pc, req, boxes, idVars, memVars, panicked, lostMem>>

CloseAcquired ==
    /\ closing = "waiting"
    /\ concQ # <<>> /\ Head(concQ) = Closer /\ concFree >= Count
    /\ concQ' = Tail(concQ)
    /\ concFree' = concFree - Count
    /\ closing' = "closed"
    /\ UNCHANGED <<pc, req, boxes, idVars, memVars, panicked, lostMem>>

\* The error of Acquire is ignored: the channel is closed all the same.
CloseCtxDone ==
    /\ CtxMayEnd
    /\ closing = "waiting"
    /\ \E k \in 1..Len(concQ) : concQ[k] = Closer /\ concQ' = RemoveAt(concQ, k)
    /\ closing' = "cut"
    /\ UNCHANGED <<pc, req, boxes, idVars, concFree, memVars, panicked, lostMem>>

-----------------------------------------------------------------------------
\* The steps a caller takes without the outside world giving up on it.
Step(c) ==
    \/ AcquireConc(c) \/ MakeFifos(c) \/ GetBox(c) \/ AcquireMem(c) \/ DrawId(c)
    \/ GenOk(c) \/ Setup(c) \/ Run(c) \/ YieldId(c) \/ FreeMem(c) \/ ReleaseConc(c)

Work(c) ==
    /\ ~panicked
    /\ \/ \E s \in Shape : Call(c, s)
       \/ Step(c)
       \/ GiveUpConc(c) \/ GiveUpMem(c) \/ GenFail(c)

Closing == ~panicked /\ (BeginClose \/ CloseAcquired \/ CloseCtxDone)

Next == Closing \/ \E c \in Caller : Work(c)

Spec == Init /\ [][Next]_vars

(***************************************************************************)
(* The manager before Close.  Goroutines are scheduled fairly, isolate     *)
(* kills a command at its wall time limit, so a step a caller can take is  *)
(* taken in the end.  No context is assumed to end: the grader passes the  *)
(* context of the whole process.                                           *)
(***************************************************************************)
OpenSpec ==
    /\ Init
    /\ [][\E c \in Caller : Work(c)]_vars
    /\ \A c \in Caller : WF_vars(~panicked /\ Step(c))

-----------------------------------------------------------------------------
(* Properties *)

TypeOK ==
    /\ pc \in [Caller -> PC]
    /\ req \in [Caller -> Shape \cup {None}]
    /\ boxes \in [Caller -> Seq(Id \cup {Zero})]
    /\ hand \in [Caller -> Id \cup {Zero, None}]
    /\ concQ \in Seq(Caller \cup {Closer}) /\ memQ \in Seq(Caller)
    /\ concFree \in Int /\ memFree \in Int
    /\ availableIDs \subseteq Id \cup {Zero}
    /\ closing \in {"open", "waiting", "closed", "cut"}
    /\ panicked \in BOOLEAN
    /\ lost \subseteq Id \cup {Zero} /\ lostMem \in Nat
\* The box numbers c works with, in a sandbox or on the way to one.
Held(c) == ({boxes[c][k] : k \in 1..Len(boxes[c])} \cup {hand[c]}) \ {None}

(***************************************************************************)
(* A box number is in one place: in the channel, dropped after a failed    *)
(* generator call, or with one sandbox of one caller.  Two sandboxes with  *)
(* one number would share isolate's directory and control group.           *)
(***************************************************************************)
ExclusiveIds ==
    /\ \A c, d \in Caller : c # d => Held(c) \cap Held(d) \cap Id = {}
    /\ \A c \in Caller : Held(c) \cap (availableIDs \cup lost) \cap Id = {}
    /\ \A c \in Caller : \A j, k \in 1..Len(boxes[c]) :
          boxes[c][j] = boxes[c][k] /\ boxes[c][j] \in Id => j = k
    /\ \A c \in Caller : \A k \in 1..Len(boxes[c]) :
          boxes[c][k] \in Id => boxes[c][k] # hand[c]
    /\ availableIDs \cap lost = {}

\* The sandboxes c has paid for out of memSem, numbered in the order it asks
\* for them: those it holds, and the one it is getting or giving back.
Paid(c) ==
    1..(Len(boxes[c]) + IF pc[c] \in {"id", "gen", "freeMem"} THEN 1 ELSE 0)

\* The units of memory out for the k-th sandbox of c, for c, and for all.
SandboxMemory(c, k) == {<<c, k>>} \X (1..Quota(req[c], k))
MemoryOf(c) == UNION {SandboxMemory(c, k) : k \in Paid(c)}
MemoryTaken == UNION {MemoryOf(c) : c \in Caller}

(***************************************************************************)
(* Every unit of memory is free, with the request that took it, or went    *)
(* with a failed generator call: no error path returns a quota twice       *)
(* (memSem.Release would panic) or keeps it, and the sandboxes that run    *)
(* together never have more than maxMemory.                                *)
(***************************************************************************)
MemoryBudget ==
    /\ memFree >= 0
    /\ memFree + lostMem + Cardinality(MemoryTaken) = MaxMemory

\* The callers that have their weight, and the units of weight that are out.
InFlight == {c \in Caller : pc[c] \notin {"idle", "conc"}}
WeightTaken == UNION {{c} \X (1..Weight(req[c])) : c \in InFlight}

(***************************************************************************)
(* Although a request of several sandboxes takes its weight first and its  *)
(* sandboxes one by one, the sandboxes alive never outnumber the weight    *)
(* taken from concSem, and concSem is neither overdrawn nor over-released. *)
(***************************************************************************)
ConcurrencyBudget ==
    /\ concFree >= 0
    /\ concFree + Cardinality(WeightTaken) = IF closing = "closed" THEN 0 ELSE Count
    /\ \A c \in Caller :
          Cardinality(Held(c)) <= IF c \in InFlight THEN Weight(req[c]) ELSE 0

(***************************************************************************)
(* The receive in getBox does not watch the context, so it must not block. *)
(* 2*count numbers are enough for that as long as the generator has not    *)
(* failed more than count times: each failure removes a number for good.   *)
(***************************************************************************)
IdsSuffice ==
    \A c \in Caller :
        pc[c] = "id" /\ Cardinality(lost) <= Count => availableIDs # {}

\* A request holds sandboxes and waits for the memory of its next one, and
\* another request waits in the same queue.
HoldAndWait ==
    \E c, d \in Caller :
        /\ c # d
        /\ pc[c] = "mem" /\ boxes[c] # <<>>
        /\ pc[d] = "mem"

\* Nothing lets c go on but the end of its context: it makes no call, or the
\* semaphore it waits for does not serve it, or the channel is open and empty.
Blocked(c) ==
    \/ pc[c] \in {"idle", "doomed"}
    \/ pc[c] = "conc" /\ ~(Head(concQ) = c /\ concFree >= Weight(req[c]))
    \/ pc[c] = "mem" /\ ~(Head(memQ) = c /\ memFree >= NextQuota(c))
    \/ pc[c] = "id" /\ availableIDs = {} /\ ~Closed
CloseBlocked == ~(closing = "waiting" /\ Head(concQ) = Closer /\ concFree >= Count)

(***************************************************************************)
(* Why the manager can come to a stop.  If no request can go on while its  *)
(* caller still wants it, then a RunMultibox3 keeps its sandboxes while it *)
(* queues for memory with another request (a second RunMultibox3 that does *)
(* the same, or just a RunBox3 in front of it whose quota does not fit     *)
(* beside what it keeps), or a RunBox3 asked for more than maxMemory       *)
(* (which nothing refuses), or a failed generator call has taken resources *)
(* away, or the manager was closed.  In particular concSem, which is taken *)
(* whole, never deadlocks by itself, and one RunMultibox3 on its own       *)
(* always gets its memory.                                                 *)
(***************************************************************************)
StuckOnlyByHoldAndWait ==
    /\ \E c \in Caller : pc[c] # "idle"
    /\ \A c \in Caller : Blocked(c)
    /\ CloseBlocked
    =>  \/ HoldAndWait
        \/ \E c \in Caller : pc[c] = "doomed"
        \/ lost # {}
        \/ Closed

(***************************************************************************)
(* "Close waits for all boxes to finish running" (manager.go:87): no       *)
(* sandbox is alive in the step in which Close stops to wait.              *)
(***************************************************************************)
CloseWaits == [][~Closed /\ Closed' => \A c \in Caller : boxes[c] = <<>>]_vars

(***************************************************************************)
(* What is left of that promise: a Close that obtained all of concSem      *)
(* found no sandbox alive and no number outside the channel but the lost   *)
(* ones, and the process panics only after a Close that was cut short.     *)
(***************************************************************************)
CloseIsClean ==
    /\ closing = "closed" => availableIDs \cup lost = Id
    /\ panicked => closing = "cut"

(***************************************************************************)
(* A request that is not given up returns.  The specification of the       *)
(* grader's transport takes it for granted: "WHEN the platform calls       *)
(* RunMultibox3 ... THEN the grader runs them in parallel ... and returns  *)
(* the manager response" (openspec grader-transport/spec.md:17-18).        *)
(***************************************************************************)
CallsReturn == \A c \in Caller : pc[c] # "idle" ~> pc[c] = "idle"

(***************************************************************************)
(* What holds of it: a request returns unless a RunMultibox3 comes to keep *)
(* sandboxes while it queues for memory with another request.  Otherwise   *)
(* single sandboxes are never starved by requests for several, nor the     *)
(* other way round.                                                        *)
(***************************************************************************)
CallsReturnOrDeadlock ==
    \A c \in Caller : pc[c] # "idle" ~> pc[c] = "idle" \/ HoldAndWait

-----------------------------------------------------------------------------
(***************************************************************************)
(* The manager hands out box numbers as BoxPool does: a number goes from   *)
(* the channel to one caller and back, or is dropped.                      *)
(***************************************************************************)
Pool == INSTANCE BoxPool WITH
    pool <- availableIDs,
    use <- [c \in Caller |-> Held(c) \cap Id],
    dropped <- lost \cap Id
PoolSpec == Pool!Spec
=============================================================================
