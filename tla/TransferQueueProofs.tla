-------------------------- MODULE TransferQueueProofs --------------------------
(***************************************************************************)
(* Proofs about TransferQueue, for any number of transfers; but an         *)
(* endpoint without a callback has two at least, since a single transfer   *)
(* would be linked behind itself.                                          *)
(***************************************************************************)
EXTENDS TransferQueue, FiniteSetTheorems, WellFoundedInduction, TLAPS

-----------------------------------------------------------------------------
(* The parts of the inductive invariant.                                   *)

\* No transfer occurs twice.
Distinct(s) == \A j, k \in 1 .. Len(s) : s[j] = s[k] => j = k

\* The chain: a transfer is scheduled once at a time, the active ones are at the
\* end, and the next pointers go through it.
ChainInv ==
    /\ Distinct(chain)
    /\ \A j, k \in 1 .. Len(chain) : j < k /\ act[chain[j]] => act[chain[k]]
    /\ \A k \in 1 .. Len(chain) - 1 : next[chain[k]] = chain[k + 1]
    /\ chain # <<>> => next[chain[Len(chain)]] = Null
    /\ ~callback => \A k \in 1 .. Len(chain) : act[chain[k]]

\* schedule_transfer, from the link to the decision that the controller need not
\* be primed, or to its priming.
Linking == {"prime?", "trip", "status", "test", "rearm", "prime"}

\* The transfer that is being scheduled.
TransferInv ==
    /\ swPc = "unconfigured" => chain = <<>> /\ ~live
    /\ swPc = "begin" =>
          /\ act[transfer] /\ next[transfer] = Null
          /\ \A k \in 1 .. Len(chain) : chain[k] # transfer
    /\ swPc \in Linking => chain # <<>> /\ act[transfer] /\ transfer = chain[Len(chain)]
    /\ swPc = "prime" => qhNext = transfer
    /\ swPc = "end" =>
          /\ callback => chain # <<>>
          /\ chain # <<>> => transfer = chain[Len(chain)]

\* An endpoint without callback goes through its transfers in turn.
Succ(x) == IF x + 1 >= N THEN 0 ELSE x + 1
TurnInv ==
    /\ ~callback /\ swPc \in Linking \cup {"begin", "end"} => turn = Succ(transfer)
    /\ ~callback /\ last_transfer # Null =>
          /\ swPc = "idle" => turn = Succ(last_transfer)
          /\ swPc = "begin" => transfer = Succ(last_transfer)

\* first_transfer and last_transfer outside schedule_transfer and run_callbacks, and
\* during run_callbacks.
DelimitInv ==
    callback /\ swPc \in {"unconfigured", "idle", "begin"} /\ isrPc = "idle" =>
        IF chain = <<>>
        THEN first_transfer = Null /\ last_transfer = Null
        ELSE first_transfer = chain[1] /\ last_transfer = chain[Len(chain)]
WalkInv ==
    /\ isrPc # "idle" =>
          /\ callback /\ swPc \in {"unconfigured", "idle", "begin"}
          /\ chain # <<>> /\ first = chain[1]
          /\ count =< Len(chain)
          /\ \A k \in 1 .. count : ~act[chain[k]]
    /\ isrPc = "walk" =>
          /\ count < Len(chain) /\ t = chain[count + 1]
          /\ first_transfer = chain[1] /\ last_transfer = chain[Len(chain)]
    /\ isrPc = "call" =>
          /\ count > 0
          /\ IF count = Len(chain)
             THEN first_transfer = Null /\ last_transfer = Null
             ELSE first_transfer = chain[count + 1] /\ last_transfer = chain[Len(chain)]
    /\ ~callback => ~complete

\* first_transfer and last_transfer during schedule_transfer, and last_transfer of a
\* list that the ISR never touches.
ScheduleInv ==
    /\ callback /\ swPc \in Linking \cup {"end"} =>
          /\ last = Null => Len(chain) = 1
          /\ last # Null \/ swPc = "end" => first_transfer = chain[1]
    /\ last = Null => swPc \notin {"prime?", "trip", "status", "test"}
    /\ ~callback /\ swPc \in {"idle", "begin"} /\ chain # <<>> =>
          last_transfer = chain[Len(chain)]

\* The oldest scheduled transfer that has not completed.
FirstActive(x) ==
    \E k \in 1 .. Len(chain) :
        chain[k] = x /\ act[x] /\ \A j \in 1 .. k - 1 : ~act[chain[j]]

\* The controller executes nothing, and will not of itself.
Resting == ~prime /\ IF hazard THEN seen = Null ELSE cur = Null

\* What the controller executes, is about to execute or is primed with is the
\* oldest active transfer; when it rests there is nothing for it to do but what
\* schedule_transfer is just adding.
ControllerInv ==
    /\ hazard => live /\ stat
    /\ live =>
          /\ ~hazard /\ cur # Null => stat /\ FirstActive(cur)
          /\ hazard /\ seen # Null => FirstActive(seen)
          /\ prime => FirstActive(qhNext) /\ IF hazard THEN seen = Null ELSE cur = Null
          /\ Resting => \A k \in 1 .. Len(chain) : act[chain[k]] =>
                            swPc \in Linking /\ chain[k] = transfer

\* ENDPTSTATUS tells whether the controller is at work, but after a configuration
\* until the first priming; and the tripwire, whether that has changed.
StatusInv ==
    live =>
        /\ stat /\ ~hazard /\ cur = Null /\ ~prime =>
              \/ swPc \in {"idle", "begin"} /\ last_transfer = Null
              \/ swPc \in {"rearm", "prime"} /\ last = Null
        /\ swPc \in {"trip", "status", "test"} => ~prime
        /\ swPc \in {"status", "test"} /\ atdtw => ~hazard
        /\ swPc = "test" /\ atdtw => status = stat
        /\ swPc \in {"rearm", "prime"} => Resting

\* One packet at most moves while interrupts are disabled, and not the transfer
\* that is being added.
PaceInv ==
    live /\ swPc \in Linking =>
        /\ prime => qhNext # transfer
        /\ ~moved => IF hazard THEN seen # transfer ELSE cur # transfer

\* The inductive invariant.
QueueInv ==
    /\ TypeOK
    /\ ChainInv /\ TransferInv /\ TurnInv
    /\ DelimitInv /\ WalkInv /\ ScheduleInv
    /\ ControllerInv /\ StatusInv /\ PaceInv

-----------------------------------------------------------------------------
(* Types, and sequences of transfers.                                      *)

\* The null pointer is no transfer, and every transfer has one after it.
LEMMA Transfers ==
    /\ Null \in XferOrNull /\ Null \notin Xfer
    /\ Xfer \subseteq XferOrNull
    /\ 0 \in Xfer
    /\ \A x \in XferOrNull : x # Null => x \in Xfer
    /\ \A x \in Xfer : Succ(x) \in Xfer
BY NAssumption DEF Null, Xfer, XferOrNull, Succ

\* There are no more scheduled transfers than transfers.
LEMMA ChainFits ==
    ASSUME NEW s \in Seq(Xfer), Distinct(s)
    PROVE  Len(s) =< N
<1>1. s \in Injection(1 .. Len(s), Xfer)
  <2>1. s \in [1 .. Len(s) -> Xfer]
    OBVIOUS
  <2> QED
    BY <2>1 DEF Injection, IsInjective, Distinct
<1>2. IsFiniteSet(Xfer) /\ Cardinality(Xfer) = N
    BY NAssumption, FS_Interval DEF Xfer
<1>3. ASSUME NEW n \in Nat
      PROVE  Cardinality(1 .. n) = n
  <2>1. Cardinality(1 .. n) = IF 1 > n THEN 0 ELSE n - 1 + 1
    BY FS_Interval
  <2> QED
    BY <2>1
<1>4. Cardinality(1 .. Len(s)) = Len(s)
  <2>1. Len(s) \in Nat
    OBVIOUS
  <2> QED
    BY <2>1, <1>3, Zenon
<1>5. Cardinality(1 .. Len(s)) =< Cardinality(Xfer)
    BY <1>1, <1>2, FS_Injection
<1> QED
    BY <1>2, <1>4, <1>5, Zenon

\* Taking the first transfer out of the chain leaves the others.
LEMMA WithoutFirst ==
    ASSUME NEW s \in Seq(Xfer), s # <<>>
    PROVE  RemoveFirst(s, s[1]) = Tail(s)
<1>0. 1 \in 1 .. Len(s)
    OBVIOUS
<1>1. SelectInSeq(s, LAMBDA v : v = s[1]) = 1
  <2> DEFINE I == {i \in 1 .. Len(s) : s[i] = s[1]}
  <2>1. 1 \in I /\ \A i \in I : 1 <= i
    BY <1>0
  <2>2. \A k \in I : (\A i \in I : k <= i) => k = 1
    BY <2>1
  <2>3. Min(I) = 1
    BY <2>1, <2>2 DEF Min
  <2> QED
    BY <2>1, <2>3 DEF SelectInSeq
<1>2. RemoveAt(s, 1) = Tail(s)
    BY DEF RemoveAt
<1> QED
    BY <1>0, <1>1, <1>2 DEF RemoveFirst

-----------------------------------------------------------------------------
(* The steps preserve the invariant.                                       *)

\* Initially nothing is scheduled and the controller is at rest.
LEMMA InitHolds ==
    Init => QueueInv
<1> SUFFICES ASSUME Init
             PROVE  QueueInv
    OBVIOUS
<1>1. TypeOK
  <2>1. next \in [Xfer -> XferOrNull] /\ act \in [Xfer -> BOOLEAN]
    BY Transfers DEF Init
  <2>2. chain \in Seq(Xfer)
    BY DEF Init
  <2>3. transfer \in Xfer /\ turn \in Xfer /\ count \in 0 .. N
    BY NAssumption, Transfers DEF Init
  <2>4. {first_transfer, last_transfer, qhNext, cur, seen, last, first, t} \subseteq XferOrNull
    BY Transfers DEF Init
  <2> QED
    BY <2>1, <2>2, <2>3, <2>4 DEF Init, TypeOK
<1>2. ChainInv /\ TransferInv /\ TurnInv /\ DelimitInv /\ WalkInv /\ ScheduleInv
    BY DEF Init, ChainInv, Distinct, TransferInv, TurnInv, DelimitInv, WalkInv,
           ScheduleInv, Linking
<1>3. ControllerInv /\ StatusInv /\ PaceInv
    BY DEF Init, ControllerInv, StatusInv, PaceInv
<1> QED
    BY <1>1, <1>2, <1>3 DEF QueueInv

\* Priming: the controller is primed with the oldest active transfer.
LEMMA HwPrimeHolds ==
    ASSUME QueueInv, HwPrime
    PROVE  QueueInv'
<1> USE DEF HwPrime, QueueInv, descriptors, queueHead, scheduler, isr
<1>1. TypeOK'
    BY Transfers DEF TypeOK
<1>2. ChainInv' /\ TransferInv' /\ TurnInv' /\ DelimitInv' /\ WalkInv' /\ ScheduleInv'
    BY DEF ChainInv, TransferInv, TurnInv, DelimitInv, WalkInv, ScheduleInv
<1>3. ControllerInv'
    BY Transfers DEF TypeOK, ControllerInv, FirstActive, Resting
<1>4. StatusInv' /\ PaceInv'
    BY Transfers DEF TypeOK, ControllerInv, StatusInv, PaceInv, FirstActive,
                     Resting, Linking
<1> QED
    BY <1>1, <1>2, <1>3, <1>4

\* What the controller retires is the oldest active transfer, wherever it is.
LEMMA RetiredIs ==
    ASSUME QueueInv, HwRetire
    PROVE  /\ cur \in Xfer
           /\ swPc \in Linking => cur # transfer
           /\ \E i \in 1 .. Len(chain) :
                 /\ chain[i] = cur
                 /\ \A j \in 1 .. i - 1 : ~act[chain[j]]
                 /\ \A j \in i .. Len(chain) : act[chain[j]]
                 /\ seen' = IF i = Len(chain) THEN Null ELSE chain[i + 1]
                 /\ ~callback => i = 1
<1> USE DEF HwRetire, QueueInv, TypeOK
<1>1. cur \in Xfer /\ FirstActive(cur)
    BY Transfers DEF ControllerInv
<1>2. swPc \in Linking => cur # transfer
    BY DEF PaceInv, InterruptsDisabled, Linking
<1>3. PICK i \in 1 .. Len(chain) :
         chain[i] = cur /\ act[cur] /\ \A j \in 1 .. i - 1 : ~act[chain[j]]
    BY <1>1 DEF FirstActive
<1>4. \A j \in i .. Len(chain) : act[chain[j]]
    BY <1>3 DEF ChainInv
<1>5. seen' = IF i = Len(chain) THEN Null ELSE chain[i + 1]
    BY <1>3 DEF ChainInv
<1>6. ~callback => i = 1
    BY <1>3 DEF ChainInv
<1> QED
    BY <1>1, <1>2, <1>3, <1>4, <1>5, <1>6

\* Where there is a callback the retired transfer stays in the chain.
LEMMA HwRetireHolds1 ==
    ASSUME QueueInv, HwRetire, callback
    PROVE  QueueInv'
<1> USE DEF HwRetire, QueueInv, queueHead, scheduler, isr
<1>1. PICK i \in 1 .. Len(chain) :
         /\ chain[i] = cur
         /\ \A j \in 1 .. i - 1 : ~act[chain[j]]
         /\ \A j \in i .. Len(chain) : act[chain[j]]
         /\ seen' = IF i = Len(chain) THEN Null ELSE chain[i + 1]
    BY RetiredIs
<1>2. cur \in Xfer /\ (swPc \in Linking => cur # transfer)
    BY RetiredIs
<1>3. TypeOK'
  <2>1. seen' \in XferOrNull
    BY <1>2 DEF TypeOK
  <2>2. act' \in [Xfer -> BOOLEAN]
    BY <1>2 DEF TypeOK
  <2> QED
    BY <2>1, <2>2 DEF TypeOK
<1>4. \A j \in 1 .. Len(chain) : act'[chain[j]] <=> j > i
    BY <1>1, <1>2 DEF TypeOK, ChainInv, Distinct
<1>5. ChainInv'
    BY <1>4 DEF ChainInv, Distinct
<1>6. TransferInv' /\ TurnInv'
    BY <1>1, <1>2 DEF TypeOK, TransferInv, TurnInv, Linking
<1>7. DelimitInv' /\ ScheduleInv'
    BY DEF DelimitInv, ScheduleInv
<1>8. WalkInv'
    BY <1>1, <1>4 DEF TypeOK, WalkInv
<1>9. ControllerInv'
    BY <1>1, <1>4, Transfers DEF TypeOK, ControllerInv, FirstActive, Resting
<1>10. StatusInv' /\ PaceInv'
    BY <1>1, <1>2 DEF StatusInv, PaceInv, Resting, InterruptsDisabled, Linking
<1> QED
    BY <1>3, <1>5, <1>6, <1>7, <1>8, <1>9, <1>10

\* Where there is none it is the first of the chain, and leaves it.
LEMMA HwRetireHolds2 ==
    ASSUME QueueInv, HwRetire, ~callback
    PROVE  QueueInv'
<1> USE DEF HwRetire, QueueInv, queueHead, scheduler, isr
<1>1. /\ chain # <<>> /\ chain[1] = cur
      /\ \A j \in 1 .. Len(chain) : act[chain[j]]
      /\ seen' = IF 1 = Len(chain) THEN Null ELSE chain[2]
  <2>1. PICK i \in 1 .. Len(chain) :
           /\ chain[i] = cur
           /\ \A j \in i .. Len(chain) : act[chain[j]]
           /\ seen' = IF i = Len(chain) THEN Null ELSE chain[i + 1]
           /\ i = 1
    BY RetiredIs
  <2> QED
    BY <2>1 DEF TypeOK
<1>2. cur \in Xfer /\ (swPc \in Linking => cur # transfer)
    BY RetiredIs
<1> HIDE DEF HwRetire
<1>3. chain' = Tail(chain)
    BY <1>1, WithoutFirst DEF HwRetire, TypeOK, ChainInv
<1>4. /\ chain' \in Seq(Xfer)
      /\ Len(chain') = Len(chain) - 1
      /\ \A j \in 1 .. Len(chain') : chain'[j] = chain[j + 1]
  <2>1. chain \in Seq(Xfer)
    BY DEF TypeOK
  <2> QED
    BY <1>1, <1>3, <2>1
<1>5. \A j \in 1 .. Len(chain') : chain'[j] # cur /\ act'[chain'[j]]
    BY <1>1, <1>2, <1>4 DEF HwRetire, TypeOK, ChainInv, Distinct
<1> USE DEF HwRetire
<1>6. TypeOK'
  <2>1. seen' \in XferOrNull
    BY <1>2 DEF TypeOK
  <2>2. act' \in [Xfer -> BOOLEAN]
    BY <1>2 DEF TypeOK
  <2>3. chain' \in Seq(Xfer)
    BY <1>4
  <2> QED
    BY <2>1, <2>2, <2>3 DEF TypeOK
<1>7. ChainInv'
  <2>1. Distinct(chain')
    <3>1. ASSUME NEW j \in 1 .. Len(chain'), NEW k \in 1 .. Len(chain'),
                 chain'[j] = chain'[k]
          PROVE  j = k
      <4>1. /\ j + 1 \in 1 .. Len(chain) /\ k + 1 \in 1 .. Len(chain)
            /\ chain[j + 1] = chain[k + 1]
        BY <1>4, <3>1 DEF TypeOK
      <4> QED
        BY <4>1 DEF ChainInv, Distinct
    <3> QED
      BY <3>1 DEF Distinct
  <2>2. \A k \in 1 .. Len(chain') - 1 : next[chain'[k]] = chain'[k + 1]
    BY <1>4 DEF TypeOK, ChainInv
  <2>3. chain' # <<>> => next[chain'[Len(chain')]] = Null
    BY <1>4 DEF TypeOK, ChainInv
  <2> QED
    BY <1>5, <2>1, <2>2, <2>3 DEF ChainInv
<1>8. TransferInv' /\ TurnInv'
  <2>1. swPc \in Linking \cup {"end"} /\ chain' # <<>> => transfer = chain'[Len(chain')]
    BY <1>1, <1>4 DEF TypeOK, TransferInv
  <2>2. swPc \in Linking => chain' # <<>>
    BY <1>1, <1>2, <1>4 DEF TypeOK, TransferInv
  <2>3. swPc # "unconfigured" /\ (swPc \in Linking => act'[transfer])
    BY <1>1, <1>2 DEF TypeOK, TransferInv
  <2>4. swPc = "begin" => /\ act'[transfer]
                          /\ \A k \in 1 .. Len(chain') : chain'[k] # transfer
    BY <1>1, <1>4 DEF TypeOK, TransferInv
  <2>5. TransferInv'
    BY <2>1, <2>2, <2>3, <2>4 DEF TransferInv, Linking
  <2> QED
    BY <2>5 DEF TurnInv
<1>9. DelimitInv' /\ WalkInv' /\ ScheduleInv'
    BY <1>1, <1>4 DEF TypeOK, DelimitInv, WalkInv, ScheduleInv
<1>10. ControllerInv'
    BY <1>1, <1>4, <1>5, Transfers DEF TypeOK, ControllerInv, FirstActive, Resting
<1>11. StatusInv' /\ PaceInv'
    BY <1>1, <1>2 DEF StatusInv, PaceInv, Resting, InterruptsDisabled, Linking
<1> QED
    BY <1>6, <1>7, <1>8, <1>9, <1>10, <1>11

\* On to the next descriptor: an addition that came too late leaves the
\* controller at rest.
LEMMA HwAdvanceHolds ==
    ASSUME QueueInv, HwAdvance
    PROVE  QueueInv'
<1> USE DEF HwAdvance, QueueInv, descriptors, queueHead, scheduler, isr
<1>1. TypeOK'
    BY Transfers DEF TypeOK
<1>2. ChainInv' /\ TransferInv' /\ TurnInv' /\ DelimitInv' /\ WalkInv' /\ ScheduleInv'
    BY DEF ChainInv, TransferInv, TurnInv, DelimitInv, WalkInv, ScheduleInv
<1>3. ControllerInv'
    BY Transfers DEF TypeOK, ControllerInv, FirstActive, Resting
<1>4. StatusInv' /\ PaceInv'
    BY Transfers DEF TypeOK, ControllerInv, StatusInv, PaceInv, FirstActive,
                     Resting, Linking
<1> QED
    BY <1>1, <1>2, <1>3, <1>4

-----------------------------------------------------------------------------
(* schedule_transfer.                                                      *)

\* The transfer that is prepared is not in the chain.
LEMMA PrepareHolds ==
    ASSUME QueueInv, NEW x \in Xfer, Prepare(x)
    PROVE  QueueInv'
<1> USE DEF Prepare, Software, MaySchedule, QueueInv, queueHead, registers,
            controller, isr
<1>1. /\ swPc = "idle" /\ swPc' = "begin"
      /\ \A k \in 1 .. Len(chain) : chain[k] # x
    OBVIOUS
<1>2. \A k \in 1 .. Len(chain) : act'[chain[k]] = act[chain[k]] /\ next'[chain[k]] = next[chain[k]]
  <2>1. \A y \in Xfer : y # x => act'[y] = act[y] /\ next'[y] = next[y]
    BY DEF TypeOK
  <2>2. \A k \in 1 .. Len(chain) : chain[k] \in Xfer
    BY DEF TypeOK
  <2> HIDE DEF Prepare, QueueInv
  <2> QED
    BY <1>1, <2>1, <2>2
<1>3. TypeOK'
  <2>1. turn' \in Xfer
    BY Transfers DEF TypeOK, Succ
  <2> QED
    BY <2>1, Transfers DEF TypeOK
<1>4. ChainInv'
    BY <1>2 DEF TypeOK, ChainInv, Distinct
<1>5. TransferInv' /\ TurnInv'
    BY <1>1, Transfers DEF TypeOK, TransferInv, TurnInv, Linking, Succ
<1>6. DelimitInv' /\ WalkInv' /\ ScheduleInv'
    BY <1>1, <1>2 DEF DelimitInv, WalkInv, ScheduleInv, InIsr, Linking
<1>7. ControllerInv'
    BY <1>1, <1>2 DEF TypeOK, ControllerInv, FirstActive, Resting, Linking
<1>8. StatusInv' /\ PaceInv'
    BY <1>1 DEF StatusInv, PaceInv, Linking
<1> QED
    BY <1>3, <1>4, <1>5, <1>6, <1>7, <1>8

\* The link: the transfer becomes the last of the chain.  The pointer written is
\* the last transfer's, which is not the transfer itself if there are two.
LEMMA BeginHolds ==
    ASSUME callback \/ N > 1, QueueInv, Begin
    PROVE  QueueInv'
<1> USE DEF Begin, Software, QueueInv, queueHead, registers, isr
<1>1. /\ swPc = "begin" /\ isrPc = "idle"
      /\ swPc' = IF last_transfer # Null THEN "prime?" ELSE "rearm"
    BY DEF InIsr
<1>2. /\ chain' \in Seq(Xfer)
      /\ Len(chain') = Len(chain) + 1
      /\ chain'[Len(chain')] = transfer
      /\ \A k \in 1 .. Len(chain) : chain'[k] = chain[k] /\ chain[k] # transfer
    BY <1>1 DEF TypeOK, TransferInv
<1>3. chain # <<>> => last_transfer = chain[Len(chain)]
    BY <1>1 DEF DelimitInv, ScheduleInv
<1>4. last_transfer # transfer
  <2>1. CASE callback
    BY <1>1, <1>2, <1>3, <2>1, Transfers DEF TypeOK, DelimitInv
  <2>2. CASE ~callback
    BY <1>1, <2>2, NAssumption, Transfers DEF TypeOK, TurnInv, Succ, Xfer
  <2> QED
    BY <2>1, <2>2
<1>5. TypeOK'
    BY <1>1, <1>2, Transfers DEF TypeOK
<1>6. ChainInv'
  <2>1. Distinct(chain')
    BY <1>2 DEF TypeOK, ChainInv, Distinct
  <2>2. act[transfer]
    BY <1>1 DEF TransferInv
  <2>3. next'[transfer] = Null
    BY <1>1, <1>4 DEF TypeOK, TransferInv
  <2>4. \A k \in 1 .. Len(chain) : next'[chain'[k]] = chain'[k + 1]
    <3>1. ASSUME NEW k \in 1 .. Len(chain) - 1
          PROVE  next'[chain[k]] = chain[k + 1]
      BY <1>3, <3>1, Transfers DEF TypeOK, ChainInv, Distinct
    <3>2. chain # <<>> => next'[chain[Len(chain)]] = transfer
      BY <1>3, Transfers DEF TypeOK
    <3> QED
      BY <1>2, <3>1, <3>2 DEF TypeOK
  <2> QED
    BY <1>2, <2>1, <2>2, <2>3, <2>4 DEF TypeOK, ChainInv
<1>7. TransferInv' /\ TurnInv'
    BY <1>1, <1>2 DEF TypeOK, TransferInv, TurnInv, Linking
<1>8. DelimitInv' /\ WalkInv' /\ ScheduleInv'
    BY <1>1, <1>2, <1>3, Transfers
    DEF TypeOK, DelimitInv, WalkInv, ScheduleInv, Linking
<1>9. ControllerInv'
  <2>1. \A x \in Xfer : FirstActive(x) => FirstActive(x)'
    BY <1>2 DEF TypeOK, FirstActive
  <2>2. Resting' = Resting
    BY DEF Resting
  <2>3. Resting /\ live => \A k \in 1 .. Len(chain) : ~act[chain[k]]
    BY <1>1 DEF ControllerInv, Linking
  <2>4. Resting /\ live => \A k \in 1 .. Len(chain') : act[chain'[k]] =>
                             swPc' \in Linking /\ chain'[k] = transfer
    BY <1>1, <1>2, <2>3 DEF TypeOK, Linking
  <2>5. /\ hazard' => live' /\ stat'
        /\ live' /\ ~hazard' /\ cur' # Null => stat' /\ FirstActive(cur)'
    BY <2>1, Transfers DEF TypeOK, ControllerInv
  <2>6. live' /\ hazard' /\ seen' # Null => FirstActive(seen)'
    BY <2>1, Transfers DEF TypeOK, ControllerInv
  <2>7. live' /\ prime' =>
           FirstActive(qhNext)' /\ IF hazard' THEN seen' = Null ELSE cur' = Null
    <3>1. FirstActive(qhNext) => qhNext \in Xfer
      BY DEF TypeOK, FirstActive
    <3> QED
      BY <2>1, <3>1 DEF ControllerInv
  <2> QED
    BY <2>2, <2>4, <2>5, <2>6, <2>7 DEF ControllerInv
<1>10. StatusInv' /\ PaceInv'
  <2>1. \A x : FirstActive(x) => x # transfer /\ chain # <<>>
    BY <1>2 DEF FirstActive
  <2> QED
    BY <1>1, <1>3, <2>1, Transfers
    DEF TypeOK, ControllerInv, StatusInv, PaceInv, Resting, Linking
<1> QED
    BY <1>5, <1>6, <1>7, <1>8, <1>9, <1>10

\* From the link to the decision only the program counter and the registers the
\* code writes change.
LEMMA HandshakeHolds ==
    ASSUME QueueInv, CheckPrime \/ SetTripwire \/ ReadStatus \/ TestTripwire
    PROVE  QueueInv'
<1> USE DEF Software, QueueInv, descriptors, queueHead, registers, controller, isr
<1>1. CASE CheckPrime
  <2> USE DEF CheckPrime, PrimeReads
  <2>1. TypeOK'
    BY <1>1 DEF TypeOK
  <2>2. ChainInv' /\ TransferInv' /\ TurnInv'
    BY <1>1 DEF ChainInv, TransferInv, TurnInv, Linking
  <2>3. DelimitInv' /\ WalkInv' /\ ScheduleInv'
    BY <1>1 DEF InIsr, DelimitInv, WalkInv, ScheduleInv, Linking
  <2>4. ControllerInv' /\ StatusInv' /\ PaceInv'
    BY <1>1 DEF TypeOK, ControllerInv, StatusInv, PaceInv, FirstActive, Resting, Linking
  <2> QED
    BY <2>1, <2>2, <2>3, <2>4
<1>2. CASE SetTripwire
  <2> USE DEF SetTripwire
  <2>1. TypeOK'
    BY <1>2 DEF TypeOK
  <2>2. ChainInv' /\ TransferInv' /\ TurnInv'
    BY <1>2 DEF ChainInv, TransferInv, TurnInv, Linking
  <2>3. DelimitInv' /\ WalkInv' /\ ScheduleInv'
    BY <1>2 DEF InIsr, DelimitInv, WalkInv, ScheduleInv, Linking
  <2>4. ControllerInv' /\ StatusInv' /\ PaceInv'
    BY <1>2 DEF TypeOK, ControllerInv, StatusInv, PaceInv, FirstActive, Resting, Linking
  <2> QED
    BY <2>1, <2>2, <2>3, <2>4
<1>3. CASE ReadStatus
  <2> USE DEF ReadStatus
  <2>1. TypeOK'
    BY <1>3 DEF TypeOK
  <2>2. ChainInv' /\ TransferInv' /\ TurnInv'
    BY <1>3 DEF ChainInv, TransferInv, TurnInv, Linking
  <2>3. DelimitInv' /\ WalkInv' /\ ScheduleInv'
    BY <1>3 DEF InIsr, DelimitInv, WalkInv, ScheduleInv, Linking
  <2>4. ControllerInv' /\ StatusInv' /\ PaceInv'
    BY <1>3 DEF TypeOK, ControllerInv, StatusInv, PaceInv, FirstActive, Resting, Linking
  <2> QED
    BY <2>1, <2>2, <2>3, <2>4
<1>4. CASE TestTripwire
  <2> USE DEF TestTripwire
  <2>1. TypeOK'
    BY <1>4 DEF TypeOK
  <2>2. ChainInv' /\ TransferInv' /\ TurnInv'
    BY <1>4 DEF ChainInv, TransferInv, TurnInv, Linking
  <2>3. DelimitInv' /\ WalkInv' /\ ScheduleInv'
    BY <1>4 DEF InIsr, DelimitInv, WalkInv, ScheduleInv, Linking
  <2>4. live /\ swPc' = "end" => ~Resting
    BY <1>4 DEF TypeOK, StatusInv, Resting
  <2>5. live /\ swPc' = "rearm" => Resting
    BY <1>4 DEF TypeOK, ControllerInv, StatusInv, Resting
  <2>6. ControllerInv' /\ StatusInv' /\ PaceInv'
    BY <1>4, <2>4, <2>5
    DEF TypeOK, ControllerInv, StatusInv, PaceInv, FirstActive, Resting, Linking
  <2> QED
    BY <2>1, <2>2, <2>3, <2>6
<1> QED
    BY <1>1, <1>2, <1>3, <1>4

\* The priming, when the controller rests and has nothing but the new transfer.
LEMMA PrimingHolds ==
    ASSUME QueueInv, Rearm \/ Prime
    PROVE  QueueInv'
<1> USE DEF Software, QueueInv, descriptors, queueHead, registers, controller, isr
<1>1. CASE Rearm
  <2> USE DEF Rearm
  <2>1. TypeOK'
    BY <1>1, Transfers DEF TypeOK
  <2>2. ChainInv' /\ TransferInv' /\ TurnInv'
    BY <1>1 DEF ChainInv, TransferInv, TurnInv, Linking
  <2>3. DelimitInv' /\ WalkInv' /\ ScheduleInv'
    BY <1>1 DEF InIsr, DelimitInv, WalkInv, ScheduleInv, Linking
  <2>4. ControllerInv' /\ StatusInv' /\ PaceInv'
    BY <1>1 DEF TypeOK, ControllerInv, StatusInv, PaceInv, FirstActive, Resting, Linking
  <2> QED
    BY <2>1, <2>2, <2>3, <2>4
<1>2. CASE Prime
  <2> USE DEF Prime
  <2>1. TypeOK'
    BY <1>2, Transfers DEF TypeOK
  <2>2. ChainInv' /\ TransferInv' /\ TurnInv'
    BY <1>2 DEF ChainInv, TransferInv, TurnInv, Linking
  <2>3. DelimitInv' /\ WalkInv' /\ ScheduleInv'
    BY <1>2 DEF InIsr, TypeOK, TransferInv, DelimitInv, WalkInv, ScheduleInv, Linking
  <2>4. live => FirstActive(transfer)
    <3>1. live => \A k \in 1 .. Len(chain) : act[chain[k]] => chain[k] = transfer
      BY <1>2 DEF StatusInv, ControllerInv
    <3>2. /\ Len(chain) \in 1 .. Len(chain)
          /\ chain[Len(chain)] = transfer /\ act[transfer]
      BY <1>2 DEF TypeOK, TransferInv, Linking
    <3> QED
      BY <3>1, <3>2 DEF TypeOK, ChainInv, Distinct, FirstActive
  <2>5. qhNext = transfer
    BY <1>2 DEF TransferInv
  <2>6. ControllerInv' /\ StatusInv' /\ PaceInv'
    BY <1>2, <2>4, <2>5
    DEF TypeOK, ControllerInv, StatusInv, PaceInv, FirstActive, Resting, Linking
  <2> QED
    BY <2>1, <2>2, <2>3, <2>6
<1> QED
    BY <1>1, <1>2

\* The end: the list's last transfer is the one just added.
LEMMA EndHolds ==
    ASSUME QueueInv, End
    PROVE  QueueInv'
<1> USE DEF End, Software, QueueInv, descriptors, registers, controller, isr
<1>1. TypeOK'
    BY Transfers DEF TypeOK
<1>2. ChainInv' /\ TransferInv' /\ TurnInv'
    BY DEF ChainInv, TransferInv, TurnInv, Linking
<1>3. DelimitInv' /\ WalkInv' /\ ScheduleInv'
    BY DEF InIsr, TransferInv, DelimitInv, WalkInv, ScheduleInv, Linking
<1>4. ControllerInv' /\ StatusInv' /\ PaceInv'
    BY DEF TypeOK, ControllerInv, StatusInv, PaceInv, FirstActive, Resting, Linking
<1> QED
    BY <1>1, <1>2, <1>3, <1>4

-----------------------------------------------------------------------------
(* run_callbacks.                                                          *)

\* The ISR begins at the first transfer of the list.
LEMMA IsrAcknowledgeHolds ==
    ASSUME QueueInv, IsrAcknowledge
    PROVE  QueueInv'
<1> USE DEF IsrAcknowledge, InIsr, InterruptsDisabled, QueueInv, descriptors, queueHead,
            controller, scheduler
<1>1. swPc \in {"unconfigured", "idle", "begin"} /\ isrPc = "idle" /\ callback
    BY DEF TypeOK, WalkInv
<1>2. TypeOK'
  <2>1. count' \in 0 .. N
    BY NAssumption
  <2>2. {first_transfer, last_transfer, qhNext, cur, seen, last, first, t}' \subseteq XferOrNull
    BY DEF TypeOK
  <2> QED
    BY <2>1, <2>2 DEF TypeOK
<1>3. ChainInv' /\ TransferInv' /\ TurnInv'
    BY DEF ChainInv, TransferInv, TurnInv
<1>4. DelimitInv' /\ ScheduleInv'
    BY <1>1 DEF DelimitInv, ScheduleInv
<1>5. WalkInv'
  <2>1. CASE chain = <<>>
    BY <1>1, <2>1 DEF DelimitInv, WalkInv
  <2>2. CASE chain # <<>>
    BY <1>1, <2>2 DEF TypeOK, DelimitInv, WalkInv
  <2> QED
    BY <2>1, <2>2
<1>6. ControllerInv' /\ StatusInv' /\ PaceInv'
    BY DEF ControllerInv, StatusInv, PaceInv, FirstActive, Resting
<1> QED
    BY <1>2, <1>3, <1>4, <1>5, <1>6

\* The walk goes over the completed transfers.
LEMMA IsrCountHolds ==
    ASSUME QueueInv, IsrCount
    PROVE  QueueInv'
<1> USE DEF IsrCount, QueueInv, descriptors, registers, controller, scheduler
<1>1. /\ callback /\ swPc \in {"unconfigured", "idle", "begin"} /\ chain # <<>>
      /\ first = chain[1] /\ count \in Nat /\ count < Len(chain) /\ t = chain[count + 1]
      /\ first_transfer = chain[1] /\ last_transfer = chain[Len(chain)]
      /\ \A k \in 1 .. count + 1 : ~act[chain[k]]
    BY DEF TypeOK, WalkInv
<1>2. next[t] = IF count + 1 = Len(chain) THEN Null ELSE chain[count + 2]
    BY <1>1 DEF TypeOK, ChainInv
<1>3. chain \in Seq(Xfer)
    BY DEF TypeOK
<1>4. count + 1 # Len(chain) => next[t] # Null
    BY <1>1, <1>2, <1>3, Transfers
<1>5. TypeOK'
  <2>1. count' \in 0 .. N
    BY <1>1, <1>3, ChainFits, NAssumption DEF ChainInv
  <2>2. t \in Xfer
    BY <1>1, <1>3
  <2> QED
    BY <2>1, <2>2, Transfers DEF TypeOK
<1>6. ChainInv' /\ TransferInv' /\ TurnInv'
    BY <1>1 DEF ChainInv, TransferInv, TurnInv
<1>7. DelimitInv' /\ ScheduleInv'
    BY <1>1 DEF DelimitInv, ScheduleInv, Linking
<1>8. WalkInv'
  <2>1. CASE count + 1 = Len(chain)
    <3>1. /\ isrPc' = "call" /\ first_transfer' = Null /\ last_transfer' = Null
          /\ count' = Len(chain) /\ count' > 0
      BY <1>1, <1>2, <2>1
    <3> QED
      BY <1>1, <1>3, <2>1, <3>1 DEF WalkInv
  <2>2. CASE count + 1 # Len(chain)
    <3>1. /\ isrPc' = "walk" /\ UNCHANGED <<first_transfer, last_transfer>>
          /\ t' = chain[count' + 1] /\ count' < Len(chain)
      BY <1>1, <1>2, <1>3, <1>4, <2>2
    <3> QED
      BY <1>1, <1>3, <3>1 DEF WalkInv
  <2> QED
    BY <2>1, <2>2
<1>9. ControllerInv' /\ StatusInv' /\ PaceInv'
    BY <1>1 DEF ControllerInv, StatusInv, PaceInv, FirstActive, Resting, Linking
<1> QED
    BY <1>5, <1>6, <1>7, <1>8, <1>9

\* It ends at the first active one, where the list begins now.
LEMMA IsrStopHolds ==
    ASSUME QueueInv, IsrStop
    PROVE  QueueInv'
<1> USE DEF IsrStop, QueueInv, descriptors, registers, controller, scheduler
<1>1. /\ callback /\ swPc \in {"unconfigured", "idle", "begin"} /\ chain # <<>>
      /\ first = chain[1] /\ count \in Nat /\ count < Len(chain) /\ t = chain[count + 1]
      /\ first_transfer = chain[1] /\ last_transfer = chain[Len(chain)]
      /\ \A k \in 1 .. count : ~act[chain[k]]
    BY DEF TypeOK, WalkInv
<1>2. TypeOK'
    BY Transfers DEF TypeOK
<1>3. ChainInv' /\ TransferInv' /\ TurnInv'
    BY <1>1 DEF ChainInv, TransferInv, TurnInv
<1>4. DelimitInv' /\ ScheduleInv'
    BY <1>1 DEF DelimitInv, ScheduleInv, Linking
<1>5. WalkInv'
    BY <1>1 DEF WalkInv
<1>6. ControllerInv' /\ StatusInv' /\ PaceInv'
    BY <1>1 DEF ControllerInv, StatusInv, PaceInv, FirstActive, Resting, Linking
<1> QED
    BY <1>2, <1>3, <1>4, <1>5, <1>6

\* The transfer that is called back leaves the front of the chain.
LEMMA IsrCallbackHolds ==
    ASSUME QueueInv, IsrCallback
    PROVE  QueueInv'
<1> USE DEF IsrCallback, QueueInv, descriptors, queueHead, controller, scheduler
<1>1. /\ callback /\ swPc \in {"unconfigured", "idle", "begin"} /\ chain # <<>>
      /\ first = chain[1] /\ count \in Nat /\ count > 0 /\ count =< Len(chain)
      /\ IF count = Len(chain)
         THEN first_transfer = Null /\ last_transfer = Null
         ELSE first_transfer = chain[count + 1] /\ last_transfer = chain[Len(chain)]
      /\ \A k \in 1 .. count : ~act[chain[k]]
    BY DEF TypeOK, WalkInv
<1>2. chain \in Seq(Xfer)
    BY DEF TypeOK
<1>3. chain' = Tail(chain)
    BY <1>1, <1>2, WithoutFirst DEF ChainInv
<1> HIDE DEF IsrCallback
<1>4. /\ chain' \in Seq(Xfer)
      /\ Len(chain') = Len(chain) - 1
      /\ \A j \in 1 .. Len(chain') : chain'[j] = chain[j + 1]
    BY <1>1, <1>2, <1>3
<1>5. /\ first' = next[first]
      /\ count' = count - 1
      /\ isrPc' = IF count = 1 THEN "idle" ELSE "call"
      /\ UNCHANGED <<callback, next, act, first_transfer, last_transfer, qhNext, prime,
                     stat, atdtw, complete, cur, hazard, seen, live, moved, swPc,
                     transfer, last, status, turn, t>>
    BY DEF IsrCallback, registers
<1>6. first \in Xfer
    BY <1>1, <1>2
<1>7. TypeOK'
  <2>1. first' \in XferOrNull /\ count' \in 0 .. N
    BY <1>1, <1>5, <1>6, NAssumption DEF TypeOK
  <2> QED
    BY <1>4, <1>5, <2>1 DEF TypeOK
<1>8. ChainInv'
  <2>1. Distinct(chain')
    <3>1. ASSUME NEW j \in 1 .. Len(chain'), NEW k \in 1 .. Len(chain'),
                 chain'[j] = chain'[k]
          PROVE  j = k
      <4>1. /\ j + 1 \in 1 .. Len(chain) /\ k + 1 \in 1 .. Len(chain)
            /\ chain[j + 1] = chain[k + 1]
        BY <1>2, <1>4, <3>1
      <4> QED
        BY <4>1 DEF ChainInv, Distinct
    <3> QED
      BY <3>1 DEF Distinct
  <2>2. \A k \in 1 .. Len(chain') - 1 : next[chain'[k]] = chain'[k + 1]
    BY <1>2, <1>4 DEF ChainInv
  <2>3. chain' # <<>> => next[chain'[Len(chain')]] = Null
    BY <1>2, <1>4 DEF ChainInv
  <2>4. ASSUME NEW j \in 1 .. Len(chain'), NEW k \in 1 .. Len(chain'),
               j < k, act[chain'[j]]
        PROVE  act[chain'[k]]
    <3>1. /\ j + 1 \in 1 .. Len(chain) /\ k + 1 \in 1 .. Len(chain) /\ j + 1 < k + 1
          /\ act[chain[j + 1]]
      BY <1>2, <1>4, <2>4
    <3>2. act[chain[k + 1]]
      BY <3>1 DEF ChainInv
    <3> QED
      BY <1>4, <3>2
  <2> QED
    BY <1>1, <1>5, <2>1, <2>2, <2>3, <2>4 DEF ChainInv
<1>9. TransferInv' /\ TurnInv'
  <2>1. \A k \in 1 .. Len(chain') : \E j \in 1 .. Len(chain) : chain'[k] = chain[j]
    BY <1>2, <1>4
  <2>2. live => swPc # "unconfigured"
    BY DEF TransferInv
  <2>3. swPc = "begin" => \A k \in 1 .. Len(chain') : chain'[k] # transfer
    BY <2>1 DEF TransferInv
  <2>4. swPc # "unconfigured"
    BY <1>1 DEF TransferInv
  <2> QED
    BY <1>1, <1>5, <2>2, <2>3, <2>4 DEF TransferInv, TurnInv, Linking
<1>10. DelimitInv' /\ WalkInv'
  <2>1. chain' # <<>> => chain'[1] = chain[2] /\ chain'[Len(chain')] = chain[Len(chain)]
    BY <1>2, <1>4
  <2>2. chain' = <<>> <=> Len(chain) = 1
    BY <1>2, <1>4
  <2>3. Len(chain) > 1 => next[first] = chain[2]
    BY <1>1, <1>2 DEF ChainInv
  <2>4. ASSUME NEW k \in 1 .. count - 1
        PROVE  ~act[chain'[k]]
    <3>1. k \in 1 .. Len(chain') /\ k + 1 \in 1 .. count
      BY <1>1, <1>2, <1>4
    <3> QED
      BY <1>1, <1>4, <3>1
  <2>5. count < Len(chain) => chain[count + 1] = chain'[count]
    BY <1>1, <1>2, <1>4
  <2>6. DelimitInv'
    <3>1. isrPc' = "idle" => count = 1
      BY <1>5
    <3>2. count = 1 => (count = Len(chain) <=> chain' = <<>>)
      BY <2>2
    <3>3. count = 1 /\ chain' # <<>> =>
             first_transfer = chain'[1] /\ last_transfer = chain'[Len(chain')]
      BY <1>1, <2>1, <3>2
    <3> QED
      BY <1>1, <1>5, <3>1, <3>2, <3>3 DEF DelimitInv
  <2>7. WalkInv'
    BY <1>1, <1>2, <1>4, <1>5, <2>1, <2>2, <2>3, <2>4, <2>5 DEF WalkInv
  <2> QED
    BY <2>6, <2>7
<1>11. ScheduleInv' /\ PaceInv'
    BY <1>1, <1>5 DEF ScheduleInv, PaceInv, Linking
<1>12. ControllerInv' /\ StatusInv'
  <2>1. \A x : FirstActive(x) => FirstActive(x)'
    <3>1. ASSUME NEW x, NEW k \in 1 .. Len(chain), chain[k] = x, act[x],
                 \A j \in 1 .. k - 1 : ~act[chain[j]]
          PROVE  FirstActive(x)'
      <4>1. k # 1
        BY <1>1, <3>1
      <4>2. k - 1 \in 1 .. Len(chain') /\ chain'[k - 1] = x
        BY <1>2, <1>4, <3>1, <4>1
      <4>3. \A j \in 1 .. (k - 1) - 1 : ~act[chain'[j]]
        BY <1>2, <1>4, <3>1
      <4> QED
        BY <1>5, <3>1, <4>2, <4>3 DEF FirstActive
    <3> QED
      BY <3>1 DEF FirstActive
  <2>2. Resting' = Resting
    BY <1>5 DEF Resting
  <2>3. \A k \in 1 .. Len(chain') : \E j \in 1 .. Len(chain) : chain'[k] = chain[j]
    BY <1>2, <1>4
  <2>4. live /\ Resting => \A k \in 1 .. Len(chain') : ~act[chain'[k]]
    BY <1>1, <2>3 DEF ControllerInv, Linking
  <2>5. ControllerInv'
    BY <1>5, <2>1, <2>2, <2>4 DEF ControllerInv
  <2>6. StatusInv'
    BY <1>5, <2>2 DEF StatusInv
  <2> QED
    BY <2>5, <2>6
<1> QED
    BY <1>7, <1>8, <1>9, <1>10, <1>11, <1>12

-----------------------------------------------------------------------------
(* The bus reset and the configuration.                                    *)

\* After a bus reset the endpoint is dead until it is configured again.
LEMMA BusResetHolds ==
    ASSUME QueueInv, BusReset
    PROVE  QueueInv'
<1> USE DEF BusReset, InIsr, InterruptsDisabled, QueueInv, descriptors, queueHead,
            scheduler, isr
<1>1. TypeOK'
    BY Transfers DEF TypeOK
<1>2. ChainInv' /\ TransferInv' /\ TurnInv' /\ DelimitInv' /\ WalkInv' /\ ScheduleInv'
    BY DEF ChainInv, TransferInv, TurnInv, DelimitInv, WalkInv, ScheduleInv
<1>3. ControllerInv' /\ StatusInv' /\ PaceInv'
    BY DEF ControllerInv, StatusInv, PaceInv
<1> QED
    BY <1>1, <1>2, <1>3

\* A configuration begins with an empty list.
LEMMA ConfigureHolds ==
    ASSUME QueueInv, NEW on \in BOOLEAN, Configure(on)
    PROVE  QueueInv'
<1> USE DEF Configure, InIsr, QueueInv, registers, isr
<1>1. chain' = <<>> /\ chain' \in Seq(Xfer)
    OBVIOUS
<1>2. TypeOK'
  <2>1. next' \in [Xfer -> XferOrNull] /\ act' \in [Xfer -> BOOLEAN]
    BY Transfers
  <2>2. turn' \in Xfer
    BY Transfers
  <2> HIDE DEF QueueInv
  <2>3. TypeOK
    BY DEF QueueInv
  <2> QED
    BY <1>1, <2>1, <2>2, <2>3, Transfers DEF TypeOK
<1>3. ChainInv'
    BY <1>1 DEF ChainInv, Distinct
<1>4. TransferInv' /\ TurnInv' /\ DelimitInv' /\ WalkInv' /\ ScheduleInv'
    BY <1>1 DEF TransferInv, TurnInv, DelimitInv, WalkInv, ScheduleInv, Linking
<1>5. ControllerInv' /\ StatusInv' /\ PaceInv'
    BY <1>1 DEF ControllerInv, StatusInv, PaceInv, Resting, Linking
<1> QED
    BY <1>2, <1>3, <1>4, <1>5

-----------------------------------------------------------------------------
(* The theorems.                                                           *)

\* Every step of the controller, of schedule_transfer, of the ISR and of the host
\* keeps the invariant.
LEMMA StepHolds ==
    (callback \/ N > 1) /\ QueueInv /\ [Next]_vars => QueueInv'
<1> SUFFICES ASSUME callback \/ N > 1, QueueInv, [Next]_vars
             PROVE  QueueInv'
    OBVIOUS
<1>1. CASE UNCHANGED vars
  <2> USE <1>1 DEF vars, descriptors, queueHead, registers, controller, scheduler, isr,
                   QueueInv
  <2>1. TypeOK'
    BY DEF TypeOK
  <2>2. ChainInv' /\ TransferInv' /\ TurnInv'
    BY DEF ChainInv, Distinct, TransferInv, TurnInv
  <2>3. DelimitInv' /\ WalkInv' /\ ScheduleInv'
    BY DEF DelimitInv, WalkInv, ScheduleInv
  <2>4. ControllerInv' /\ StatusInv' /\ PaceInv'
    BY DEF ControllerInv, StatusInv, PaceInv, FirstActive, Resting
  <2> QED
    BY <2>1, <2>2, <2>3, <2>4
<1>2. CASE Controller \/ HwRetire
    BY <1>2, HwPrimeHolds, HwAdvanceHolds, HwRetireHolds1, HwRetireHolds2 DEF Controller
<1>3. ASSUME NEW x \in Xfer, Prepare(x)
      PROVE  QueueInv'
    BY <1>3, PrepareHolds
<1>4. CASE Scheduling
    BY <1>4, BeginHolds, HandshakeHolds, PrimingHolds, EndHolds DEF Scheduling
<1>5. CASE Isr
    BY <1>5, IsrAcknowledgeHolds, IsrCountHolds, IsrStopHolds, IsrCallbackHolds DEF Isr
<1>6. CASE BusReset
    BY <1>6, BusResetHolds
<1>7. ASSUME NEW on \in BOOLEAN, Configure(on)
      PROVE  QueueInv'
    BY <1>7, ConfigureHolds
<1> QED
    BY <1>1, <1>2, <1>3, <1>4, <1>5, <1>6, <1>7 DEF Next

\* An endpoint keeps its callback function, or has none for ever.
LEMMA CallbackStays ==
    [Next]_vars => callback' = callback
BY DEF Next, vars, Controller, HwPrime, HwAdvance, HwRetire, Prepare, Scheduling, Begin,
       CheckPrime, SetTripwire, ReadStatus, TestTripwire, Rearm, Prime, End, Isr,
       IsrAcknowledge, IsrCount, IsrStop, IsrCallback, BusReset, Configure

\* The inductive invariant holds for an endpoint with a callback whatever the number
\* of its transfers, and for one without if it has two.
THEOREM QueueInvCorrect ==
    Spec => [](callback \/ N > 1 => QueueInv)
<1>1. Init => (callback \/ N > 1 => QueueInv)
    BY InitHolds
<1>2. (callback \/ N > 1 => QueueInv) /\ [Next]_vars => (callback \/ N > 1 => QueueInv)'
    BY StepHolds, CallbackStays
<1> QED
    BY <1>1, <1>2, PTL DEF Spec

\* The registers, the list and the walk over it keep to their types: no count
\* passes the number of transfers.
THEOREM TypeCorrect ==
    ASSUME N > 1
    PROVE  Spec => []TypeOK
<1>1. (callback \/ N > 1 => QueueInv) => TypeOK
    BY DEF QueueInv
<1> QED
    BY <1>1, QueueInvCorrect, PTL

\* No scheduled transfer is stranded: when schedule_transfer has decided that it
\* need not prime the controller, the controller will come to the transfer (usb.c:
\* 774-799).
THEOREM NoTransferStrandedCorrect ==
    ASSUME N > 1
    PROVE  Spec => []NoTransferStranded
<1>1. ASSUME callback \/ N > 1 => QueueInv
      PROVE  NoTransferStranded
  <2>1. ASSUME swPc \in {"idle", "begin"}, live, ~hazard,
               NEW k \in 1 .. Len(chain), act[chain[k]]
        PROVE  \/ prime /\ qhNext \in Elements /\ act[qhNext]
               \/ stat /\ cur \in Elements /\ act[cur]
    <3>1. ~Resting
      BY <1>1, <2>1 DEF QueueInv, ControllerInv, Linking
    <3>2. \A x : FirstActive(x) => x \in Elements /\ act[x]
      BY DEF FirstActive, Elements
    <3> QED
      BY <1>1, <2>1, <3>1, <3>2 DEF QueueInv, ControllerInv, Resting
  <2> QED
    BY <2>1 DEF NoTransferStranded, Elements
<1> QED
    BY <1>1, QueueInvCorrect, PTL

\* first_transfer and last_transfer delimit the list whenever neither
\* schedule_transfer nor run_callbacks is at work (usb.c:752-810, 837-873).
THEOREM ListDelimitsChainCorrect ==
    Spec => []ListDelimitsChain
<1>1. ASSUME callback \/ N > 1 => QueueInv
      PROVE  ListDelimitsChain
    BY <1>1 DEF QueueInv, ChainInv, DelimitInv, ListDelimitsChain
<1> QED
    BY <1>1, QueueInvCorrect, PTL

-----------------------------------------------------------------------------
(* The queue implements TransferFifo and SilentFifo.                       *)

\* The first r transfers of a chain c have completed, and no more at its front.
Completed(c, a, r) ==
    /\ \A k \in 1 .. r : ~a[c[k]]
    /\ r # Len(c) => a[c[r + 1]]

\* Retired, of any chain and any active bits.
RetiredOf(c, a) ==
    LET Prefix == {k \in 1 .. Len(c) : \A j \in 1 .. k : ~a[c[j]]}
    IN  IF Prefix = {} THEN 0
        ELSE CHOOSE k \in Prefix : \A j \in Prefix : j =< k

\* How many have completed is determined.
LEMMA RetiredOfIs ==
    ASSUME NEW c \in Seq(Xfer), NEW a, NEW r \in 0 .. Len(c), Completed(c, a, r)
    PROVE  RetiredOf(c, a) = r
<1> DEFINE Prefix == {k \in 1 .. Len(c) : \A j \in 1 .. k : ~a[c[j]]}
<1>1. Len(c) \in Nat
    OBVIOUS
<1>2. \A k \in Prefix : k =< r
  <2> SUFFICES ASSUME NEW k \in 1 .. Len(c), \A j \in 1 .. k : ~a[c[j]], ~(k =< r)
               PROVE  FALSE
    OBVIOUS
  <2>1. r + 1 \in 1 .. k /\ ~(Len(c) =< r)
    BY <1>1
  <2>2. r # Len(c)
    BY <1>1, <2>1
  <2> QED
    BY <2>1, <2>2 DEF Completed
<1>3. \A k \in 1 .. r : k \in Prefix
    BY <1>1 DEF Completed
<1>4. \A k \in Prefix : k \in 1 .. r
    BY <1>2
<1> HIDE DEF Prefix
<1>5. CASE r = 0
  <2>1. Prefix = {}
    BY <1>4, <1>5
  <2> QED
    BY <1>5, <2>1 DEF RetiredOf, Prefix
<1>6. CASE r # 0
  <2>1. r \in Prefix /\ \A j \in Prefix : j =< r
    BY <1>2, <1>3, <1>6
  <2>2. \A k \in Prefix : (\A j \in Prefix : j =< k) => k = r
    BY <1>4, <2>1
  <2>3. (CHOOSE k \in Prefix : \A j \in Prefix : j =< k) = r
    BY <2>1, <2>2
  <2>4. Prefix # {}
    BY <2>1
  <2> QED
    BY <2>3, <2>4 DEF RetiredOf, Prefix
<1> QED
    BY <1>5, <1>6

\* Some number of transfers have.
LEMMA SomeCompleted ==
    ASSUME NEW c \in Seq(Xfer), NEW a
    PROVE  \E r \in 0 .. Len(c) : Completed(c, a, r)
<1>1. Len(c) \in Nat
    OBVIOUS
<1> DEFINE Active == {k \in 1 .. Len(c) : a[c[k]]}
<1>2. CASE Active = {}
  <2>1. \A k \in 1 .. Len(c) : ~a[c[k]]
    BY <1>2
  <2> QED
    BY <1>1, <2>1 DEF Completed
<1>3. CASE Active # {}
  <2>1. Active \subseteq Nat
    BY <1>1
  <2>2. PICK m \in Active : \A k \in Active : <<k, m>> \notin OpToRel(<, Nat)
    BY <1>3, <2>1, NatLessThanWellFounded, WFMin
  <2>3. \A k \in Active : ~(k < m)
    BY <2>1, <2>2, Zenon DEF OpToRel
  <2>4. m \in 1 .. Len(c) /\ a[c[m]]
    OBVIOUS
  <2>5. \A k \in 1 .. m - 1 : ~a[c[k]]
    BY <1>1, <2>3, <2>4
  <2>6. m - 1 \in 0 .. Len(c) /\ (m - 1) + 1 = m
    BY <1>1, <2>4
  <2>7. Completed(c, a, m - 1)
    BY <2>4, <2>5, <2>6 DEF Completed
  <2> QED
    BY <2>6, <2>7
<1> QED
    BY <1>2, <1>3

\* So Retired is the number that have, before a step and after it.
LEMMA RetiredIsRetiredOf ==
    /\ Retired = RetiredOf(chain, act)
    /\ Retired' = RetiredOf(chain', act')
BY DEF Retired, RetiredPrefix, RetiredOf

\* An endpoint without a callback: the oldest transfer completes and leaves.
LEMMA SilentStep ==
    ASSUME QueueInv, [Next]_vars, ~callback
    PROVE  [Silent!SilentNext]_(Silent!silentVars)
<1> USE DEF Silent!SilentNext, Silent!silentVars
<1>1. CASE UNCHANGED vars
    BY <1>1 DEF vars, controller
<1>2. CASE Controller
    BY <1>2 DEF Controller, HwPrime, HwAdvance
<1>3. CASE HwRetire
  <2>1. PICK i \in 1 .. Len(chain) : chain[i] = cur /\ i = 1
    BY <1>3, RetiredIs
  <2>2. chain \in Seq(Xfer) /\ chain # <<>> /\ chain[1] = cur
    BY <2>1 DEF QueueInv, TypeOK
  <2>3. chain' = Tail(chain)
    BY <1>3, <2>2, WithoutFirst DEF HwRetire, QueueInv, ChainInv
  <2> QED
    BY <1>3, <2>2, <2>3 DEF HwRetire, Silent!Retire
<1>4. ASSUME NEW x \in Xfer, Prepare(x)
      PROVE  UNCHANGED Silent!silentVars
    BY <1>4 DEF Prepare, controller
<1>5. CASE Scheduling
  <2>1. CASE Begin
    BY <2>1 DEF Begin, QueueInv, TypeOK, Silent!Schedule
  <2>2. CASE Scheduling /\ ~Begin
    BY <2>2 DEF Scheduling, CheckPrime, SetTripwire, ReadStatus, TestTripwire,
                Rearm, Prime, End, controller
  <2> QED
    BY <1>5, <2>1, <2>2
<1>6. CASE Isr
    BY <1>6 DEF Isr, IsrAcknowledge, IsrCount, IsrStop, IsrCallback, controller,
                QueueInv, WalkInv
<1>7. CASE BusReset
    BY <1>7 DEF BusReset, Silent!Flush
<1>8. ASSUME NEW on \in BOOLEAN, Configure(on)
      PROVE  Silent!Configure(on)
    BY <1>8 DEF Configure, Silent!Configure
<1> QED
    BY <1>1, <1>2, <1>3, <1>4, <1>5, <1>6, <1>7, <1>8 DEF Next

\* The IN endpoint's queue implements SilentFifo: its transfers complete in the
\* order in which they were scheduled (usb.c:760-810, 853-891).
THEOREM SilentRefinementCorrect ==
    ASSUME N > 1
    PROVE  Spec => SilentRefinement
<1>1. Init => (~callback => Silent!SilentInit)
    BY DEF Init, Silent!SilentInit
<1>2. (callback \/ N > 1 => QueueInv) /\ [Next]_vars =>
         [~callback => [Silent!SilentNext]_(Silent!silentVars)]_vars
    BY SilentStep
<1> QED
    BY <1>1, <1>2, QueueInvCorrect, PTL DEF Spec, SilentRefinement

\* What TransferFifo sees of the queue: how many transfers are about to be called
\* back, and whether a completion is still to be reported.
Due == IF isrPc = "call" THEN count ELSE 0
Irq == complete \/ isrPc = "walk"

\* Steps that TransferFifo does not see.
LEMMA FifoStutters ==
    ASSUME QueueInv, UNCHANGED <<chain, live, Due, Irq>>,
           \A k \in 1 .. Len(chain) : act'[chain[k]] = act[chain[k]]
    PROVE  UNCHANGED Fifo!fifoVars
<1>1. chain \in Seq(Xfer)
    BY DEF QueueInv, TypeOK
<1>2. PICK r \in 0 .. Len(chain) : Completed(chain, act, r)
    BY <1>1, SomeCompleted
<1>3. Completed(chain, act', r)
    BY <1>1, <1>2 DEF Completed
<1>4. RetiredOf(chain, act) = r /\ RetiredOf(chain, act') = r
    BY <1>1, <1>2, <1>3, RetiredOfIs
<1>5. Retired' = Retired
    BY <1>4, RetiredIsRetiredOf
<1> QED
    BY <1>5 DEF Fifo!fifoVars, Due, Irq

\* The controller completes the oldest active transfer.
LEMMA FifoRetires ==
    ASSUME QueueInv, HwRetire, callback
    PROVE  Fifo!Retire /\ cur = chain[Retired + 1]
<1>1. chain \in Seq(Xfer) /\ act \in [Xfer -> BOOLEAN]
    BY DEF QueueInv, TypeOK
<1>2. PICK i \in 1 .. Len(chain) :
         /\ chain[i] = cur
         /\ \A j \in 1 .. i - 1 : ~act[chain[j]]
         /\ \A j \in i .. Len(chain) : act[chain[j]]
    BY RetiredIs
<1>3. i - 1 \in 0 .. Len(chain) /\ Completed(chain, act, i - 1)
    BY <1>1, <1>2 DEF Completed
<1>4. \A j \in 1 .. Len(chain) : act'[chain[j]] <=> j > i
    BY <1>1, <1>2 DEF HwRetire, QueueInv, ChainInv, Distinct
<1>5. Completed(chain, act', i)
    BY <1>1, <1>4 DEF Completed
<1>6. Retired = i - 1 /\ Retired' = i
    BY <1>1, <1>3, <1>5, RetiredOfIs, RetiredIsRetiredOf DEF HwRetire
<1>7. live /\ complete' /\ UNCHANGED <<chain, live, isrPc, count>>
    BY DEF HwRetire, isr
<1>8. Retired < Len(chain) /\ Retired' = Retired + 1 /\ cur = chain[Retired + 1]
    BY <1>1, <1>2, <1>6
<1>9. (complete' \/ isrPc' = "walk") = TRUE
    BY <1>7
<1> QED
    BY <1>7, <1>8, <1>9 DEF Fifo!Retire

\* A transfer that is prepared is not scheduled yet.
LEMMA FifoPrepares ==
    ASSUME QueueInv, NEW x \in Xfer, Prepare(x)
    PROVE  UNCHANGED Fifo!fifoVars
<1>1. \A k \in 1 .. Len(chain) : act'[chain[k]] = act[chain[k]]
  <2>1. \A y \in Xfer : y # x => act'[y] = act[y]
    BY DEF Prepare, QueueInv, TypeOK
  <2>2. \A k \in 1 .. Len(chain) : chain[k] \in Xfer /\ chain[k] # x
    BY DEF Prepare, MaySchedule, QueueInv, TypeOK
  <2> QED
    BY <2>1, <2>2
<1>2. UNCHANGED <<chain, live, Due, Irq>>
    BY DEF Prepare, controller, registers, isr, Due, Irq
<1> QED
    BY <1>1, <1>2, FifoStutters

\* A transfer that is scheduled is active and goes to the end.
LEMMA FifoSchedules ==
    ASSUME QueueInv, Begin, callback
    PROVE  Fifo!Schedule(transfer)
<1>1. chain \in Seq(Xfer) /\ transfer \in Xfer
    BY DEF QueueInv, TypeOK
<1>2. PICK r \in 0 .. Len(chain) : Completed(chain, act, r)
    BY <1>1, SomeCompleted
<1>3. /\ chain' \in Seq(Xfer)
      /\ Len(chain') = Len(chain) + 1
      /\ chain'[Len(chain) + 1] = transfer
      /\ \A k \in 1 .. Len(chain) : chain'[k] = chain[k]
    BY <1>1 DEF Begin
<1>4. act' = act /\ act[transfer]
    BY DEF Begin, Software, QueueInv, TransferInv
<1>5. r \in 0 .. Len(chain') /\ Completed(chain', act', r)
    BY <1>1, <1>2, <1>3, <1>4 DEF Completed
<1>6. Retired = r /\ Retired' = r
    BY <1>1, <1>2, <1>3, <1>5, RetiredOfIs, RetiredIsRetiredOf
<1>7. isrPc = "idle" /\ chain' = Append(chain, transfer)
      /\ UNCHANGED <<live, isrPc, count, complete>>
    BY DEF Begin, Software, InIsr, registers, isr
<1> QED
    BY <1>6, <1>7 DEF Fifo!Schedule

\* The walk takes what has completed where it ends, at the list's end or at the
\* first active transfer; on an empty list it takes nothing.
LEMMA FifoWalks ==
    ASSUME QueueInv, IsrAcknowledge \/ IsrCount \/ IsrStop
    PROVE  \/ UNCHANGED Fifo!fifoVars
           \/ \E n \in 0 .. Len(chain) : Fifo!Walk(n)
<1>1. chain \in Seq(Xfer) /\ Len(chain) \in Nat /\ complete \in BOOLEAN
    BY DEF QueueInv, TypeOK
<1>2. UNCHANGED <<chain, act, live>>
    BY DEF IsrAcknowledge, IsrCount, IsrStop, descriptors, controller
<1>3. ASSUME NEW n \in 0 .. Len(chain), Completed(chain, act, n), Irq, Due = 0,
             Due' = n, Irq' \in BOOLEAN
      PROVE  Fifo!Walk(n)
  <2>1. Retired = n /\ Retired' = n
    BY <1>1, <1>2, <1>3, RetiredOfIs, RetiredIsRetiredOf
  <2> QED
    BY <1>1, <1>2, <1>3, <2>1 DEF Fifo!Walk, Due, Irq
<1>4. CASE IsrAcknowledge
  <2>1. Due = 0 /\ Due' = 0 /\ Irq = TRUE
    BY <1>4 DEF IsrAcknowledge, InIsr, Due, Irq
  <2>2. CASE isrPc' = "walk"
    <3>1. Irq' = TRUE
      BY <2>2 DEF Irq
    <3> QED
      BY <1>2, <2>1, <3>1, FifoStutters
  <2>3. CASE isrPc' # "walk"
    <3>1. chain = <<>>
      BY <1>1, <1>4, <2>3, Transfers
      DEF IsrAcknowledge, InIsr, InterruptsDisabled, QueueInv, TypeOK, DelimitInv, WalkInv
    <3>2. Completed(chain, act, 0) /\ 0 \in 0 .. Len(chain)
      BY <3>1 DEF Completed
    <3>3. Irq' \in BOOLEAN
      BY DEF Irq
    <3> QED
      BY <1>3, <2>1, <3>2, <3>3
  <2> QED
    BY <2>2, <2>3
<1>5. CASE IsrCount
  <2>1. Due = 0 /\ Irq = TRUE
    BY <1>5 DEF IsrCount, Due, Irq
  <2>2. /\ count \in Nat /\ count < Len(chain) /\ t = chain[count + 1]
        /\ \A k \in 1 .. count + 1 : ~act[chain[k]]
    BY <1>5 DEF IsrCount, QueueInv, TypeOK, WalkInv
  <2>3. CASE next[t] # Null
    <3>1. isrPc' = "walk"
      BY <1>5, <2>3 DEF IsrCount
    <3>2. Due' = 0 /\ Irq' = TRUE
      BY <3>1 DEF Due, Irq
    <3> QED
      BY <1>2, <2>1, <3>2, FifoStutters
  <2>4. CASE next[t] = Null
    <3>1. count + 1 = Len(chain)
      BY <1>1, <2>2, <2>4, Transfers DEF QueueInv, ChainInv
    <3>2. isrPc' = "call" /\ count' = count + 1
      BY <1>5, <2>4 DEF IsrCount
    <3>3. Due' = count + 1
      BY <3>2 DEF Due
    <3>4. count + 1 \in 0 .. Len(chain) /\ Completed(chain, act, count + 1)
      BY <1>1, <2>2, <3>1 DEF Completed
    <3>5. Irq' \in BOOLEAN
      BY DEF Irq
    <3> QED
      BY <1>3, <2>1, <3>3, <3>4, <3>5
  <2> QED
    BY <2>3, <2>4
<1>6. CASE IsrStop
  <2>1. Due = 0 /\ Irq = TRUE
    BY <1>6 DEF IsrStop, Due, Irq
  <2>2. /\ count \in Nat /\ count < Len(chain)
        /\ \A k \in 1 .. count : ~act[chain[k]]
        /\ act[chain[count + 1]]
    BY <1>6 DEF IsrStop, QueueInv, TypeOK, WalkInv
  <2>3. Due' = count
    BY <1>6 DEF IsrStop, Due
  <2>4. count \in 0 .. Len(chain) /\ Completed(chain, act, count)
    BY <1>1, <2>2 DEF Completed
  <2>5. Irq' \in BOOLEAN
    BY DEF Irq
  <2> QED
    BY <1>3, <2>1, <2>3, <2>4, <2>5
<1> QED
    BY <1>4, <1>5, <1>6

\* A callback is for the oldest transfer, which has completed.
LEMMA FifoCallsBack ==
    ASSUME QueueInv, IsrCallback
    PROVE  first \in Xfer /\ Fifo!Callback(first)
<1>1. chain \in Seq(Xfer) /\ Len(chain) \in Nat
    BY DEF QueueInv, TypeOK
<1>2. /\ isrPc = "call" /\ chain # <<>> /\ first = chain[1]
      /\ count \in Nat /\ count > 0 /\ count =< Len(chain)
      /\ ~act[chain[1]]
    BY DEF IsrCallback, QueueInv, TypeOK, WalkInv
<1>3. chain' = Tail(chain)
    BY <1>1, <1>2, WithoutFirst DEF IsrCallback, QueueInv, ChainInv
<1>4. /\ chain' \in Seq(Xfer)
      /\ Len(chain') = Len(chain) - 1
      /\ \A j \in 1 .. Len(chain') : chain'[j] = chain[j + 1]
      /\ first \in Xfer /\ first = Head(chain)
    BY <1>1, <1>2, <1>3
<1>5. PICK r \in 0 .. Len(chain) : Completed(chain, act, r)
    BY <1>1, SomeCompleted
<1>6. r # 0
    BY <1>1, <1>2, <1>5 DEF Completed
<1>7. r - 1 \in 0 .. Len(chain') /\ Completed(chain', act, r - 1)
  <2>1. r - 1 \in 0 .. Len(chain')
    BY <1>1, <1>4, <1>6
  <2>2. \A k \in 1 .. r - 1 : ~act[chain'[k]]
    BY <1>1, <1>4, <1>5, <1>6 DEF Completed
  <2>3. r - 1 # Len(chain') => act[chain'[(r - 1) + 1]]
    BY <1>1, <1>4, <1>5, <1>6 DEF Completed
  <2> QED
    BY <2>1, <2>2, <2>3 DEF Completed
<1>8. Retired = r /\ Retired' = r - 1
  <2>1. act' = act
    BY DEF IsrCallback, descriptors
  <2> QED
    BY <1>1, <1>4, <1>5, <1>7, <2>1, RetiredOfIs, RetiredIsRetiredOf
<1>9. Due = count /\ Due' = count - 1 /\ UNCHANGED <<Irq, live>>
    BY <1>2 DEF IsrCallback, Due, Irq, registers, controller
<1> QED
    BY <1>2, <1>3, <1>4, <1>8, <1>9 DEF Fifo!Callback, Due, Irq

\* The bus reset, and the configuration.
LEMMA FifoResets ==
    ASSUME QueueInv
    PROVE  /\ BusReset => Fifo!Flush
           /\ \A on \in BOOLEAN : Configure(on) => Fifo!Configure(<<>>, on)
<1>1. chain \in Seq(Xfer)
    BY DEF QueueInv, TypeOK
<1>2. ASSUME BusReset PROVE Fifo!Flush
  <2>1. Retired' = Retired
    BY <1>2, RetiredIsRetiredOf DEF BusReset, descriptors
  <2>2. isrPc = "idle" /\ complete' = FALSE /\ live' = FALSE /\ UNCHANGED <<chain, isrPc, count>>
    BY <1>2 DEF BusReset, InIsr, isr
  <2>3. Irq' = FALSE /\ Due = 0 /\ Due' = 0
    BY <2>2 DEF Irq, Due
  <2> QED
    BY <2>1, <2>2, <2>3 DEF Fifo!Flush, Irq, Due
<1>3. ASSUME NEW on \in BOOLEAN, Configure(on)
      PROVE  Fifo!Configure(<<>>, on)
  <2>1. chain' = <<>> /\ chain' \in Seq(Xfer) /\ Len(chain') = 0
    BY <1>3 DEF Configure
  <2>2. Completed(chain', act', 0)
    BY <2>1 DEF Completed
  <2>3. 0 \in 0 .. Len(chain')
    BY <2>1
  <2>4. Retired' = 0
    BY <2>1, <2>2, <2>3, RetiredOfIs, RetiredIsRetiredOf
  <2>5. isrPc = "idle" /\ live' = on /\ UNCHANGED <<isrPc, count, complete>>
    BY <1>3 DEF Configure, InIsr, isr, registers
  <2>6. Due = 0 /\ UNCHANGED <<Due, Irq>>
    BY <2>5 DEF Due, Irq
  <2> QED
    BY <2>1, <2>4, <2>5, <2>6 DEF Fifo!Configure, Due, Irq
<1> QED
    BY <1>2, <1>3

\* Every step of an endpoint with a callback is one of TransferFifo's or none.
LEMMA FifoStep ==
    ASSUME QueueInv, [Next]_vars, callback
    PROVE  [Fifo!FifoNext]_(Fifo!fifoVars)
<1>1. ASSUME UNCHANGED <<chain, live, act, isrPc, count, complete>>
      PROVE  UNCHANGED Fifo!fifoVars
    BY <1>1, RetiredIsRetiredOf DEF Fifo!fifoVars
<1>2. CASE UNCHANGED vars \/ Controller
    BY <1>1, <1>2 DEF vars, descriptors, registers, controller, isr, Controller, HwPrime,
                      HwAdvance
<1>3. CASE HwRetire
    BY <1>3, FifoRetires DEF Fifo!FifoNext
<1>4. ASSUME NEW x \in Xfer, Prepare(x)
      PROVE  UNCHANGED Fifo!fifoVars
    BY <1>4, FifoPrepares
<1>5. CASE Scheduling
  <2>1. CASE Begin
    <3>1. transfer \in Xfer
      BY DEF QueueInv, TypeOK
    <3> QED
      BY <2>1, <3>1, FifoSchedules DEF Fifo!FifoNext
  <2>2. CASE Scheduling /\ ~Begin
    BY <1>1, <2>2
    DEF Scheduling, CheckPrime, SetTripwire, ReadStatus, TestTripwire, Rearm, Prime, End,
        descriptors, registers, controller, isr
  <2> QED
    BY <1>5, <2>1, <2>2
<1>6. CASE Isr
    BY <1>6, FifoWalks, FifoCallsBack DEF Isr, Fifo!FifoNext
<1>7. CASE BusReset \/ \E on \in BOOLEAN : Configure(on)
    BY <1>7, FifoResets DEF Fifo!FifoNext
<1> QED
    BY <1>2, <1>3, <1>4, <1>5, <1>6, <1>7 DEF Next

\* The OUT endpoint's queue implements TransferFifo: the ISR calls back exactly
\* the transfers it has counted, in the order in which they were scheduled, and
\* leaves none behind without another interrupt (usb.c:760-810, 853-891).
THEOREM FifoRefinementCorrect ==
    Spec => FifoRefinement
<1>1. Init => (callback => Fifo!FifoInit)
  <2>1. ASSUME Init
        PROVE  Fifo!FifoInit
    <3>1. chain = <<>> /\ Len(chain) = 0
      BY <2>1 DEF Init
    <3>2. Retired = 0
      BY <3>1 DEF Retired, RetiredPrefix
    <3> QED
      BY <2>1, <3>1, <3>2 DEF Init, Fifo!FifoInit
  <2> QED
    BY <2>1
<1>2. (callback \/ N > 1 => QueueInv) /\ [Next]_vars =>
         [callback => [Fifo!FifoNext]_(Fifo!fifoVars)]_vars
    BY FifoStep
<1> QED
    BY <1>1, <1>2, QueueInvCorrect, PTL DEF Spec, FifoRefinement
=============================================================================
